------------------------- MODULE Resources_proofs -------------------------
(***************************************************************************)
(* Proofs about what Engine loads and keeps: the images its sprites share, *)
(* for any animations, images and users, and the options of its            *)
(* configuration, for any options, files, ranges and choices.              *)
(***************************************************************************)
EXTENDS Engine, ListLemmas, FiniteSetTheorems

-----------------------------------------------------------------------------
(***************************************************************************)
(* Sprites. The count of an image in the cache is the number of those that *)
(* hold it: as often as a sprite that is loaded has it among its frames,   *)
(* and as often as shadows and decorations hold it. Loading and clearing a *)
(* sprite, adding up memory and purging the cache are folds over lists of  *)
(* images, each of which runs from place to place (FoldRuns).              *)
(***************************************************************************)

LEMMA WholeAndRest ==
  ASSUME NEW w \in Nat \ {0}, NEW a \in Int
  PROVE  a % w \in 0 .. w - 1 /\ (a \div w) \in Int /\ a = w * (a \div w) + (a % w)
OBVIOUS

LEMMA OneRest ==
  ASSUME NEW w \in Nat \ {0}, NEW q \in Int, NEW p \in Int, NEW r \in 0 .. w - 1, NEW s \in 0 .. w - 1,
         w * q + r = w * p + s
  PROVE  r = s
<1>1. w * (q - p) = s - r
  OBVIOUS
<1>2. CASE q - p >= 1
  <2>1. w * (q - p) >= w
    BY <1>2
  <2>2. QED
    BY <1>1, <2>1
<1>3. CASE q - p <= -1
  <2>1. w * (q - p) <= -w
    BY <1>3
  <2>2. QED
    BY <1>1, <2>1
<1>4. CASE q - p = 0
  BY <1>4
<1>5. QED
  BY <1>2, <1>3, <1>4

\* What is added to a remainder is added to what it is left of.
LEMMA RestShift ==
  ASSUME NEW w \in Nat \ {0}, NEW a \in Int, NEW b \in Int
  PROVE  ((a % w) + b) % w = (a + b) % w
<1> DEFINE r == a % w
           q == a \div w
           c == r + b
           d == a + b
<1>1. r \in 0 .. w - 1 /\ q \in Int /\ a = w * q + r
  BY WholeAndRest
<1> HIDE DEF r, q
<1>2. c \in Int /\ c % w \in 0 .. w - 1 /\ (c \div w) \in Int /\ c = w * (c \div w) + (c % w)
  <2>1. c \in Int
    BY <1>1
  <2> HIDE DEF c
  <2>2. QED
    BY <2>1, WholeAndRest
<1>3. d \in Int /\ d % w \in 0 .. w - 1 /\ (d \div w) \in Int /\ d = w * (d \div w) + (d % w)
  <2>1. d \in Int
    BY <1>1
  <2> HIDE DEF d
  <2>2. QED
    BY <2>1, WholeAndRest
<1>4. d = w * q + c
  BY <1>1
<1> HIDE DEF c, d
<1> DEFINE u == c \div w
           v == d \div w
           s == c % w
           t == d % w
<1>5. u \in Int /\ v \in Int /\ s \in 0 .. w - 1 /\ t \in 0 .. w - 1 /\ d = w * v + t /\ c = w * u + s
  BY <1>2, <1>3
<1> HIDE DEF u, v, s, t
<1>6. w * (q + u) + s = w * v + t /\ q + u \in Int
  BY <1>1, <1>4, <1>5
<1>7. s = t
  BY <1>5, <1>6, OneRest
<1>8. QED
  BY <1>7 DEF s, t, c, d, r
LEMMA RestOfRest ==
  ASSUME NEW w \in Nat \ {0}, NEW a \in Int, NEW b \in Int
  PROVE  (a - (b % w)) % w = (a - b) % w
<1> DEFINE r == b % w
           q == b \div w
           c == a - r
           d == a - b
<1>1. r \in 0 .. w - 1 /\ q \in Int /\ b = w * q + r
  BY WholeAndRest
<1> HIDE DEF r, q
<1>2. c \in Int /\ c % w \in 0 .. w - 1 /\ (c \div w) \in Int /\ c = w * (c \div w) + (c % w)
  <2>1. c \in Int
    BY <1>1
  <2> HIDE DEF c
  <2>2. QED
    BY <2>1, WholeAndRest
<1>3. d \in Int /\ d % w \in 0 .. w - 1 /\ (d \div w) \in Int /\ d = w * (d \div w) + (d % w)
  <2>1. d \in Int
    BY <1>1
  <2> HIDE DEF d
  <2>2. QED
    BY <2>1, WholeAndRest
<1>4. c = w * q + d
  BY <1>1
<1> HIDE DEF c, d
<1> DEFINE u == c \div w
           v == d \div w
           s == c % w
           t == d % w
<1>5. u \in Int /\ v \in Int /\ s \in 0 .. w - 1 /\ t \in 0 .. w - 1 /\ d = w * v + t /\ c = w * u + s
  BY <1>2, <1>3
<1> HIDE DEF u, v, s, t
<1>6. w * (q + v) + t = w * u + s /\ q + v \in Int
  BY <1>1, <1>4, <1>5
<1>7. t = s
  BY <1>5, <1>6, OneRest
<1>8. QED
  BY <1>7 DEF s, t, c, d, r

\* The memory of the images in the cache is added up one by one.
LEMMA MemoryRuns ==
  ASSUME G!SurfaceCacheAssumption, NEW c
  PROVE  \E h \in [0 .. Len (ImageOrder) -> Nat] :
           /\ h[0] = 0 /\ h[Len (ImageOrder)] = G!Memory (c)
           /\ \A i \in 1 .. Len (ImageOrder) :
                h[i] = IF c.count[ImageOrder[i]] = -1 THEN h[i - 1] ELSE h[i - 1] + Size[ImageOrder[i]]
<1> DEFINE n == Len (ImageOrder)
           F == [p \in (1 .. n) \X Nat |-> IF c.count[ImageOrder[p[1]]] = -1 THEN p[2] ELSE p[2] + Size[ImageOrder[p[1]]]]
           At (g, s) == IF s = {} THEN 0
                        ELSE IF c.count[ImageOrder[Max (s)]] # -1 THEN g[s \ {Max (s)}] + Size[ImageOrder[Max (s)]]
                             ELSE g[s \ {Max (s)}]
           Step (g) == [s \in SUBSET (1 .. n) |-> At (g, s)]
           iter == CHOOSE g : g = Step (g)
<1>1. n \in Nat /\ DOMAIN ImageOrder = 1 .. n /\ \A i \in 1 .. n : Size[ImageOrder[i]] \in Nat
  BY LenProperties, ElementOfSeq DEF G!SurfaceCacheAssumption
<1>2. G!Memory (c) = iter[1 .. n]
  BY <1>1 DEF G!Memory, G!FoldLeft, G!MapThenFoldSet, G!Cached, G!Uncached, G!Max, Max
<1>3. /\ F \in [(1 .. n) \X Nat -> Nat]
      /\ \A i \in 1 .. n, a \in Nat :
           F[<<i, a>>] = IF c.count[ImageOrder[i]] = -1 THEN a ELSE a + Size[ImageOrder[i]]
  BY <1>1
<1> HIDE DEF F, n
<1>4. /\ \E g \in [SUBSET (1 .. n) -> Nat] : IsFold (g, n, 0, F)
      /\ \A s \in SUBSET (1 .. n) : s # {} => Max (s) \in 1 .. n /\ s \ {Max (s)} \in SUBSET (1 .. n)
  BY <1>1, <1>3, FoldGoesOn
<1>5. PICK g \in [SUBSET (1 .. n) -> Nat] : IsFold (g, n, 0, F)
  BY <1>4
<1>6. \A s \in SUBSET (1 .. n) : iter[s] = At (iter, s)
  <2>1. \A s \in SUBSET (1 .. n) : g[s] = At (g, s)
    BY <1>3, <1>4, <1>5 DEF IsFold
  <2> HIDE DEF At
  <2>2. g = Step (g)
    BY <2>1
  <2> HIDE DEF Step
  <2>3. iter = Step (iter)
    BY <2>2
  <2> HIDE DEF iter
  <2>4. QED
    BY <2>3 DEF Step
<1> HIDE DEF iter
<1>7. Iterates (iter, n, Nat, 0, F)
  <2>1. iter[{}] = 0
    BY <1>6
  <2>2. ASSUME NEW s \in SUBSET (1 .. n), s # {}, iter[s \ {Max (s)}] \in Nat
        PROVE  iter[s] = F[<<Max (s), iter[s \ {Max (s)}]>>]
    <3> DEFINE m == Max (s)
               a == iter[s \ {m}]
    <3>1. m \in 1 .. n /\ a \in Nat
      BY <1>4, <2>2
    <3>2. iter[s] = IF c.count[ImageOrder[m]] # -1 THEN a + Size[ImageOrder[m]] ELSE a
      BY <1>6, <2>2
    <3> HIDE DEF m, a
    <3>3. iter[s] = F[<<m, a>>]
      BY <1>3, <3>1, <3>2
    <3>4. QED
      BY <3>3 DEF m, a
  <2>3. QED
    BY <2>1, <2>2 DEF Iterates
<1>8. PICK h \in [0 .. n -> Nat] : h[n] = iter[1 .. n] /\ IsRun (h, n, 0, F)
  BY <1>1, <1>3, <1>7, FoldRuns
<1>9. \A i \in 1 .. n : h[i] = IF c.count[ImageOrder[i]] = -1 THEN h[i - 1] ELSE h[i - 1] + Size[ImageOrder[i]]
  <2>1. \A i \in 1 .. n : h[i - 1] \in Nat
    BY <1>1
  <2>2. QED
    BY <1>3, <1>8, <2>1 DEF IsRun
<1>10. h[0] = 0
  BY <1>8 DEF IsRun
<1>11. QED
  BY <1>2, <1>8, <1>9, <1>10 DEF n

\* Images are in the list once.
LEMMA ImagePlace ==
  ASSUME G!SurfaceCacheAssumption, NEW n \in G!Image
  PROVE  /\ \E p \in 1 .. Len (ImageOrder) : ImageOrder[p] = n
         /\ \A i, j \in 1 .. Len (ImageOrder) : ImageOrder[i] = ImageOrder[j] => i = j
         /\ \A i \in 1 .. Len (ImageOrder) : ImageOrder[i] \in G!Image
         /\ Len (ImageOrder) \in Nat
<1>1. DOMAIN ImageOrder = 1 .. Len (ImageOrder) /\ Len (ImageOrder) \in Nat
  BY LenProperties DEF G!SurfaceCacheAssumption
<1>2. QED
  BY <1>1 DEF G!SurfaceCacheAssumption, G!Image, G!Range

LEMMA MemoryOfSame ==
  ASSUME G!SurfaceCacheAssumption, NEW c, NEW d, \A m \in G!Image : c.count[m] = -1 <=> d.count[m] = -1
  PROVE  G!Memory (c) = G!Memory (d) /\ G!Memory (c) \in Nat
<1> DEFINE n == Len (ImageOrder)
<1>1. n \in Nat /\ \A i \in 1 .. n : ImageOrder[i] \in G!Image
  BY ElementOfSeq, LenProperties DEF G!SurfaceCacheAssumption
<1>2. PICK h \in [0 .. n -> Nat] : 
           /\ h[0] = 0 /\ h[n] = G!Memory (c)
           /\ \A i \in 1 .. n : h[i] = IF c.count[ImageOrder[i]] = -1 THEN h[i - 1] ELSE h[i - 1] + Size[ImageOrder[i]]
  BY MemoryRuns
<1>3. PICK g \in [0 .. n -> Nat] : 
           /\ g[0] = 0 /\ g[n] = G!Memory (d)
           /\ \A i \in 1 .. n : g[i] = IF d.count[ImageOrder[i]] = -1 THEN g[i - 1] ELSE g[i - 1] + Size[ImageOrder[i]]
  BY MemoryRuns
<1> HIDE DEF n
<1> DEFINE T == {i \in 0 .. n : g[i] = h[i]}
<1>4. 0 \in T
  BY <1>1, <1>2, <1>3
<1>5. ASSUME NEW i \in 1 .. n, i - 1 \in T
      PROVE  i \in T
  <2>1. i \in 0 .. n /\ g[i - 1] = h[i - 1] /\ (c.count[ImageOrder[i]] = -1 <=> d.count[ImageOrder[i]] = -1)
    BY <1>1, <1>5
  <2>2. g[i] = h[i]
    BY <1>2, <1>3, <2>1
  <2>3. QED
    BY <2>1, <2>2
<1>6. \A i \in 0 .. n : i \in T
  <2> HIDE DEF T
  <2>1. QED
    BY <1>1, <1>4, <1>5, StepByStep
<1>7. QED
  BY <1>1, <1>2, <1>3, <1>6

\* An image takes its memory when it comes into the cache.
LEMMA MemoryOfMore ==
  ASSUME G!SurfaceCacheAssumption, NEW c, NEW d, NEW n \in G!Image, c.count[n] = -1, d.count[n] # -1,
         \A m \in G!Image \ {n} : c.count[m] = -1 <=> d.count[m] = -1
  PROVE  G!Memory (d) = G!Memory (c) + Size[n]
<1> DEFINE l == Len (ImageOrder)
<1>1. /\ l \in Nat /\ \A i \in 1 .. l : ImageOrder[i] \in G!Image /\ Size[ImageOrder[i]] \in Nat
      /\ Size[n] \in Nat
  BY ElementOfSeq, LenProperties DEF G!SurfaceCacheAssumption
<1>2. PICK h \in [0 .. l -> Nat] : 
           /\ h[0] = 0 /\ h[l] = G!Memory (c)
           /\ \A i \in 1 .. l : h[i] = IF c.count[ImageOrder[i]] = -1 THEN h[i - 1] ELSE h[i - 1] + Size[ImageOrder[i]]
  BY MemoryRuns
<1>3. PICK g \in [0 .. l -> Nat] : 
           /\ g[0] = 0 /\ g[l] = G!Memory (d)
           /\ \A i \in 1 .. l : g[i] = IF d.count[ImageOrder[i]] = -1 THEN g[i - 1] ELSE g[i - 1] + Size[ImageOrder[i]]
  BY MemoryRuns
<1>4. PICK p \in 1 .. l : ImageOrder[p] = n /\ \A i \in 1 .. l : i # p => ImageOrder[i] # n
  BY ImagePlace
<1> HIDE DEF l
<1> DEFINE T == {i \in 0 .. l : g[i] = IF i < p THEN h[i] ELSE h[i] + Size[n]}
<1>5. 0 \in T
  BY <1>1, <1>2, <1>3
<1>6. ASSUME NEW i \in 1 .. l, i - 1 \in T
      PROVE  i \in T
  <2>1. i \in 0 .. l /\ i - 1 \in 0 .. l /\ h[i - 1] \in Nat /\ g[i - 1] = IF i - 1 < p THEN h[i - 1] ELSE h[i - 1] + Size[n]
    BY <1>1, <1>6
  <2>2. CASE i = p
    <3>1. g[i] = g[i - 1] + Size[n] /\ h[i] = h[i - 1]
      BY <1>2, <1>3, <1>4, <2>2
    <3>2. i - 1 < p
      BY <2>2
    <3>3. QED
      BY <2>1, <2>2, <3>1, <3>2
  <2>3. CASE i # p
    <3>1. ImageOrder[i] \in G!Image \ {n} /\ Size[ImageOrder[i]] \in Nat
      BY <1>1, <1>4, <2>3
    <3>2. i - 1 < p <=> i < p
      BY <2>3
    <3>3. CASE c.count[ImageOrder[i]] = -1
      BY <1>2, <1>3, <2>1, <3>1, <3>2, <3>3
    <3>4. CASE c.count[ImageOrder[i]] # -1
      <4>1. d.count[ImageOrder[i]] # -1
        BY <3>1, <3>4
      <4>2. h[i] = h[i - 1] + Size[ImageOrder[i]] /\ g[i] = g[i - 1] + Size[ImageOrder[i]]
        BY <1>2, <1>3, <3>4, <4>1
      <4>3. g[i] = IF i < p THEN h[i] ELSE h[i] + Size[n]
        BY <1>1, <2>1, <3>1, <3>2, <4>2
      <4>4. QED
        BY <2>1, <4>3
    <3>5. QED
      BY <3>3, <3>4
  <2>4. QED
    BY <2>2, <2>3
<1>7. \A i \in 0 .. l : i \in T
  <2> HIDE DEF T
  <2>1. QED
    BY <1>1, <1>5, <1>6, StepByStep
<1>8. l \in 0 .. l /\ ~ (l < p)
  BY <1>1
<1>9. QED
  BY <1>2, <1>3, <1>7, <1>8

-----------------------------------------------------------------------------
\* What the cache says of the users of an image.
References (c, n) == IF c.count[n] = -1 THEN 0 ELSE c.count[n]

CacheFields == [count : [G!Image -> {k \in Int : k >= -1}], used : Int]

\* Caches that know the memory they take but for x; and those that do not take too
\* much for images without users.
Accounted (x) == {c \in CacheFields : c.used = (G!Memory (c) - x) % WordSize}
Tidied (x) == {c \in Accounted (x) : c.used >= CacheSize => \A n \in G!Image : c.count[n] # 0}

\* Words have room for something.
LEMMA WordIs ==
  ASSUME G!SurfaceCacheAssumption
  PROVE  WordSize \in Nat \ {0} /\ CacheSize \in Int /\ CacheSize > 0 /\ \A n \in G!Image : Size[n] \in Nat
BY DEF G!SurfaceCacheAssumption

LEMMA CacheIs ==
  ASSUME NEW x, NEW c \in Accounted (x)
  PROVE  /\ c \in CacheFields /\ c.count \in [G!Image -> {k \in Int : k >= -1}]
         /\ c.used \in Int /\ c.used = (G!Memory (c) - x) % WordSize /\ c = [count |-> c.count, used |-> c.used]
BY DEF Accounted, CacheFields

Purged (c, limit, n) ==
  IF c.count[n] = 0 /\ c.used >= limit
  THEN [count |-> [c.count EXCEPT ![n] = -1], used |-> (c.used - Size[n]) % WordSize] ELSE c

\* d is c without some images nobody uses.
Thinned (c, d) == \A n \in G!Image : d.count[n] = c.count[n] \/ (c.count[n] = 0 /\ d.count[n] = -1)

LEMMA PurgeStep ==
  ASSUME G!SurfaceCacheAssumption, NEW x \in Int, NEW c \in Accounted (x), NEW limit \in Int, NEW n \in G!Image
  PROVE  /\ Purged (c, limit, n) \in Accounted (x) /\ Thinned (c, Purged (c, limit, n))
         /\ Purged (c, limit, n).used >= limit => Purged (c, limit, n).count[n] # 0
         /\ c.used < limit => Purged (c, limit, n) = c
<1>1. c.used \in Int /\ c.count \in [G!Image -> {k \in Int : k >= -1}] /\ c.used = (G!Memory (c) - x) % WordSize
  BY CacheIs
<1>2. CASE ~ (c.count[n] = 0 /\ c.used >= limit)
  <2>1. Purged (c, limit, n) = c
    BY <1>2 DEF Purged
  <2>2. QED
    BY <1>1, <1>2, <2>1 DEF Thinned
<1>3. CASE c.count[n] = 0 /\ c.used >= limit
  <2> DEFINE d == [count |-> [c.count EXCEPT ![n] = -1], used |-> (c.used - Size[n]) % WordSize]
  <2>1. Purged (c, limit, n) = d
    BY <1>3 DEF Purged
  <2>2. d.count \in [G!Image -> {k \in Int : k >= -1}] /\ \A m \in G!Image : d.count[m] = IF m = n THEN -1 ELSE c.count[m]
    BY <1>1
  <2>3. d.used = (c.used - Size[n]) % WordSize /\ d = [count |-> d.count, used |-> d.used]
    OBVIOUS
  <2> HIDE DEF d
  <2>4. G!Memory (c) = G!Memory (d) + Size[n]
    BY <1>3, <2>2, MemoryOfMore
  <2>5. G!Memory (c) \in Nat /\ G!Memory (d) \in Nat /\ Size[n] \in Nat /\ WordSize \in Nat \ {0}
    BY MemoryOfSame, WordIs
  <2>6. d.used = (G!Memory (d) - x) % WordSize
    <3> DEFINE a == G!Memory (c) - x
               b == 0 - Size[n]
               w == WordSize
    <3>1. a \in Int /\ b \in Int /\ w \in Nat \ {0}
      BY <2>5
    <3>2. a + b = G!Memory (d) - x /\ c.used - Size[n] = (a % w) + b
      BY <1>1, <2>4, <2>5
    <3> HIDE DEF a, b, w
    <3>3. ((a % w) + b) % w = (a + b) % w
      BY <3>1, RestShift
    <3>4. QED
      BY <2>3, <3>2, <3>3 DEF w
  <2>7. d.used \in Int
    <3> DEFINE a == G!Memory (d) - x
    <3>1. a \in Int
      BY <2>5
    <3> HIDE DEF a
    <3>2. QED
      BY <2>5, <2>6, <3>1, WholeAndRest DEF a
  <2>8. d \in Accounted (x)
    BY <2>2, <2>3, <2>6, <2>7 DEF Accounted, CacheFields
  <2>9. Thinned (c, d) /\ d.count[n] # 0 /\ ~ (c.used < limit)
    BY <1>1, <1>3, <2>2 DEF Thinned
  <2>10. QED
    BY <2>1, <2>8, <2>9
<1>4. QED
  BY <1>2, <1>3

LEMMA ThinnedTwice ==
  ASSUME NEW c, NEW d, NEW e, Thinned (c, d), Thinned (d, e)
  PROVE  Thinned (c, e)
BY DEF Thinned

\* What ConditionalPurge leaves.
LEMMA PurgeRuns ==
  ASSUME G!SurfaceCacheAssumption, NEW x \in Int, NEW c \in Accounted (x), NEW limit \in Int
  PROVE  /\ G!ConditionalPurge (c, limit) \in Accounted (x)
         /\ Thinned (c, G!ConditionalPurge (c, limit))
         /\ G!ConditionalPurge (c, limit).used >= limit =>
              \A n \in G!Image : G!ConditionalPurge (c, limit).count[n] # 0
<1> DEFINE l == Len (ImageOrder)
           F == [p \in (1 .. l) \X Accounted (x) |-> Purged (p[2], limit, ImageOrder[p[1]])]
           At (g, s) == IF s = {} THEN c ELSE Purged (g[s \ {Max (s)}], limit, ImageOrder[Max (s)])
           Step (g) == [s \in SUBSET (1 .. l) |-> At (g, s)]
           iter == CHOOSE g : g = Step (g)
           r == G!ConditionalPurge (c, limit)
<1>1. l \in Nat /\ DOMAIN ImageOrder = 1 .. l /\ \A i \in 1 .. l : ImageOrder[i] \in G!Image
  BY LenProperties, ElementOfSeq DEF G!SurfaceCacheAssumption
<1>2. r = iter[1 .. l]
  BY <1>1 DEF G!ConditionalPurge, G!FoldLeft, G!MapThenFoldSet, G!Uncached, G!Max, Max, Purged
<1> HIDE DEF l, r
<1>3. /\ F \in [(1 .. l) \X Accounted (x) -> Accounted (x)]
      /\ \A i \in 1 .. l, d \in Accounted (x) : F[<<i, d>>] = Purged (d, limit, ImageOrder[i])
  BY <1>1, PurgeStep
<1> HIDE DEF F
<1>4. /\ \E g \in [SUBSET (1 .. l) -> Accounted (x)] : IsFold (g, l, c, F)
      /\ \A s \in SUBSET (1 .. l) : s # {} => Max (s) \in 1 .. l /\ s \ {Max (s)} \in SUBSET (1 .. l)
  BY <1>1, <1>3, FoldGoesOn
<1>5. PICK g \in [SUBSET (1 .. l) -> Accounted (x)] : IsFold (g, l, c, F)
  BY <1>4
<1>6. \A s \in SUBSET (1 .. l) : iter[s] = At (iter, s)
  <2>1. \A s \in SUBSET (1 .. l) : g[s] = At (g, s)
    BY <1>3, <1>4, <1>5 DEF IsFold
  <2> HIDE DEF At
  <2>2. g = Step (g)
    BY <2>1
  <2> HIDE DEF Step
  <2>3. iter = Step (iter)
    BY <2>2
  <2> HIDE DEF iter
  <2>4. QED
    BY <2>3 DEF Step
<1> HIDE DEF iter
<1>7. Iterates (iter, l, Accounted (x), c, F)
  BY <1>3, <1>4, <1>6 DEF Iterates
<1>8. PICK h \in [0 .. l -> Accounted (x)] : h[l] = iter[1 .. l] /\ IsRun (h, l, c, F)
  BY <1>1, <1>3, <1>7, FoldRuns
<1>9. h[0] = c /\ \A i \in 1 .. l : h[i] = Purged (h[i - 1], limit, ImageOrder[i])
  <2>1. \A i \in 1 .. l : h[i - 1] \in Accounted (x)
    BY <1>1
  <2>2. QED
    BY <1>3, <1>8, <2>1 DEF IsRun
<1> DEFINE Clean (i) == h[i].used >= limit => \A k \in 1 .. i : h[i].count[ImageOrder[k]] # 0
           T == {i \in 0 .. l : Thinned (c, h[i]) /\ Clean (i)}
<1>10. 0 \in T
  <2>1. Thinned (c, c)
    BY DEF Thinned
  <2>2. QED
    BY <1>1, <1>9, <2>1
<1>11. ASSUME NEW i \in 1 .. l, i - 1 \in T
       PROVE  i \in T
  <2>1. i \in 0 .. l /\ i - 1 \in 0 .. l /\ h[i - 1] \in Accounted (x) /\ h[i] \in Accounted (x)
    BY <1>1
  <2>2. /\ Thinned (h[i - 1], h[i])
        /\ h[i].used >= limit => h[i].count[ImageOrder[i]] # 0
        /\ h[i - 1].used < limit => h[i] = h[i - 1]
    BY <1>1, <1>9, <2>1, PurgeStep
  <2>3. Thinned (c, h[i])
    <3>1. Thinned (c, h[i - 1])
      BY <1>11
    <3>2. QED
      BY <2>2, <3>1, ThinnedTwice
  <2>4. Clean (i)
    <3>1. SUFFICES ASSUME h[i].used >= limit, NEW k \in 1 .. i
                   PROVE  h[i].count[ImageOrder[k]] # 0
      OBVIOUS
    <3>2. CASE k = i
      BY <2>2, <3>1, <3>2
    <3>3. CASE k # i
      <4>1. k \in 1 .. i - 1 /\ ImageOrder[k] \in G!Image
        BY <1>1, <3>3
      <4>2. h[i - 1].used >= limit
        <5>1. h[i].used \in Int /\ h[i - 1].used \in Int
          BY <2>1, CacheIs
        <5>2. QED
          BY <2>2, <3>1, <5>1
      <4>3. h[i - 1].count[ImageOrder[k]] # 0
        BY <1>11, <4>1, <4>2
      <4>4. QED
        BY <2>2, <4>1, <4>3 DEF Thinned
    <3>4. QED
      BY <3>2, <3>3
  <2>5. QED
    BY <2>1, <2>3, <2>4
<1>12. \A i \in 0 .. l : i \in T
  <2> HIDE DEF T
  <2>1. QED
    BY <1>1, <1>10, <1>11, StepByStep
<1>13. r = h[l] /\ l \in 0 .. l
  BY <1>1, <1>2, <1>8
<1>14. \A n \in G!Image : \E k \in 1 .. l : ImageOrder[k] = n
  BY ImagePlace DEF l
<1>15. r \in Accounted (x) /\ Thinned (c, r) /\ (r.used >= limit => \A n \in G!Image : r.count[n] # 0)
  BY <1>12, <1>13, <1>14
<1>16. QED
  BY <1>15 DEF r

LEMMA ThinnedRefers ==
  ASSUME NEW c, NEW d, Thinned (c, d)
  PROVE  \A n \in G!Image : References (d, n) = References (c, n)
BY DEF Thinned, References

\* Purging up to CacheSize makes a cache tidy and takes no users away.
LEMMA PurgeTidies ==
  ASSUME G!SurfaceCacheAssumption, NEW x \in Int, NEW c \in Accounted (x)
  PROVE  /\ G!ConditionalPurge (c, CacheSize) \in Tidied (x)
         /\ \A n \in G!Image : References (G!ConditionalPurge (c, CacheSize), n) = References (c, n)
<1>1. CacheSize \in Int
  BY WordIs
<1>2. QED
  BY <1>1, PurgeRuns, ThinnedRefers DEF Tidied

LEMMA PurgeAllTidies ==
  ASSUME G!SurfaceCacheAssumption, NEW x \in Int, NEW c \in Accounted (x)
  PROVE  /\ G!Purge (c) \in Tidied (x)
         /\ \A n \in G!Image : References (G!Purge (c), n) = References (c, n)
<1> DEFINE d == G!ConditionalPurge (c, 0)
<1>1. d \in Accounted (x) /\ \A n \in G!Image : References (d, n) = References (c, n)
  BY PurgeRuns, ThinnedRefers
<1> HIDE DEF d
<1>2. /\ G!ConditionalPurge (d, CacheSize) \in Tidied (x)
      /\ \A n \in G!Image : References (G!ConditionalPurge (d, CacheSize), n) = References (d, n)
  BY <1>1, PurgeTidies
<1>3. QED
  BY <1>1, <1>2 DEF G!Purge, d

\* A user of a cached image, whose number changes to k.
LEMMA CountSet ==
  ASSUME G!SurfaceCacheAssumption, NEW x \in Int, NEW c \in Accounted (x), NEW n \in G!Image, c.count[n] # -1, NEW k \in Nat
  PROVE  LET d == [c EXCEPT !.count[n] = k]
         IN d \in Accounted (x) /\ d.used = c.used /\ \A m \in G!Image : d.count[m] = IF m = n THEN k ELSE c.count[m]
<1> DEFINE d == [c EXCEPT !.count[n] = k]
<1>1. d \in CacheFields /\ d.used = c.used /\ \A m \in G!Image : d.count[m] = IF m = n THEN k ELSE c.count[m]
  BY CacheIs DEF CacheFields
<1> HIDE DEF d
<1>2. \A m \in G!Image : c.count[m] = -1 <=> d.count[m] = -1
  BY <1>1
<1>3. G!Memory (c) = G!Memory (d)
  BY <1>2, MemoryOfSame
<1>4. d \in Accounted (x)
  BY <1>1, <1>3, CacheIs DEF Accounted
<1>5. QED
  BY <1>1, <1>4 DEF d

LEMMA FreeGives ==
  ASSUME G!SurfaceCacheAssumption, NEW x \in Int, NEW c \in Tidied (x), NEW n \in G!Image
  PROVE  /\ G!Free (c, n) \in Tidied (x)
         /\ \A m \in G!Image : References (G!Free (c, n), m) =
              IF m = n /\ References (c, n) > 0 THEN References (c, n) - 1 ELSE References (c, m)
<1>1. c \in Accounted (x)
  BY DEF Tidied
<1>2. CASE c.count[n] = -1
  BY <1>2 DEF G!Free, G!Cached, G!Uncached, References
<1>3. CASE c.count[n] # -1
  <2> DEFINE k == IF c.count[n] > 0 THEN c.count[n] - 1 ELSE 0
             d == [c EXCEPT !.count[n] = k]
  <2>1. k \in Nat /\ c.count[n] \in Nat
    BY <1>1, <1>3, CacheIs
  <2>2. G!Free (c, n) = G!ConditionalPurge (d, CacheSize)
    BY <1>3 DEF G!Free, G!Cached, G!Uncached
  <2> HIDE DEF k
  <2>3. d \in Accounted (x) /\ \A m \in G!Image : d.count[m] = IF m = n THEN k ELSE c.count[m]
    BY <1>1, <1>3, <2>1, CountSet
  <2> HIDE DEF d
  <2>4. /\ G!ConditionalPurge (d, CacheSize) \in Tidied (x)
        /\ \A m \in G!Image : References (G!ConditionalPurge (d, CacheSize), m) = References (d, m)
    BY <2>3, PurgeTidies
  <2>5. \A m \in G!Image : References (d, m) =
              IF m = n /\ References (c, n) > 0 THEN References (c, n) - 1 ELSE References (c, m)
    BY <1>3, <2>1, <2>3 DEF References, k
  <2>6. QED
    BY <2>2, <2>4, <2>5
<1>4. QED
  BY <1>2, <1>3

\* A reference more to an image that is cached.
LEMMA NewRefGives ==
  ASSUME G!SurfaceCacheAssumption, NEW x \in Int, NEW c \in Tidied (x), NEW n \in G!Image, c.count[n] # -1
  PROVE  /\ G!NewRef (c, n) \in Tidied (x)
         /\ \A m \in G!Image : G!NewRef (c, n).count[m] = IF m = n THEN c.count[n] + 1 ELSE c.count[m]
<1>1. c \in Accounted (x)
  BY DEF Tidied
<1> DEFINE k == c.count[n] + 1
           d == [c EXCEPT !.count[n] = k]
<1>2. k \in Nat /\ k # 0
  BY <1>1, CacheIs
<1>3. G!NewRef (c, n) = d
  BY DEF G!NewRef
<1> HIDE DEF k
<1>4. d \in Accounted (x) /\ d.used = c.used /\ \A m \in G!Image : d.count[m] = IF m = n THEN k ELSE c.count[m]
  BY <1>1, <1>2, CountSet
<1> HIDE DEF d
<1>5. d \in Tidied (x)
  BY <1>2, <1>4 DEF Tidied
<1>6. QED
  BY <1>3, <1>4, <1>5 DEF k

\* A new entry, for an image that nobody uses.
LEMMA AddGives ==
  ASSUME G!SurfaceCacheAssumption, NEW x \in Int, NEW c \in Tidied (x), NEW n \in G!Image, NEW charge \in Nat,
         References (c, n) = 0
  PROVE  /\ G!AddEntry (c, n, charge) \in Tidied (x + G!Missed (c, n) - charge)
         /\ G!AddEntry (c, n, charge).count[n] # -1
         /\ \A m \in G!Image : References (G!AddEntry (c, n, charge), m) =
              IF m = n THEN References (c, m) + 1 ELSE References (c, m)
<1> DEFINE y == x + G!Missed (c, n) - charge
           used == (c.used + charge) % WordSize
           added == [count |-> [c.count EXCEPT ![n] = 2], used |-> used]
           d == G!ConditionalPurge (added, CacheSize)
<1>1. /\ c.used \in Int /\ c.count \in [G!Image -> {k \in Int : k >= -1}] /\ c.used = (G!Memory (c) - x) % WordSize
      /\ Size[n] \in Nat /\ WordSize \in Nat \ {0} /\ G!Memory (c) \in Nat
  BY CacheIs, WordIs, MemoryOfSame DEF Tidied
<1>2. y \in Int
  BY <1>1 DEF G!Missed
<1>3. G!AddEntry (c, n, charge) = G!Free (d, n)
  BY DEF G!AddEntry
<1>4. /\ added.count \in [G!Image -> {k \in Int : k >= -1}]
      /\ \A m \in G!Image : added.count[m] = IF m = n THEN 2 ELSE c.count[m]
  BY <1>1
<1>5. added.used = used /\ added = [count |-> added.count, used |-> added.used]
  OBVIOUS
<1> HIDE DEF added
<1>6. G!Memory (added) = G!Memory (c) + G!Missed (c, n) /\ G!Memory (added) \in Nat
  <2>1. CASE c.count[n] = -1
    <3>1. /\ added.count[n] # -1
          /\ \A m \in G!Image \ {n} : c.count[m] = -1 <=> added.count[m] = -1
      BY <1>4
    <3>2. G!Memory (added) = G!Memory (c) + Size[n]
      BY <2>1, <3>1, MemoryOfMore
    <3>3. QED
      BY <1>1, <2>1, <3>2 DEF G!Missed, G!Cached, G!Uncached
  <2>2. CASE c.count[n] # -1
    <3>1. G!Memory (c) = G!Memory (added)
      <4>1. \A m \in G!Image : c.count[m] = -1 <=> added.count[m] = -1
        BY <1>4, <2>2
      <4>2. QED
        BY <4>1, MemoryOfSame
    <3>2. QED
      BY <1>1, <2>2, <3>1 DEF G!Missed, G!Cached, G!Uncached
  <2>3. QED
    BY <2>1, <2>2
<1>7. used = (G!Memory (added) - y) % WordSize /\ used \in Int
  <2> DEFINE a == G!Memory (c) - x
             b == G!Memory (added) - y
             w == WordSize
  <2>1. a \in Int /\ b \in Int /\ w \in Nat \ {0} /\ b = a + charge
    BY <1>1, <1>6 DEF G!Missed
  <2>2. used = ((a % w) + charge) % w
    BY <1>1
  <2> HIDE DEF used, a, b, w
  <2>3. b % w \in 0 .. w - 1 /\ charge \in Int
    BY <2>1, WholeAndRest
  <2>4. ((a % w) + charge) % w = (a + charge) % w
    BY <2>1, <2>3, RestShift
  <2>5. used = b % w /\ b % w \in Int
    BY <2>1, <2>2, <2>3, <2>4
  <2>6. QED
    BY <2>5 DEF b, w
<1> HIDE DEF used, y
<1>8. added \in Accounted (y)
  BY <1>4, <1>5, <1>7 DEF Accounted, CacheFields
<1>9. d \in Tidied (y) /\ \A m \in G!Image : References (d, m) = References (added, m)
  BY <1>2, <1>8, PurgeTidies
<1> HIDE DEF d
<1>10. References (d, n) = 2 /\ \A m \in G!Image \ {n} : References (d, m) = References (c, m)
  BY <1>4, <1>9 DEF References
<1>11. /\ G!Free (d, n) \in Tidied (y)
       /\ \A m \in G!Image : References (G!Free (d, n), m) = IF m = n THEN 1 ELSE References (c, m)
  BY <1>2, <1>9, <1>10, FreeGives
<1>12. G!Free (d, n).count[n] # -1
  BY <1>11 DEF References
<1>13. QED
  BY <1>3, <1>11, <1>12 DEF y

LEMMA GetGives ==
  ASSUME G!SurfaceCacheAssumption, NEW x \in Int, NEW c \in Tidied (x), NEW n \in G!Image
  PROVE  /\ G!GetSurface (c, n) \in Tidied (x)
         /\ G!GetSurface (c, n).count[n] # -1
         /\ \A m \in G!Image : References (G!GetSurface (c, n), m) =
              IF m = n THEN References (c, m) + 1 ELSE References (c, m)
<1>1. c \in Accounted (x)
  BY DEF Tidied
<1>2. CASE c.count[n] # -1
  <2>1. G!GetSurface (c, n) = G!NewRef (c, n)
    BY <1>2 DEF G!GetSurface, G!Cached, G!Uncached
  <2>2. c.count[n] \in Nat
    BY <1>1, <1>2, CacheIs
  <2>3. QED
    BY <1>2, <2>1, <2>2, NewRefGives DEF References
<1>3. CASE c.count[n] = -1
  <2>1. G!GetSurface (c, n) = G!AddEntry (c, n, Size[n]) /\ References (c, n) = 0
    BY <1>3 DEF G!GetSurface, G!Cached, G!Uncached, References
  <2>2. Size[n] \in Nat /\ x + G!Missed (c, n) - Size[n] = x
    BY <1>3, WordIs DEF G!Missed, G!Cached, G!Uncached
  <2>3. QED
    BY <2>1, <2>2, AddGives
<1>4. QED
  BY <1>2, <1>3

\* Images that are given rather than loaded.
LEMMA GetMemGives ==
  ASSUME G!SurfaceCacheAssumption, NEW x \in Int, NEW c \in Tidied (x), NEW n \in G!Image
  PROVE  /\ G!GetSurfaceMem (c, n) \in Tidied (x + G!Missed (c, n))
         /\ \A m \in G!Image : References (G!GetSurfaceMem (c, n), m) =
              IF m = n THEN References (c, m) + 1 ELSE References (c, m)
<1>1. c \in Accounted (x)
  BY DEF Tidied
<1>2. CASE c.count[n] # -1
  <2>1. G!GetSurfaceMem (c, n) = G!NewRef (c, n)
    BY <1>2 DEF G!GetSurfaceMem, G!Cached, G!Uncached
  <2>2. c.count[n] \in Nat /\ x + G!Missed (c, n) = x
    BY <1>1, <1>2, CacheIs DEF G!Missed, G!Cached, G!Uncached
  <2>3. QED
    BY <1>2, <2>1, <2>2, NewRefGives DEF References
<1>3. CASE c.count[n] = -1
  <2>1. G!GetSurfaceMem (c, n) = G!AddEntry (c, n, 0) /\ References (c, n) = 0
    BY <1>3 DEF G!GetSurfaceMem, G!AddSurfaceMem, G!Cached, G!Uncached, References
  <2>2. x + G!Missed (c, n) - 0 = x + G!Missed (c, n)
    BY WordIs DEF G!Missed
  <2>3. QED
    BY <2>1, <2>2, AddGives
<1>4. QED
  BY <1>2, <1>3

LEMMA GetOnlyGives ==
  ASSUME G!SurfaceCacheAssumption, NEW x \in Int, NEW c \in Tidied (x), NEW n \in G!Image
  PROVE  /\ G!GetSurfaceOnly (c, n) \in Tidied (x)
         /\ \A m \in G!Image : References (G!GetSurfaceOnly (c, n), m) =
              IF m = n THEN References (c, m) + 1 ELSE References (c, m)
<1> DEFINE d == G!GetSurface (c, n)
           e == G!NewRef (d, n)
<1>1. /\ d \in Tidied (x) /\ d.count[n] # -1
      /\ \A m \in G!Image : References (d, m) = IF m = n THEN References (c, m) + 1 ELSE References (c, m)
  BY GetGives
<1> HIDE DEF d
<1>2. d.count[n] \in Nat /\ References (c, n) \in Int
  BY <1>1, CacheIs DEF References, Tidied
<1>3. e \in Tidied (x) /\ \A m \in G!Image : e.count[m] = IF m = n THEN d.count[n] + 1 ELSE d.count[m]
  BY <1>1, NewRefGives
<1> HIDE DEF e
<1>4. /\ References (e, n) = References (d, n) + 1 /\ References (e, n) > 0 /\ References (d, n) \in Nat
      /\ \A m \in G!Image \ {n} : References (e, m) = References (d, m)
  BY <1>1, <1>2, <1>3 DEF References
<1>5. /\ G!Free (e, n) \in Tidied (x)
      /\ \A m \in G!Image : References (G!Free (e, n), m) = References (d, m)
  BY <1>3, <1>4, FreeGives
<1>6. QED
  BY <1>1, <1>5 DEF G!GetSurfaceOnly, d, e

-----------------------------------------------------------------------------
\* How often image n is among the first i of a list.
Among (s, n, i) == Cardinality ({k \in 1 .. i : s[k] = n})

LEMMA AmongGrows ==
  ASSUME NEW E, NEW s \in Seq (E), NEW n
  PROVE  /\ Among (s, n, 0) = 0
         /\ \A i \in 0 .. Len (s) : Among (s, n, i) \in Nat /\ Among (s, n, i) <= Among (s, n, Len (s))
         /\ \A i \in 1 .. Len (s) : Among (s, n, i) = Among (s, n, i - 1) + IF s[i] = n THEN 1 ELSE 0
         /\ G!Occurrences (s, n) = Among (s, n, Len (s))
<1> DEFINE P (i) == {k \in 1 .. i : s[k] = n}
<1>1. Len (s) \in Nat /\ DOMAIN s = 1 .. Len (s)
  BY LenProperties
<1>2. \A i \in 0 .. Len (s) : IsFiniteSet (P (i)) /\ Cardinality (P (i)) \in Nat
  <2>1. TAKE i \in 0 .. Len (s)
  <2>2. IsFiniteSet (1 .. i) /\ P (i) \in SUBSET (1 .. i)
    BY <1>1, FS_Interval
  <2> HIDE DEF P
  <2>3. IsFiniteSet (P (i))
    BY <2>2, FS_Subset
  <2>4. QED
    BY <2>3, FS_CardinalityType
<1>3. P (0) = {}
  OBVIOUS
<1>4. \A i \in 0 .. Len (s) : P (i) \in SUBSET P (Len (s))
  BY <1>1
<1>5. \A i \in 1 .. Len (s) : P (i) = IF s[i] = n THEN P (i - 1) \cup {i} ELSE P (i - 1)
  BY <1>1
<1>6. \A i \in 1 .. Len (s) : i \notin P (i - 1) /\ i - 1 \in 0 .. Len (s) /\ i \in 0 .. Len (s)
  BY <1>1
<1>7. G!Occurrences (s, n) = Cardinality (P (Len (s)))
  BY <1>1 DEF G!Occurrences, G!Cardinality, G!IsFiniteSet, Cardinality, IsFiniteSet
<1>8. \A i : Among (s, n, i) = Cardinality (P (i))
  BY DEF Among
<1> HIDE DEF P
<1>9. Cardinality (P (0)) = 0
  BY <1>3, FS_EmptySet
<1>10. ASSUME NEW i \in 0 .. Len (s)
       PROVE  Cardinality (P (i)) <= Cardinality (P (Len (s)))
  <2>1. Len (s) \in 0 .. Len (s)
    BY <1>1
  <2>2. QED
    BY <1>2, <1>4, <2>1, FS_Subset
<1>11. ASSUME NEW i \in 1 .. Len (s)
       PROVE  Cardinality (P (i)) = Cardinality (P (i - 1)) + IF s[i] = n THEN 1 ELSE 0
  <2>1. IsFiniteSet (P (i - 1)) /\ Cardinality (P (i - 1)) \in Nat
    BY <1>2, <1>6
  <2>2. Cardinality (P (i - 1) \cup {i}) = Cardinality (P (i - 1)) + 1
    BY <1>6, <2>1, FS_AddElement
  <2>3. CASE s[i] = n
    BY <1>5, <2>2, <2>3
  <2>4. CASE s[i] # n
    BY <1>5, <2>1, <2>4
  <2>5. QED
    BY <2>3, <2>4
<1>12. QED
  BY <1>2, <1>7, <1>8, <1>9, <1>10, <1>11

LEMMA RefersTo ==
  ASSUME NEW x, NEW c \in Tidied (x)
  PROVE  \A n \in G!Image : References (c, n) \in Nat
BY CacheIs DEF References, Tidied

\* Loading a sprite: each of its images is used once more for each frame.
LEMMA GetAllGives ==
  ASSUME G!SurfaceCacheAssumption, NEW x \in Int, NEW c \in Tidied (x), NEW s \in Seq (G!Image)
  PROVE  /\ G!FoldLeft (G!GetSurface, c, s) \in Tidied (x)
         /\ \A n \in G!Image : References (G!FoldLeft (G!GetSurface, c, s), n) = References (c, n) + G!Occurrences (s, n)
<1> DEFINE l == Len (s)
           F == [p \in (1 .. l) \X Tidied (x) |-> G!GetSurface (p[2], s[p[1]])]
           At (g, t) == IF t = {} THEN c ELSE G!GetSurface (g[t \ {Max (t)}], s[Max (t)])
           Step (g) == [t \in SUBSET (1 .. l) |-> At (g, t)]
           iter == CHOOSE g : g = Step (g)
           r == G!FoldLeft (G!GetSurface, c, s)
<1>1. l \in Nat /\ DOMAIN s = 1 .. l /\ \A i \in 1 .. l : s[i] \in G!Image
  BY LenProperties, ElementOfSeq
<1>2. r = iter[1 .. l]
  BY <1>1 DEF G!FoldLeft, G!MapThenFoldSet, G!Max, Max
<1> HIDE DEF l, r
<1>3. /\ F \in [(1 .. l) \X Tidied (x) -> Tidied (x)]
      /\ \A i \in 1 .. l, d \in Tidied (x) : F[<<i, d>>] = G!GetSurface (d, s[i])
  BY <1>1, GetGives
<1> HIDE DEF F
<1>4. /\ \E g \in [SUBSET (1 .. l) -> Tidied (x)] : IsFold (g, l, c, F)
      /\ \A t \in SUBSET (1 .. l) : t # {} => Max (t) \in 1 .. l /\ t \ {Max (t)} \in SUBSET (1 .. l)
  BY <1>1, <1>3, FoldGoesOn
<1>5. PICK g \in [SUBSET (1 .. l) -> Tidied (x)] : IsFold (g, l, c, F)
  BY <1>4
<1>6. \A t \in SUBSET (1 .. l) : iter[t] = At (iter, t)
  <2>1. \A t \in SUBSET (1 .. l) : g[t] = At (g, t)
    BY <1>3, <1>4, <1>5 DEF IsFold
  <2> HIDE DEF At
  <2>2. g = Step (g)
    BY <2>1
  <2> HIDE DEF Step
  <2>3. iter = Step (iter)
    BY <2>2
  <2> HIDE DEF iter
  <2>4. QED
    BY <2>3 DEF Step
<1> HIDE DEF iter
<1>7. Iterates (iter, l, Tidied (x), c, F)
  BY <1>3, <1>4, <1>6 DEF Iterates
<1>8. PICK h \in [0 .. l -> Tidied (x)] : h[l] = iter[1 .. l] /\ IsRun (h, l, c, F)
  BY <1>1, <1>3, <1>7, FoldRuns
<1>9. h[0] = c /\ \A i \in 1 .. l : h[i] = G!GetSurface (h[i - 1], s[i])
  <2>1. \A i \in 1 .. l : h[i - 1] \in Tidied (x)
    BY <1>1
  <2>2. QED
    BY <1>3, <1>8, <2>1 DEF IsRun
<1>10. ASSUME NEW n \in G!Image
       PROVE  References (h[l], n) = References (c, n) + Among (s, n, l)
  <2> DEFINE T == {i \in 0 .. l : References (h[i], n) = References (c, n) + Among (s, n, i)}
  <2>1. /\ Among (s, n, 0) = 0 /\ \A i \in 0 .. l : Among (s, n, i) \in Nat
        /\ \A i \in 1 .. l : Among (s, n, i) = Among (s, n, i - 1) + IF s[i] = n THEN 1 ELSE 0
    BY AmongGrows DEF l
  <2>2. 0 \in T
    BY <1>1, <1>9, <2>1, RefersTo
  <2>3. ASSUME NEW i \in 1 .. l, i - 1 \in T
        PROVE  i \in T
    <3>1. i \in 0 .. l /\ i - 1 \in 0 .. l /\ h[i - 1] \in Tidied (x)
      BY <1>1
    <3>2. References (h[i], n) = IF n = s[i] THEN References (h[i - 1], n) + 1 ELSE References (h[i - 1], n)
      <4> DEFINE d == h[i - 1]
                 m == s[i]
      <4>1. d \in Tidied (x) /\ m \in G!Image /\ h[i] = G!GetSurface (d, m)
        BY <1>1, <1>9, <3>1
      <4> HIDE DEF d, m
      <4>2. References (G!GetSurface (d, m), n) = IF n = m THEN References (d, n) + 1 ELSE References (d, n)
        BY <4>1, GetGives
      <4>3. QED
        BY <4>1, <4>2 DEF d, m
    <3>3. Among (s, n, i) = Among (s, n, i - 1) + IF s[i] = n THEN 1 ELSE 0
      BY <2>1
    <3>4. Among (s, n, i - 1) \in Nat /\ References (c, n) \in Nat
      BY <2>1, <3>1, RefersTo
    <3>5. References (h[i - 1], n) = References (c, n) + Among (s, n, i - 1)
      BY <2>3
    <3>6. References (h[i], n) = References (c, n) + Among (s, n, i)
      BY <3>2, <3>3, <3>4, <3>5
    <3>7. QED
      BY <3>1, <3>6
  <2>4. \A i \in 0 .. l : i \in T
    <3> HIDE DEF T
    <3>1. QED
      BY <1>1, <2>2, <2>3, StepByStep
  <2>5. QED
    BY <1>1, <2>4
<1>11. \A n \in G!Image : G!Occurrences (s, n) = Among (s, n, l)
  BY AmongGrows DEF l
<1>12. h[l] \in Tidied (x)
  BY <1>1
<1>13. QED
  BY <1>2, <1>8, <1>10, <1>11, <1>12 DEF r

\* Clearing it: each is used once less.
LEMMA FreeAllGives ==
  ASSUME G!SurfaceCacheAssumption, NEW x \in Int, NEW c \in Tidied (x), NEW s \in Seq (G!Image),
         \A n \in G!Image : References (c, n) >= G!Occurrences (s, n)
  PROVE  /\ G!FoldLeft (G!Free, c, s) \in Tidied (x)
         /\ \A n \in G!Image : References (G!FoldLeft (G!Free, c, s), n) = References (c, n) - G!Occurrences (s, n)
<1> DEFINE l == Len (s)
           F == [p \in (1 .. l) \X Tidied (x) |-> G!Free (p[2], s[p[1]])]
           At (g, t) == IF t = {} THEN c ELSE G!Free (g[t \ {Max (t)}], s[Max (t)])
           Step (g) == [t \in SUBSET (1 .. l) |-> At (g, t)]
           iter == CHOOSE g : g = Step (g)
           r == G!FoldLeft (G!Free, c, s)
<1>1. l \in Nat /\ DOMAIN s = 1 .. l /\ \A i \in 1 .. l : s[i] \in G!Image
  BY LenProperties, ElementOfSeq
<1>2. r = iter[1 .. l]
  BY <1>1 DEF G!FoldLeft, G!MapThenFoldSet, G!Max, Max
<1> HIDE DEF l, r
<1>3. /\ F \in [(1 .. l) \X Tidied (x) -> Tidied (x)]
      /\ \A i \in 1 .. l, d \in Tidied (x) : F[<<i, d>>] = G!Free (d, s[i])
  BY <1>1, FreeGives
<1> HIDE DEF F
<1>4. /\ \E g \in [SUBSET (1 .. l) -> Tidied (x)] : IsFold (g, l, c, F)
      /\ \A t \in SUBSET (1 .. l) : t # {} => Max (t) \in 1 .. l /\ t \ {Max (t)} \in SUBSET (1 .. l)
  BY <1>1, <1>3, FoldGoesOn
<1>5. PICK g \in [SUBSET (1 .. l) -> Tidied (x)] : IsFold (g, l, c, F)
  BY <1>4
<1>6. \A t \in SUBSET (1 .. l) : iter[t] = At (iter, t)
  <2>1. \A t \in SUBSET (1 .. l) : g[t] = At (g, t)
    BY <1>3, <1>4, <1>5 DEF IsFold
  <2> HIDE DEF At
  <2>2. g = Step (g)
    BY <2>1
  <2> HIDE DEF Step
  <2>3. iter = Step (iter)
    BY <2>2
  <2> HIDE DEF iter
  <2>4. QED
    BY <2>3 DEF Step
<1> HIDE DEF iter
<1>7. Iterates (iter, l, Tidied (x), c, F)
  BY <1>3, <1>4, <1>6 DEF Iterates
<1>8. PICK h \in [0 .. l -> Tidied (x)] : h[l] = iter[1 .. l] /\ IsRun (h, l, c, F)
  BY <1>1, <1>3, <1>7, FoldRuns
<1>9. h[0] = c /\ \A i \in 1 .. l : h[i] = G!Free (h[i - 1], s[i])
  <2>1. \A i \in 1 .. l : h[i - 1] \in Tidied (x)
    BY <1>1
  <2>2. QED
    BY <1>3, <1>8, <2>1 DEF IsRun
<1>10. ASSUME NEW n \in G!Image
       PROVE  References (h[l], n) = References (c, n) - Among (s, n, l)
  <2> DEFINE T == {i \in 0 .. l : References (h[i], n) = References (c, n) - Among (s, n, i)}
  <2>1. /\ Among (s, n, 0) = 0
        /\ \A i \in 0 .. l : Among (s, n, i) \in Nat /\ Among (s, n, i) <= References (c, n)
        /\ \A i \in 1 .. l : Among (s, n, i) = Among (s, n, i - 1) + IF s[i] = n THEN 1 ELSE 0
    <3>1. /\ Among (s, n, 0) = 0 /\ G!Occurrences (s, n) = Among (s, n, l)
          /\ \A i \in 0 .. l : Among (s, n, i) \in Nat /\ Among (s, n, i) <= Among (s, n, l)
          /\ \A i \in 1 .. l : Among (s, n, i) = Among (s, n, i - 1) + IF s[i] = n THEN 1 ELSE 0
      BY AmongGrows DEF l
    <3>2. References (c, n) \in Nat /\ l \in 0 .. l /\ References (c, n) >= G!Occurrences (s, n)
      BY <1>1, RefersTo
    <3>3. \A i \in 0 .. l : Among (s, n, i) <= References (c, n)
      BY <3>1, <3>2
    <3>4. QED
      BY <3>1, <3>3
  <2>2. 0 \in T
    BY <1>1, <1>9, <2>1, RefersTo
  <2>3. ASSUME NEW i \in 1 .. l, i - 1 \in T
        PROVE  i \in T
    <3>1. i \in 0 .. l /\ i - 1 \in 0 .. l /\ h[i - 1] \in Tidied (x)
      BY <1>1
    <3>2. References (h[i], n) = IF n = s[i] /\ References (h[i - 1], n) > 0
                                 THEN References (h[i - 1], n) - 1 ELSE References (h[i - 1], n)
      <4> DEFINE d == h[i - 1]
                 m == s[i]
      <4>1. d \in Tidied (x) /\ m \in G!Image /\ h[i] = G!Free (d, m)
        BY <1>1, <1>9, <3>1
      <4> HIDE DEF d, m
      <4>2. References (G!Free (d, m), n) = IF n = m /\ References (d, n) > 0
                                            THEN References (d, n) - 1 ELSE References (d, n)
        BY <4>1, FreeGives
      <4>3. QED
        BY <4>1, <4>2 DEF d, m
    <3>3. /\ Among (s, n, i) = Among (s, n, i - 1) + IF s[i] = n THEN 1 ELSE 0
          /\ Among (s, n, i) <= References (c, n)
      BY <2>1, <3>1
    <3>4. Among (s, n, i - 1) \in Nat /\ References (c, n) \in Nat
      BY <2>1, <3>1, RefersTo
    <3>5. References (h[i - 1], n) = References (c, n) - Among (s, n, i - 1)
      BY <2>3
    <3>6. References (h[i], n) = References (c, n) - Among (s, n, i)
      BY <3>2, <3>3, <3>4, <3>5
    <3>7. QED
      BY <3>1, <3>6
  <2>4. \A i \in 0 .. l : i \in T
    <3> HIDE DEF T
    <3>1. QED
      BY <1>1, <2>2, <2>3, StepByStep
  <2>5. QED
    BY <1>1, <2>4
<1>11. \A n \in G!Image : G!Occurrences (s, n) = Among (s, n, l)
  BY AmongGrows DEF l
<1>12. h[l] \in Tidied (x)
  BY <1>1
<1>13. QED
  BY <1>2, <1>8, <1>10, <1>11, <1>12 DEF r

-----------------------------------------------------------------------------
\* The sum of a list of numbers, from p on.
Total (p, s) == G!FoldLeft (+, p, s)

LEMMA TotalRuns ==
  ASSUME NEW p \in Nat, NEW s \in Seq (Nat)
  PROVE  \E h \in [0 .. Len (s) -> Nat] :
           h[0] = p /\ h[Len (s)] = Total (p, s) /\ \A i \in 1 .. Len (s) : h[i] = h[i - 1] + s[i]
<1> DEFINE l == Len (s)
           F == [q \in (1 .. l) \X Nat |-> q[2] + s[q[1]]]
           At (g, t) == IF t = {} THEN p ELSE g[t \ {Max (t)}] + s[Max (t)]
           Step (g) == [t \in SUBSET (1 .. l) |-> At (g, t)]
           iter == CHOOSE g : g = Step (g)
<1>1. l \in Nat /\ DOMAIN s = 1 .. l /\ \A i \in 1 .. l : s[i] \in Nat
  BY LenProperties, ElementOfSeq
<1>2. Total (p, s) = iter[1 .. l]
  BY <1>1 DEF Total, G!FoldLeft, G!MapThenFoldSet, G!Max, Max
<1> HIDE DEF l
<1>3. /\ F \in [(1 .. l) \X Nat -> Nat]
      /\ \A i \in 1 .. l, d \in Nat : F[<<i, d>>] = d + s[i]
  BY <1>1
<1> HIDE DEF F
<1>4. /\ \E g \in [SUBSET (1 .. l) -> Nat] : IsFold (g, l, p, F)
      /\ \A t \in SUBSET (1 .. l) : t # {} => Max (t) \in 1 .. l /\ t \ {Max (t)} \in SUBSET (1 .. l)
  BY <1>1, <1>3, FoldGoesOn
<1>5. PICK g \in [SUBSET (1 .. l) -> Nat] : IsFold (g, l, p, F)
  BY <1>4
<1>6. \A t \in SUBSET (1 .. l) : iter[t] = At (iter, t)
  <2>1. \A t \in SUBSET (1 .. l) : g[t] = At (g, t)
    BY <1>3, <1>4, <1>5 DEF IsFold
  <2> HIDE DEF At
  <2>2. g = Step (g)
    BY <2>1
  <2> HIDE DEF Step
  <2>3. iter = Step (iter)
    BY <2>2
  <2> HIDE DEF iter
  <2>4. QED
    BY <2>3 DEF Step
<1> HIDE DEF iter
<1>7. Iterates (iter, l, Nat, p, F)
  BY <1>3, <1>4, <1>6 DEF Iterates
<1>8. PICK h \in [0 .. l -> Nat] : h[l] = iter[1 .. l] /\ IsRun (h, l, p, F)
  BY <1>1, <1>3, <1>7, FoldRuns
<1>9. h[0] = p /\ \A i \in 1 .. l : h[i] = h[i - 1] + s[i]
  <2>1. \A i \in 1 .. l : h[i - 1] \in Nat
    BY <1>1
  <2>2. QED
    BY <1>3, <1>8, <2>1 DEF IsRun
<1>10. QED
  BY <1>2, <1>8, <1>9 DEF l

\* Two lists that differ in one place at most.
DifferAt (s, t, k) ==
  Len (s) = Len (t) /\ k \in 1 .. Len (s) /\ \A i \in 1 .. Len (s) : i # k => s[i] = t[i]

\* From a to b there is what p is short of q and x short of y.
Moves (a, b, p, q, x, y) == b - a = (q - p) + (y - x)

\* When one of the numbers changes, so does the sum.
LEMMA TotalChanges ==
  ASSUME NEW p \in Nat, NEW q \in Nat, NEW s \in Seq (Nat), NEW t \in Seq (Nat), NEW k, DifferAt (s, t, k)
  PROVE  /\ Total (p, s) \in Nat /\ Total (q, t) \in Nat
         /\ Moves (Total (p, s), Total (q, t), p, q, s[k], t[k])
<1> DEFINE l == Len (s)
<1>1. l \in Nat /\ DOMAIN s = 1 .. l /\ \A i \in 1 .. l : s[i] \in Nat /\ t[i] \in Nat
  BY LenProperties, ElementOfSeq DEF DifferAt
<1>2. PICK h \in [0 .. l -> Nat] : h[0] = p /\ h[l] = Total (p, s) /\ \A i \in 1 .. l : h[i] = h[i - 1] + s[i]
  BY TotalRuns
<1>3. PICK g \in [0 .. l -> Nat] : g[0] = q /\ g[l] = Total (q, t) /\ \A i \in 1 .. l : g[i] = g[i - 1] + t[i]
  <2>1. \E g \in [0 .. Len (t) -> Nat] :
          g[0] = q /\ g[Len (t)] = Total (q, t) /\ \A i \in 1 .. Len (t) : g[i] = g[i - 1] + t[i]
    BY TotalRuns
  <2>2. Len (t) = l
    BY DEF DifferAt
  <2> HIDE DEF l
  <2>3. QED
    BY <2>1, <2>2
<1>4. \A i \in 1 .. l : i # k => s[i] = t[i]
  BY DEF DifferAt
<1>5. k \in 1 .. l
  BY DEF DifferAt
<1> HIDE DEF l
<1> DEFINE T == {i \in 0 .. l : g[i] - h[i] = IF i < k THEN q - p ELSE (q - p) + (t[k] - s[k])}
<1>6. 0 \in T
  BY <1>1, <1>2, <1>3, <1>5
<1>7. ASSUME NEW i \in 1 .. l, i - 1 \in T
      PROVE  i \in T
  <2>1. i \in 0 .. l /\ i - 1 \in 0 .. l /\ h[i - 1] \in Nat /\ g[i - 1] \in Nat /\ s[i] \in Nat /\ t[i] \in Nat
    BY <1>1
  <2>2. h[i] = h[i - 1] + s[i] /\ g[i] = g[i - 1] + t[i]
    BY <1>2, <1>3
  <2>3. g[i - 1] - h[i - 1] = IF i - 1 < k THEN q - p ELSE (q - p) + (t[k] - s[k])
    BY <1>7
  <2>4. CASE i = k
    <3>1. s[k] = s[i] /\ t[k] = t[i] /\ g[i - 1] - h[i - 1] = q - p
      BY <2>3, <2>4
    <3>2. g[i] - h[i] = (q - p) + (t[i] - s[i])
      <4> DEFINE a == h[i - 1]
                 b == g[i - 1]
                 x == s[i]
                 y == t[i]
      <4>1. a \in Nat /\ b \in Nat /\ x \in Nat /\ y \in Nat /\ b - a = q - p /\ h[i] = a + x /\ g[i] = b + y
        BY <2>1, <2>2, <3>1
      <4> HIDE DEF a, b, x, y
      <4>2. g[i] - h[i] = (q - p) + (y - x)
        BY <4>1
      <4>3. QED
        BY <4>2 DEF x, y
    <3>3. g[i] - h[i] = (q - p) + (t[k] - s[k])
      BY <3>1, <3>2
    <3>4. QED
      BY <2>1, <2>4, <3>3
  <2>5. CASE i # k
    <3>1. t[i] = s[i] /\ (i - 1 < k <=> i < k)
      BY <1>4, <1>5, <2>5
    <3>2. g[i] - h[i] = g[i - 1] - h[i - 1]
      BY <2>1, <2>2, <3>1
    <3>3. QED
      BY <2>1, <2>3, <3>1, <3>2
  <2>6. QED
    BY <2>4, <2>5
<1>8. \A i \in 0 .. l : i \in T
  <2> HIDE DEF T
  <2>1. QED
    BY <1>1, <1>6, <1>7, StepByStep
<1>9. l \in 0 .. l /\ ~ (l < k)
  BY <1>1, <1>5
<1>10. g[l] - h[l] = (q - p) + (t[k] - s[k])
  BY <1>8, <1>9
<1>11. h[l] \in Nat /\ g[l] \in Nat
  BY <1>9
<1>12. QED
  BY <1>2, <1>3, <1>10, <1>11 DEF Moves

LEMMA TotalFrom ==
  ASSUME NEW p \in Nat, NEW q \in Nat, NEW s \in Seq (Nat)
  PROVE  /\ Total (p, s) \in Nat /\ Total (q, s) - Total (p, s) = q - p
         /\ (\A i \in 1 .. Len (s) : s[i] = 0) => Total (p, s) = p
         /\ Total (p, s) >= p
<1> DEFINE l == Len (s)
<1>1. l \in Nat /\ DOMAIN s = 1 .. l /\ \A i \in 1 .. l : s[i] \in Nat
  BY LenProperties, ElementOfSeq
<1>2. PICK h \in [0 .. l -> Nat] : h[0] = p /\ h[l] = Total (p, s) /\ \A i \in 1 .. l : h[i] = h[i - 1] + s[i]
  BY TotalRuns
<1>3. PICK g \in [0 .. l -> Nat] : g[0] = q /\ g[l] = Total (q, s) /\ \A i \in 1 .. l : g[i] = g[i - 1] + s[i]
  BY TotalRuns
<1> DEFINE None0 == \A i \in 1 .. l : s[i] = 0
           T == {i \in 0 .. l : g[i] - h[i] = q - p /\ h[i] >= p /\ (None0 => h[i] = p)}
<1> HIDE DEF l
<1>4. 0 \in T
  BY <1>1, <1>2, <1>3
<1>5. ASSUME NEW i \in 1 .. l, i - 1 \in T
      PROVE  i \in T
  <2>1. i \in 0 .. l /\ i - 1 \in 0 .. l /\ h[i - 1] \in Nat /\ g[i - 1] \in Nat /\ s[i] \in Nat
    BY <1>1
  <2>2. h[i] = h[i - 1] + s[i] /\ g[i] = g[i - 1] + s[i]
    BY <1>2, <1>3
  <2>3. g[i - 1] - h[i - 1] = q - p /\ h[i - 1] >= p /\ (None0 => h[i - 1] = p)
    BY <1>5
  <2>4. g[i] - h[i] = q - p /\ h[i] >= p
    BY <2>1, <2>2, <2>3
  <2>5. None0 => h[i] = p
    BY <2>1, <2>2, <2>3
  <2>6. QED
    BY <2>1, <2>4, <2>5
<1>6. \A i \in 0 .. l : i \in T
  <2> HIDE DEF T
  <2>1. QED
    BY <1>1, <1>4, <1>5, StepByStep
<1>7. l \in 0 .. l /\ h[l] \in Nat
  BY <1>1
<1>8. QED
  BY <1>2, <1>3, <1>6, <1>7 DEF l

\* The models in the order in which their users are added up.
Row == G!SetToSeq (Model)

LEMMA RowIs ==
  ASSUME G!SpritesAssumption
  PROVE  /\ Row \in Seq (Model) /\ DOMAIN Row = 1 .. Len (Row)
         /\ \A i \in Model : \E k \in 1 .. Len (Row) : Row[k] = i /\ \A j \in 1 .. Len (Row) : j # k => Row[j] # i
<1> DEFINE c == Cardinality (Model)
<1>1. IsFiniteSet (Model)
  BY DEF G!SpritesAssumption, G!IsFiniteSet, IsFiniteSet
<1>2. c \in Nat /\ \E f : f \in Bijection (1 .. c, Model)
  BY <1>1, FS_CardinalityType DEF ExistsBijection
<1>3. c = G!Cardinality (Model)
  BY DEF G!Cardinality, G!IsFiniteSet, Cardinality, IsFiniteSet
<1>4. \E f \in [1 .. c -> Model] : \A a, b \in DOMAIN f : f[a] = f[b] => a = b
  BY <1>2 DEF Bijection, Injection, Surjection, IsInjective
<1>5. Row = CHOOSE f \in [1 .. c -> Model] : \A a, b \in DOMAIN f : f[a] = f[b] => a = b
  BY <1>3 DEF Row, G!SetToSeq, G!IsInjective
<1> HIDE DEF c
<1>6. Row \in [1 .. c -> Model] /\ \A a, b \in 1 .. c : Row[a] = Row[b] => a = b
  BY <1>4, <1>5
<1>7. Row \in Injection (1 .. c, Model)
  BY <1>6 DEF Injection, IsInjective
<1>8. Cardinality (1 .. c) = c
  BY <1>2, FS_Interval
<1>9. Row \in Surjection (1 .. c, Model)
  BY <1>1, <1>7, <1>8, FS_Injection DEF c
<1>10. \A i \in Model : \E k \in 1 .. c : Row[k] = i
  BY <1>9 DEF Surjection
<1>11. Row \in Seq (Model) /\ Len (Row) = c /\ DOMAIN Row = 1 .. c
  BY <1>2, <1>6, SeqDef, LenProperties
<1>12. QED
  BY <1>6, <1>10, <1>11

\* How often a sprite uses image n.
Weight (m, n) == IF m.valid THEN G!Occurrences (G!ImagesOf (m.file), n) ELSE 0

Weights (models, n) == [k \in DOMAIN Row |-> Weight (models[Row[k]], n)]

\* All users of image n, those that hold it p times included.
UsersOfImage (p, models, n) == Total (p, Weights (models, n))

LEMMA UsesIs ==
  ASSUME NEW n
  PROVE  G!Uses (n) = UsersOfImage (pins[n], model, n) /\ G!Uses (n)' = UsersOfImage (pins'[n], model', n)
<1>1. G!Uses (n) = UsersOfImage (pins[n], model, n)
  BY DEF G!Uses, UsersOfImage, Total, Weights, Weight, Row, G!FoldLeft, G!MapThenFoldSet
<1>2. G!Uses (n)' = UsersOfImage (pins'[n], model', n)
  BY DEF G!Uses, UsersOfImage, Total, Weights, Weight, Row, G!FoldLeft, G!MapThenFoldSet
<1>3. QED
  BY <1>1, <1>2

LEMMA WeightsAre ==
  ASSUME G!SpritesAssumption, NEW models, NEW n, \A i \in Model : Weight (models[i], n) \in Nat
  PROVE  /\ Weights (models, n) \in Seq (Nat) /\ Len (Weights (models, n)) = Len (Row) /\ Len (Row) \in Nat
         /\ \A k \in 1 .. Len (Row) : Row[k] \in Model /\ Weights (models, n)[k] = Weight (models[Row[k]], n)
<1>1. Row \in Seq (Model) /\ DOMAIN Row = 1 .. Len (Row) /\ Len (Row) \in Nat
  BY RowIs, LenProperties
<1>2. \A k \in 1 .. Len (Row) : Row[k] \in Model
  BY <1>1, ElementOfSeq
<1>3. Weights (models, n) \in [1 .. Len (Row) -> Nat]
  BY <1>1, <1>2 DEF Weights
<1>4. Weights (models, n) \in Seq (Nat) /\ Len (Weights (models, n)) = Len (Row)
  BY <1>1, <1>3, SeqDef, LenProperties
<1>5. QED
  BY <1>1, <1>2, <1>4 DEF Weights

LEMMA UsersChange ==
  ASSUME G!SpritesAssumption, NEW p \in Nat, NEW q \in Nat, NEW ms, NEW ns, NEW n, NEW i \in Model,
         \A j \in Model : Weight (ms[j], n) \in Nat /\ Weight (ns[j], n) \in Nat,
         \A j \in Model : j # i => Weight (ms[j], n) = Weight (ns[j], n)
  PROVE  /\ UsersOfImage (p, ms, n) \in Nat /\ UsersOfImage (q, ns, n) \in Nat
         /\ Moves (UsersOfImage (p, ms, n), UsersOfImage (q, ns, n), p, q, Weight (ms[i], n), Weight (ns[i], n))
<1> DEFINE s == Weights (ms, n)
           t == Weights (ns, n)
<1>1. /\ s \in Seq (Nat) /\ t \in Seq (Nat) /\ Len (s) = Len (Row) /\ Len (t) = Len (Row)
      /\ \A k \in 1 .. Len (Row) : Row[k] \in Model /\ s[k] = Weight (ms[Row[k]], n) /\ t[k] = Weight (ns[Row[k]], n)
  BY WeightsAre
<1> HIDE DEF s, t
<1>2. PICK k \in 1 .. Len (Row) : Row[k] = i /\ \A j \in 1 .. Len (Row) : j # k => Row[j] # i
  BY RowIs
<1>3. DifferAt (s, t, k)
  BY <1>1, <1>2 DEF DifferAt
<1>4. Total (p, s) \in Nat /\ Total (q, t) \in Nat /\ Moves (Total (p, s), Total (q, t), p, q, s[k], t[k])
  <2>1. s \in Seq (Nat) /\ t \in Seq (Nat)
    BY <1>1
  <2>2. QED
    BY <1>3, <2>1, TotalChanges
<1>5. t[k] = Weight (ns[i], n) /\ s[k] = Weight (ms[i], n)
  BY <1>1, <1>2
<1>6. QED
  BY <1>4, <1>5 DEF UsersOfImage, s, t

\* No sprite is left out.
LEMMA UsersAtLeast ==
  ASSUME G!SpritesAssumption, NEW p \in Nat, NEW ms, NEW n, NEW i \in Model, \A j \in Model : Weight (ms[j], n) \in Nat
  PROVE  UsersOfImage (p, ms, n) >= Weight (ms[i], n)
<1> DEFINE s == Weights (ms, n)
<1>1. /\ s \in Seq (Nat) /\ Len (s) = Len (Row) /\ Len (Row) \in Nat
      /\ \A k \in 1 .. Len (Row) : Row[k] \in Model /\ s[k] = Weight (ms[Row[k]], n)
  BY WeightsAre
<1>2. DOMAIN s = 1 .. Len (Row)
  BY <1>1, LenProperties
<1> HIDE DEF s
<1>3. PICK k \in 1 .. Len (Row) : Row[k] = i
  BY RowIs
<1> DEFINE t == [s EXCEPT ![k] = 0]
<1>4. t \in Seq (Nat) /\ t[k] = 0 /\ DifferAt (s, t, k)
  <2>1. t \in [1 .. Len (Row) -> Nat] /\ t[k] = 0 /\ \A j \in 1 .. Len (Row) : j # k => s[j] = t[j]
    BY <1>1, <1>2, ElementOfSeq
  <2> HIDE DEF t
  <2>2. t \in Seq (Nat) /\ Len (t) = Len (Row)
    <3> DEFINE l == Len (Row)
    <3>1. l \in Nat /\ t \in [1 .. l -> Nat]
      BY <1>1, <2>1
    <3> HIDE DEF l
    <3>2. t \in Seq (Nat) /\ Len (t) = l
      BY <3>1, SeqDef, LenProperties
    <3>3. QED
      BY <3>2 DEF l
  <2>3. DifferAt (s, t, k)
    BY <1>1, <2>1, <2>2 DEF DifferAt
  <2>4. QED
    BY <2>1, <2>2, <2>3
<1> HIDE DEF t
<1>5. Total (p, s) \in Nat /\ Total (p, t) \in Nat /\ Moves (Total (p, s), Total (p, t), p, p, s[k], t[k])
  <2>1. s \in Seq (Nat)
    BY <1>1
  <2>2. QED
    BY <1>4, <2>1, TotalChanges
<1>6. s[k] \in Nat
  BY <1>1, <1>3, ElementOfSeq
<1>7. Total (p, s) >= s[k]
  <2> DEFINE a == Total (p, s)
             b == Total (p, t)
             d == s[k]
  <2>1. a \in Nat /\ b \in Nat /\ d \in Nat /\ b - a = (p - p) + (0 - d)
    BY <1>4, <1>5, <1>6 DEF Moves
  <2> HIDE DEF a, b, d
  <2>2. a >= d
    BY <2>1
  <2>3. QED
    BY <2>2 DEF a, d
<1>8. QED
  BY <1>1, <1>3, <1>7 DEF UsersOfImage, s

-----------------------------------------------------------------------------
\* f joins the first m lists one by one.
Joins (f, m, seqs) == \A i \in 1 .. m : f[i] = IF i = 1 THEN seqs[i] ELSE f[i - 1] \o seqs[i]

\* What lists of images are joined to is a list of images.
LEMMA FlattenType ==
  ASSUME NEW E, NEW seqs \in Seq (Seq (E))
  PROVE  G!FlattenSeq (seqs) \in Seq (E)
<1> DEFINE l == Len (seqs)
           Step (f) == [i \in 1 .. l |-> IF i = 1 THEN seqs[i] ELSE f[i - 1] \o seqs[i]]
           flatten == CHOOSE f : f = Step (f)
           P == {m \in 0 .. l : \E f \in [1 .. m -> Seq (E)] : Joins (f, m, seqs)}
<1>1. l \in Nat /\ DOMAIN seqs = 1 .. l /\ \A i \in 1 .. l : seqs[i] \in Seq (E)
  BY LenProperties, ElementOfSeq
<1>2. CASE l = 0
  <2>1. G!FlattenSeq (seqs) = seqs
    BY <1>2 DEF G!FlattenSeq
  <2>2. seqs = <<>>
    BY <1>2, EmptySeq
  <2>3. QED
    BY <2>1, <2>2, EmptySeq
<1>3. CASE l # 0
  <2>1. G!FlattenSeq (seqs) = flatten[l]
    BY <1>3 DEF G!FlattenSeq
  <2> HIDE DEF l
  <2>2. 0 \in P
    <3>1. 1 .. 0 = {}
      OBVIOUS
    <3> DEFINE f == [i \in 1 .. 0 |-> {}]
    <3>2. f \in [1 .. 0 -> Seq (E)]
      BY <3>1
    <3> HIDE DEF f
    <3>3. Joins (f, 0, seqs) /\ 0 \in 0 .. l
      BY <1>1, <3>1 DEF Joins
    <3>4. QED
      BY <3>2, <3>3
  <2>3. ASSUME NEW m \in 1 .. l, m - 1 \in P
        PROVE  m \in P
    <3>1. PICK f \in [1 .. m - 1 -> Seq (E)] : Joins (f, m - 1, seqs)
      BY <2>3
    <3> DEFINE g == [i \in 1 .. m |-> IF i < m THEN f[i] ELSE IF m = 1 THEN seqs[1] ELSE f[m - 1] \o seqs[m]]
    <3>2. \A i \in 1 .. m : i < m => i \in 1 .. m - 1
      OBVIOUS
    <3>3. m # 1 => f[m - 1] \in Seq (E) /\ f[m - 1] \o seqs[m] \in Seq (E)
      <4>1. m # 1 => m - 1 \in 1 .. m - 1
        OBVIOUS
      <4>2. m # 1 => f[m - 1] \in Seq (E)
        BY <4>1
      <4>3. seqs[m] \in Seq (E)
        BY <1>1
      <4>4. QED
        BY <4>2, <4>3, ConcatProperties
    <3>4. g \in [1 .. m -> Seq (E)]
      BY <1>1, <3>2, <3>3
    <3>5. /\ \A i \in 1 .. m - 1 : g[i] = f[i] /\ i \in 1 .. m
          /\ g[m] = IF m = 1 THEN seqs[1] ELSE f[m - 1] \o seqs[m]
      <4> DEFINE last == IF m = 1 THEN seqs[1] ELSE f[m - 1] \o seqs[m]
      <4> HIDE DEF last
      <4>1. g = [i \in 1 .. m |-> IF i < m THEN f[i] ELSE last]
        BY DEF last
      <4> HIDE DEF g
      <4>2. \A i \in 1 .. m : g[i] = IF i < m THEN f[i] ELSE last
        BY <4>1
      <4>3. m \in 1 .. m /\ ~ (m < m) /\ \A i \in 1 .. m - 1 : i \in 1 .. m /\ i < m
        OBVIOUS
      <4>4. (\A i \in 1 .. m - 1 : g[i] = f[i]) /\ g[m] = last
        BY <4>2, <4>3
      <4>5. QED
        BY <4>3, <4>4 DEF last
    <3> HIDE DEF g
    <3>6. ASSUME NEW i \in 1 .. m
          PROVE  g[i] = IF i = 1 THEN seqs[i] ELSE g[i - 1] \o seqs[i]
      <4>1. CASE i = m
        <5>1. m # 1 => m - 1 \in 1 .. m - 1
          OBVIOUS
        <5>2. QED
          BY <3>5, <4>1, <5>1
      <4>2. CASE i # m
        <5>1. i \in 1 .. m - 1 /\ (i # 1 => i - 1 \in 1 .. m - 1)
          BY <4>2
        <5>2. f[i] = IF i = 1 THEN seqs[i] ELSE f[i - 1] \o seqs[i]
          BY <3>1, <5>1 DEF Joins
        <5>3. QED
          BY <3>5, <5>1, <5>2
      <4>3. QED
        BY <4>1, <4>2
    <3>7. Joins (g, m, seqs) /\ m \in 0 .. l
      BY <1>1, <3>6 DEF Joins
    <3>8. QED
      BY <3>4, <3>7
  <2>4. \A m \in 0 .. l : m \in P
    <3> HIDE DEF P
    <3>1. QED
      BY <1>1, <2>2, <2>3, StepByStep
  <2>5. PICK f \in [1 .. l -> Seq (E)] : Joins (f, l, seqs)
    <3>1. l \in 0 .. l
      BY <1>1
    <3>2. QED
      BY <2>4, <3>1
  <2>6. f = Step (f)
    BY <2>5 DEF Joins
  <2>7. \A i \in 1 .. l : flatten[i] = IF i = 1 THEN seqs[i] ELSE flatten[i - 1] \o seqs[i]
    <3> HIDE DEF Step
    <3>1. flatten = Step (flatten)
      BY <2>6
    <3> HIDE DEF flatten
    <3>2. QED
      BY <3>1 DEF Step
  <2> HIDE DEF flatten
  <2> DEFINE T == {i \in 0 .. l : i # 0 => flatten[i] \in Seq (E)}
  <2>8. 0 \in T
    BY <1>1
  <2>9. ASSUME NEW i \in 1 .. l, i - 1 \in T
        PROVE  i \in T
    <3>1. i \in 0 .. l /\ (i # 1 => i - 1 # 0)
      BY <1>1
    <3>2. CASE i = 1
      BY <1>1, <2>7, <3>1, <3>2
    <3>3. CASE i # 1
      <4>1. flatten[i - 1] \in Seq (E) /\ seqs[i] \in Seq (E)
        BY <1>1, <2>9, <3>1, <3>3
      <4>2. flatten[i - 1] \o seqs[i] \in Seq (E)
        BY <4>1, ConcatProperties
      <4>3. flatten[i] = flatten[i - 1] \o seqs[i]
        BY <2>7, <3>3
      <4>4. QED
        BY <3>1, <4>2, <4>3
    <3>4. QED
      BY <3>2, <3>3
  <2>10. \A i \in 0 .. l : i \in T
    <3> HIDE DEF T
    <3>1. QED
      BY <1>1, <2>8, <2>9, StepByStep
  <2>11. l \in 0 .. l
    BY <1>1
  <2>12. QED
    BY <1>3, <2>1, <2>10, <2>11
<1>4. QED
  BY <1>2, <1>3

-----------------------------------------------------------------------------
\* Sprites that show an animation of theirs, and whose listeners follow it.
FollowedSprites ==
  {m \in G!ModelType :
     /\ m.valid => /\ m.file \in DOMAIN Anims /\ m.anim \in DOMAIN Anims[m.file]
                   /\ m.frame \in 1 .. Len (Anims[m.file][m.anim])
     /\ m.playing => m.shape # None
     /\ m.listener = IF m.valid /\ m.playing /\ Len (Anims[m.file][m.anim]) > 1 THEN "waiting" ELSE "paused"
     /\ m.valid /\ m.shape \in DOMAIN Anims[m.file] => m.anim = m.shape}

\* The inductive invariant of the sprites and their cache.
SpritesCounted (c, p, models) == \A n \in G!Image : References (c, n) = UsersOfImage (p[n], models, n)

\* Glyphs of a set that have image n, counted for each of their images.
Held (gs, n) == Cardinality ({g \in gs : GlyphFore[g] = n}) + Cardinality ({g \in gs : GlyphBack[g] = n})

Holders (p, gs) ==
  /\ p \in [G!Image -> Nat] /\ \A n \in Pinned : p[n] <= MaxPins
  /\ gs \in SUBSET Glyph /\ \A n \in G!GlyphImage : p[n] = Held (gs, n)

SpritesInv ==
  /\ cache \in Tidied (uncharged) /\ model \in [Model -> FollowedSprites]
  /\ SpritesCounted (cache, pins, model)
  /\ Holders (pins, glyphs) /\ uncharged \in 0 .. WordSize - 1

LEMMA SpritesInvIs ==
  ASSUME SpritesInv, G!SurfaceCacheAssumption
  PROVE  /\ cache \in Tidied (uncharged) /\ uncharged \in Int /\ pins \in [G!Image -> Nat]
         /\ model \in [Model -> FollowedSprites] /\ SpritesCounted (cache, pins, model)
BY DEF SpritesInv, Holders, G!SurfaceCacheAssumption

-----------------------------------------------------------------------------
\* The first shape of a set is one of the set.
LEMMA FirstIsIn ==
  ASSUME G!SpritesAssumption, NEW names \in SUBSET G!Shape, names # {}
  PROVE  G!First (names) \in names
<1> DEFINE l == Len (ShapeOrder)
           P == {i \in 1 .. l : ShapeOrder[i] \in names}
<1>1. l \in Nat /\ DOMAIN ShapeOrder = 1 .. l
  BY LenProperties DEF G!SpritesAssumption
<1>2. \A name \in G!Shape : \E i \in 1 .. l : ShapeOrder[i] = name
  BY <1>1 DEF G!Shape, G!Range
<1>3. P # {}
  BY <1>2
<1>4. P \in SUBSET Nat
  BY <1>1
<1> HIDE DEF P
<1>5. PICK i \in P : \A j \in P : i <= j
  BY <1>3, <1>4, LeastNatural
<1>6. i \in DOMAIN ShapeOrder /\ ShapeOrder[i] \in names /\ \A k \in 1 .. i - 1 : ShapeOrder[k] \notin names
  <2>1. i \in 1 .. l /\ ShapeOrder[i] \in names
    BY <1>5 DEF P
  <2>2. ASSUME NEW k \in 1 .. i - 1, ShapeOrder[k] \in names
        PROVE  FALSE
    <3>1. k \in 1 .. l /\ ~ (i <= k)
      BY <1>1, <2>1
    <3>2. k \in P
      BY <2>2, <3>1 DEF P
    <3>3. QED
      BY <1>5, <3>1, <3>2
  <2>3. QED
    BY <1>1, <2>1, <2>2
<1>7. QED
  BY <1>6 DEF G!First

\* What is known of the animations.
LEMMA AnimIs ==
  ASSUME G!SpritesAssumption, NEW f \in DOMAIN Anims, NEW a \in DOMAIN Anims[f]
  PROVE  /\ f \in SpriteFiles /\ a \in G!Shape /\ a # None
         /\ Len (Anims[f][a]) \in Nat \ {0}
         /\ \A k \in 1 .. Len (Anims[f][a]) :
              Anims[f][a][k].delay \in Nat /\ Anims[f][a][k].image \in G!SpriteImage /\ Anims[f][a][k].delay \div Second \in Nat
         /\ DOMAIN Anims[f][a] = 1 .. Len (Anims[f][a])
<1> DEFINE s == Anims[f][a]
<1>1. f \in SpriteFiles /\ a \in G!Shape /\ a # None
  BY DEF G!SpritesAssumption
<1>2. s \in Seq ([image : G!SpriteImage, delay : Nat]) /\ s # <<>>
  BY DEF G!SpritesAssumption
<1>3. Second \in Nat \ {0}
  BY DEF G!SpritesAssumption
<1> HIDE DEF s
<1>4. Len (s) \in Nat /\ DOMAIN s = 1 .. Len (s) /\ Len (s) # 0
  BY <1>2, LenProperties, EmptySeq
<1>5. \A k \in 1 .. Len (s) : s[k] \in [image : G!SpriteImage, delay : Nat]
  BY <1>2, ElementOfSeq
<1>6. \A k \in 1 .. Len (s) : s[k].delay \in Nat /\ s[k].image \in G!SpriteImage
  BY <1>5
<1>7. \A d \in Nat : d \div Second \in Nat
  BY <1>3
<1>8. QED
  BY <1>1, <1>4, <1>6, <1>7 DEF s

\* The images of a file are a list.
LEMMA ImagesType ==
  ASSUME G!SpritesAssumption, NEW f
  PROVE  G!ImagesOf (f) \in Seq (G!SpriteImage)
<1>1. CASE f \notin DOMAIN Anims
  BY <1>1, EmptySeq DEF G!ImagesOf
<1>2. CASE f \in DOMAIN Anims
  <2> DEFINE Part (i) == IF ShapeOrder[i] \in DOMAIN Anims[f]
                         THEN [k \in DOMAIN Anims[f][ShapeOrder[i]] |-> Anims[f][ShapeOrder[i]][k].image] ELSE <<>>
             l == Len (ShapeOrder)
             seqs == [i \in 1 .. l |-> Part (i)]
  <2>1. l \in Nat /\ DOMAIN ShapeOrder = 1 .. l
    BY LenProperties DEF G!SpritesAssumption
  <2>2. G!ImagesOf (f) = G!FlattenSeq (seqs)
    BY <1>2, <2>1 DEF G!ImagesOf
  <2>3. ASSUME NEW i \in 1 .. l
        PROVE  Part (i) \in Seq (G!SpriteImage)
    <3>1. CASE ShapeOrder[i] \notin DOMAIN Anims[f]
      BY <3>1, EmptySeq
    <3>2. CASE ShapeOrder[i] \in DOMAIN Anims[f]
      <4> DEFINE s == Anims[f][ShapeOrder[i]]
                 n == Len (s)
                 r == [k \in 1 .. n |-> s[k].image]
      <4>1. n \in Nat /\ DOMAIN s = 1 .. n /\ \A k \in 1 .. n : s[k].image \in G!SpriteImage
        BY <1>2, <3>2, AnimIs
      <4>2. Part (i) = r
        BY <3>2, <4>1
      <4> HIDE DEF n, s
      <4>3. r \in [1 .. n -> G!SpriteImage]
        BY <4>1
      <4>4. r \in Seq (G!SpriteImage)
        BY <4>1, <4>3, SeqDef
      <4>5. QED
        BY <4>2, <4>4
    <3>3. QED
      BY <3>1, <3>2
  <2> HIDE DEF Part, l
  <2>4. seqs \in [1 .. l -> Seq (G!SpriteImage)]
    BY <2>3
  <2> HIDE DEF seqs
  <2>5. seqs \in Seq (Seq (G!SpriteImage))
    BY <2>1, <2>4, SeqDef
  <2>6. QED
    BY <2>2, <2>5, FlattenType
<1>3. QED
  BY <1>1, <1>2

LEMMA ImagesAre ==
  ASSUME G!SpritesAssumption, NEW f
  PROVE  G!ImagesOf (f) \in Seq (G!Image)
<1> DEFINE s == G!ImagesOf (f)
<1>1. s \in Seq (G!SpriteImage)
  BY ImagesType
<1> HIDE DEF s
<1>2. Len (s) \in Nat /\ s \in [1 .. Len (s) -> G!SpriteImage]
  BY <1>1, LenProperties
<1>3. G!SpriteImage \subseteq G!Image
  BY DEF G!SpriteImage
<1> DEFINE l == Len (s)
<1>4. l \in Nat /\ s \in [1 .. l -> G!Image]
  BY <1>2, <1>3
<1> HIDE DEF l
<1>5. s \in Seq (G!Image)
  BY <1>4, SeqDef
<1>6. QED
  BY <1>5 DEF s

LEMMA OccurrencesType ==
  ASSUME G!SpritesAssumption
  PROVE  \A f, n : G!Occurrences (G!ImagesOf (f), n) \in Nat
<1>1. ASSUME NEW f, NEW n
      PROVE  G!Occurrences (G!ImagesOf (f), n) \in Nat
  <2>1. G!ImagesOf (f) \in Seq (G!SpriteImage) /\ Len (G!ImagesOf (f)) \in Nat
    BY ImagesType, LenProperties
  <2>2. Len (G!ImagesOf (f)) \in 0 .. Len (G!ImagesOf (f))
    BY <2>1
  <2>3. QED
    BY <2>1, <2>2, AmongGrows
<1>2. QED
  BY <1>1

LEMMA WeightType ==
  ASSUME G!SpritesAssumption
  PROVE  \A m, n : Weight (m, n) \in Nat
BY OccurrencesType DEF Weight

\* A file that there is not has no images.
LEMMA NoImages ==
  ASSUME G!SpritesAssumption, NEW f, f \notin DOMAIN Anims, NEW n
  PROVE  G!Occurrences (G!ImagesOf (f), n) = 0
<1>1. G!ImagesOf (f) = <<>> /\ <<>> \in Seq (G!Image) /\ Len (<<>>) = 0
  BY EmptySeq DEF G!ImagesOf
<1>2. QED
  BY <1>1, AmongGrows

-----------------------------------------------------------------------------
\* What stays of a sprite that plays, or plays another animation.
SameSprite (m, r) == r.file = m.file /\ r.valid = m.valid /\ r.shape = m.shape

LEMMA PlayGives ==
  ASSUME NEW m \in G!ModelType
  PROVE  /\ G!Play (m) \in G!ModelType /\ SameSprite (m, G!Play (m))
         /\ G!Play (m).anim = m.anim /\ G!Play (m).frame = m.frame /\ G!Play (m).playing
         /\ G!Play (m).listener =
              IF m.valid /\ Len (Anims[m.file][m.anim]) > 1 /\ m.listener = "paused" THEN "waiting" ELSE m.listener
<1> DEFINE l == IF m.valid /\ Len (Anims[m.file][m.anim]) > 1 /\ m.listener = "paused" THEN "waiting" ELSE m.listener
<1>1. l \in {"paused", "waiting", "deleted"}
  BY DEF G!ModelType
<1>2. G!Play (m) = [m EXCEPT !.playing = TRUE, !.listener = l]
  BY DEF G!Play, G!Frames
<1> HIDE DEF l
<1>3. QED
  BY <1>1, <1>2 DEF G!ModelType, SameSprite, l

\* A sprite that can play animation name does so from its first frame on.
LEMMA PlayedGives ==
  ASSUME G!SpritesAssumption, NEW m \in G!ModelType, m.valid, m.file \in DOMAIN Anims,
         NEW name \in DOMAIN Anims[m.file],
         m.listener \in {"paused", "waiting"},
         m.listener = "waiting" => m.playing /\ Len (Anims[m.file][m.anim]) > 1
  PROVE  LET r == G!Play (G!ChangeAnimation (m, name))
         IN /\ r \in G!ModelType /\ SameSprite (m, r) /\ r.anim = name /\ r.frame = 1 /\ r.playing
            /\ r.listener = IF Len (Anims[m.file][name]) > 1 THEN "waiting" ELSE "paused"
<1> DEFINE b == IF m.playing THEN G!Stop (m) ELSE m
           c == [b EXCEPT !.anim = name, !.frame = 1]
           due == G!Seconds (c)
           e == [c EXCEPT !.due = due]
<1>1. b \in G!ModelType /\ SameSprite (m, b) /\ b.playing = FALSE /\ b.listener = "paused"
  <2>1. CASE ~ m.playing
    BY <2>1 DEF G!ModelType, SameSprite
  <2>2. CASE m.playing
    <3> DEFINE l == IF m.valid /\ Len (Anims[m.file][m.anim]) > 1 /\ m.listener = "waiting" THEN "paused" ELSE m.listener
    <3>1. l = "paused"
      <4>1. CASE m.listener = "waiting"
        BY <4>1
      <4>2. CASE m.listener = "paused"
        BY <4>2
      <4>3. QED
        BY <4>1, <4>2
    <3>2. b = [m EXCEPT !.playing = FALSE, !.listener = l]
      BY <2>2 DEF G!Stop, G!Frames
    <3> HIDE DEF l, b
    <3>3. QED
      BY <3>1, <3>2 DEF G!ModelType, SameSprite
  <2>3. QED
    BY <2>1, <2>2
<1>2. G!ChangeAnimation (m, name) = e
  BY DEF G!ChangeAnimation
<1> HIDE DEF b
<1>3. name \in G!Shape
  BY AnimIs
<1>4. /\ c \in G!ModelType /\ SameSprite (m, c) /\ c.playing = FALSE /\ c.listener = "paused"
      /\ c.anim = name /\ c.frame = 1
  <2> DEFINE one == 1
             d == [b EXCEPT !.anim = name, !.frame = one]
  <2>1. one \in Nat \ {0}
    OBVIOUS
  <2>2. c = d
    OBVIOUS
  <2> HIDE DEF one, c
  <2>3. d \in G!ModelType
    BY <1>1, <1>3, <2>1 DEF G!ModelType
  <2>4. SameSprite (m, d) /\ d.playing = FALSE /\ d.listener = "paused" /\ d.anim = name /\ d.frame = one
    BY <1>1 DEF G!ModelType, SameSprite
  <2>5. QED
    BY <2>2, <2>3, <2>4 DEF one
<1> HIDE DEF c
<1>5. due \in Nat
  <2>1. 1 \in 1 .. Len (Anims[m.file][name])
    BY AnimIs
  <2>2. due = Anims[m.file][name][1].delay \div Second
    BY <1>4 DEF G!Seconds, G!Frames, SameSprite
  <2>3. QED
    BY <2>1, <2>2, AnimIs
<1> HIDE DEF due
<1>6. /\ e \in G!ModelType /\ SameSprite (m, e) /\ e.playing = FALSE /\ e.listener = "paused"
      /\ e.anim = name /\ e.frame = 1
  BY <1>4, <1>5 DEF G!ModelType, SameSprite
<1> HIDE DEF e
<1>7. /\ G!Play (e) \in G!ModelType /\ SameSprite (e, G!Play (e))
      /\ G!Play (e).anim = e.anim /\ G!Play (e).frame = e.frame /\ G!Play (e).playing
      /\ G!Play (e).listener =
           IF e.valid /\ Len (Anims[e.file][e.anim]) > 1 /\ e.listener = "paused" THEN "waiting" ELSE e.listener
  BY <1>6, PlayGives
<1>8. QED
  BY <1>2, <1>6, <1>7 DEF SameSprite

LEMMA LoadGives ==
  ASSUME G!SpritesAssumption, NEW m \in G!ModelType, m.file \in DOMAIN Anims
  PROVE  LET r == G!Load (m)
         IN /\ r \in G!ModelType /\ r.file = m.file /\ r.valid /\ r.shape = m.shape /\ r.frame = 1
            /\ r.anim \in DOMAIN Anims[m.file] /\ r.playing = m.playing /\ r.listener = m.listener
<1> DEFINE a == G!First (DOMAIN Anims[m.file])
<1>1. G!Load (m) = [m EXCEPT !.valid = TRUE, !.anim = a, !.frame = 1]
  BY DEF G!Load
<1>2. a \in DOMAIN Anims[m.file]
  BY FirstIsIn DEF G!SpritesAssumption
<1> HIDE DEF a
<1>3. a \in G!Shape
  BY <1>2, AnimIs
<1> DEFINE one == 1
           d == [m EXCEPT !.valid = TRUE, !.anim = a, !.frame = one]
<1>4. one \in Nat \ {0} /\ G!Load (m) = d
  BY <1>1
<1> HIDE DEF one
<1>5. d \in G!ModelType
  BY <1>3, <1>4 DEF G!ModelType
<1>6. d.file = m.file /\ d.valid /\ d.shape = m.shape /\ d.playing = m.playing /\ d.listener = m.listener
  BY DEF G!ModelType
<1>7. d.anim = a /\ d.frame = one
  BY DEF G!ModelType
<1>8. QED
  BY <1>2, <1>4, <1>5, <1>6, <1>7 DEF one

\* What a sprite that follows its animation is.
LEMMA FollowedIs ==
  ASSUME NEW m \in FollowedSprites
  PROVE  /\ m \in G!ModelType /\ m.listener \in {"paused", "waiting"}
         /\ m.valid => /\ m.file \in DOMAIN Anims /\ m.anim \in DOMAIN Anims[m.file]
                       /\ m.frame \in 1 .. Len (Anims[m.file][m.anim])
         /\ m.playing => m.shape # None
         /\ m.listener = IF m.valid /\ m.playing /\ Len (Anims[m.file][m.anim]) > 1 THEN "waiting" ELSE "paused"
         /\ m.valid /\ m.shape \in DOMAIN Anims[m.file] => m.anim = m.shape
BY DEF FollowedSprites

\* The sprite that placeable_model::get_sprite makes of m.
Got (m) ==
  IF m.shape = None THEN G!Load (m)
  ELSE G!Play (IF G!CanChange (G!Load (m), m.shape) THEN G!ChangeAnimation (G!Load (m), m.shape) ELSE G!Load (m))

LEMMA GotFollows ==
  ASSUME G!SpritesAssumption, NEW m \in FollowedSprites, ~ m.valid
  PROVE  /\ Got (m) \in FollowedSprites
         /\ \A n : Weight (Got (m), n) = G!Occurrences (G!ImagesOf (m.file), n)
<1> DEFINE b == G!Load (m)
<1>1. m \in G!ModelType /\ m.listener = "paused" /\ (m.playing => m.shape # None)
  BY FollowedIs
<1>2. CASE m.file \notin DOMAIN Anims
  <2>1. b = m
    BY <1>2 DEF G!Load
  <2>2. CASE m.shape = None
    BY <1>2, <2>1, <2>2, NoImages DEF Got, Weight
  <2>3. CASE m.shape # None
    <3>1. Got (m) = G!Play (m)
      BY <2>1, <2>3 DEF Got, G!CanChange
    <3>2. /\ G!Play (m) \in G!ModelType /\ SameSprite (m, G!Play (m))
          /\ G!Play (m).listener = "paused"
      BY <1>1, PlayGives
    <3> DEFINE r == G!Play (m)
    <3> HIDE DEF r
    <3>3. r \in G!ModelType /\ ~ r.valid /\ r.file = m.file /\ r.shape # None /\ r.listener = "paused"
      BY <2>3, <3>2 DEF SameSprite, r
    <3>4. r \in FollowedSprites
      BY <3>3 DEF FollowedSprites
    <3>5. QED
      BY <1>2, <3>1, <3>3, <3>4, NoImages DEF Weight, r
  <2>4. QED
    BY <2>2, <2>3
<1>3. CASE m.file \in DOMAIN Anims
  <2>1. /\ b \in G!ModelType /\ b.file = m.file /\ b.valid /\ b.shape = m.shape /\ b.frame = 1
        /\ b.anim \in DOMAIN Anims[m.file] /\ b.playing = m.playing /\ b.listener = "paused"
    BY <1>1, <1>3, LoadGives
  <2>2. Got (m) = IF m.shape = None THEN b
                  ELSE G!Play (IF G!CanChange (b, m.shape) THEN G!ChangeAnimation (b, m.shape) ELSE b)
    BY DEF Got
  <2> HIDE DEF b
  <2>3. CASE m.shape = None
    <3>1. m.shape \notin DOMAIN Anims[m.file]
      BY <1>3, <2>3, AnimIs
    <3>2. Got (m) = b /\ ~ b.playing
      BY <1>1, <2>1, <2>2, <2>3
    <3>3. 1 \in 1 .. Len (Anims[b.file][b.anim])
      BY <1>3, <2>1, AnimIs
    <3>4. b \in FollowedSprites
      BY <1>3, <2>1, <3>1, <3>2, <3>3 DEF FollowedSprites
    <3>5. QED
      BY <2>1, <3>2, <3>4 DEF Weight
  <2>4. CASE m.shape # None /\ m.shape \notin DOMAIN Anims[m.file]
    <3>1. Got (m) = G!Play (b)
      BY <2>1, <2>2, <2>4 DEF G!CanChange
    <3> DEFINE r == G!Play (b)
    <3>2. /\ r \in G!ModelType /\ SameSprite (b, r) /\ r.anim = b.anim /\ r.frame = b.frame /\ r.playing
          /\ r.listener = IF b.valid /\ Len (Anims[b.file][b.anim]) > 1 /\ b.listener = "paused" THEN "waiting" ELSE b.listener
      BY <2>1, PlayGives
    <3> HIDE DEF r
    <3>3. 1 \in 1 .. Len (Anims[b.file][b.anim])
      BY <1>3, <2>1, AnimIs
    <3>4. r \in FollowedSprites
      BY <1>3, <2>1, <2>4, <3>2, <3>3 DEF FollowedSprites, SameSprite
    <3>5. QED
      BY <2>1, <3>1, <3>2, <3>4 DEF Weight, SameSprite, r
  <2>5. CASE m.shape \in DOMAIN Anims[m.file]
    <3>1. m.shape # None
      BY <1>3, <2>5, AnimIs
    <3>2. Got (m) = G!Play (G!ChangeAnimation (b, m.shape))
      BY <2>1, <2>2, <2>5, <3>1 DEF G!CanChange
    <3> DEFINE r == G!Play (G!ChangeAnimation (b, m.shape))
    <3>3. /\ r \in G!ModelType /\ SameSprite (b, r) /\ r.anim = m.shape /\ r.frame = 1 /\ r.playing
          /\ r.listener = IF Len (Anims[b.file][m.shape]) > 1 THEN "waiting" ELSE "paused"
      BY <1>3, <2>1, <2>5, PlayedGives
    <3> HIDE DEF r
    <3>4. 1 \in 1 .. Len (Anims[m.file][m.shape])
      BY <1>3, <2>5, AnimIs
    <3>5. r \in FollowedSprites
      BY <1>3, <2>1, <2>5, <3>1, <3>3, <3>4 DEF FollowedSprites, SameSprite
    <3>6. QED
      BY <2>1, <3>2, <3>3, <3>5 DEF Weight, SameSprite, r
  <2>6. QED
    BY <2>3, <2>4, <2>5
<1>4. QED
  BY <1>2, <1>3

-----------------------------------------------------------------------------
LEMMA AnimationGoesOn ==
  ASSUME G!AnimationsGoOn, NEW f \in DOMAIN Anims, NEW a \in DOMAIN Anims[f], Len (Anims[f][a]) > 1,
         NEW k \in DOMAIN Anims[f][a]
  PROVE  Anims[f][a][k].delay # 0
BY DEF G!AnimationsGoOn

\* The next frame of a sprite whose time is over.
LEMMA UpdateFollows ==
  ASSUME G!SpritesAssumption, G!AnimationsGoOn, NEW m \in FollowedSprites, m.listener = "waiting"
  PROVE  G!Update (m) \in FollowedSprites /\ SameSprite (m, G!Update (m))
<1> DEFINE l == Len (Anims[m.file][m.anim])
           k == (m.frame % l) + 1
           b == [m EXCEPT !.frame = k]
           due == G!Seconds (b)
           r == [b EXCEPT !.due = due]
<1>1. /\ m \in G!ModelType /\ m.valid /\ m.playing /\ l > 1
      /\ m.file \in DOMAIN Anims /\ m.anim \in DOMAIN Anims[m.file] /\ m.frame \in 1 .. l
      /\ m.shape # None /\ (m.shape \in DOMAIN Anims[m.file] => m.anim = m.shape)
  BY FollowedIs
<1>2. l \in Nat \ {0} /\ DOMAIN Anims[m.file][m.anim] = 1 .. l
  BY <1>1, AnimIs
<1>3. Anims[m.file][m.anim][m.frame].delay # 0
  BY <1>1, <1>2, AnimationGoesOn
<1>4. G!Update (m) = r
  BY <1>1, <1>3 DEF G!Update, G!Frames
<1>5. k \in 1 .. l
  <2>1. m.frame \in Nat /\ m.frame % l \in 0 .. l - 1
    BY <1>1, <1>2
  <2>2. QED
    BY <1>2, <2>1
<1> HIDE DEF k
<1>6. k \in Nat \ {0}
  BY <1>2, <1>5
<1>7. b \in G!ModelType /\ SameSprite (m, b) /\ b.anim = m.anim /\ b.frame = k /\ b.listener = "waiting" /\ b.playing
  BY <1>1, <1>6 DEF G!ModelType, SameSprite
<1> HIDE DEF b
<1>8. due \in Nat
  <2>1. due = Anims[m.file][m.anim][k].delay \div Second
    BY <1>7 DEF G!Seconds, G!Frames, SameSprite
  <2>2. QED
    BY <1>1, <1>5, <2>1, AnimIs
<1> HIDE DEF due
<1>9. r \in G!ModelType /\ SameSprite (m, r) /\ r.anim = m.anim /\ r.frame = k /\ r.listener = "waiting" /\ r.playing
  BY <1>7, <1>8 DEF G!ModelType, SameSprite
<1> HIDE DEF r
<1>10. r \in FollowedSprites
  BY <1>1, <1>5, <1>9 DEF FollowedSprites, SameSprite
<1>11. QED
  BY <1>4, <1>9, <1>10

\* The sprite that placeable_model::set_shape makes of m.
Shaped (m, name) ==
  LET r == [m EXCEPT !.shape = IF name = None THEN ShapeOrder[1] ELSE name]
  IN IF G!CanChange (r, name) THEN G!Play (G!ChangeAnimation (r, name)) ELSE r

LEMMA ShapedFollows ==
  ASSUME G!SpritesAssumption, NEW m \in FollowedSprites, NEW name \in G!Shape \cup {None}, name = None => ~ m.valid
  PROVE  /\ Shaped (m, name) \in FollowedSprites
         /\ Shaped (m, name).file = m.file /\ Shaped (m, name).valid = m.valid
<1> DEFINE t == IF name = None THEN ShapeOrder[1] ELSE name
           r == [m EXCEPT !.shape = t]
           p == G!Play (G!ChangeAnimation (r, name))
<1>1. t \in G!Shape /\ t # None
  <2>1. ShapeOrder \in Seq (G!Shape) /\ ShapeOrder # <<>> /\ None \notin G!Shape
    BY DEF G!SpritesAssumption
  <2>2. Len (ShapeOrder) \in Nat /\ Len (ShapeOrder) # 0
    BY <2>1, LenProperties, EmptySeq
  <2>3. 1 \in 1 .. Len (ShapeOrder)
    BY <2>2
  <2>4. ShapeOrder[1] \in G!Shape
    BY <2>1, <2>3, ElementOfSeq
  <2>5. QED
    BY <2>1, <2>4
<1>2. Shaped (m, name) = IF G!CanChange (r, name) THEN p ELSE r
  BY DEF Shaped
<1>3. name # None => t = name
  OBVIOUS
<1> HIDE DEF t
<1>4. /\ m \in G!ModelType /\ m.listener \in {"paused", "waiting"}
      /\ m.valid => /\ m.file \in DOMAIN Anims /\ m.anim \in DOMAIN Anims[m.file]
                    /\ m.frame \in 1 .. Len (Anims[m.file][m.anim])
      /\ m.listener = IF m.valid /\ m.playing /\ Len (Anims[m.file][m.anim]) > 1 THEN "waiting" ELSE "paused"
  BY FollowedIs
<1>5. /\ r \in G!ModelType /\ r.file = m.file /\ r.valid = m.valid /\ r.shape = t /\ r.anim = m.anim
      /\ r.frame = m.frame /\ r.playing = m.playing /\ r.listener = m.listener
  BY <1>1, <1>4 DEF G!ModelType
<1> HIDE DEF r
<1>6. CASE ~ G!CanChange (r, name)
  <2>1. ~ (m.valid /\ name \in DOMAIN Anims[m.file])
    BY <1>5, <1>6 DEF G!CanChange
  <2>2. m.valid => t = name
    BY <1>3
  <2>3. r \in FollowedSprites
    BY <1>1, <1>4, <1>5, <2>1, <2>2 DEF FollowedSprites
  <2>4. QED
    BY <1>2, <1>5, <1>6, <2>3
<1>7. CASE G!CanChange (r, name)
  <2>1. m.valid /\ name \in DOMAIN Anims[m.file] /\ name # None /\ t = name
    BY <1>3, <1>5, <1>7 DEF G!CanChange
  <2>2. /\ p \in G!ModelType /\ SameSprite (r, p) /\ p.anim = name /\ p.frame = 1 /\ p.playing
        /\ p.listener = IF Len (Anims[r.file][name]) > 1 THEN "waiting" ELSE "paused"
    <3>1. /\ r.valid /\ r.file \in DOMAIN Anims /\ name \in DOMAIN Anims[r.file]
          /\ r.listener \in {"paused", "waiting"}
      BY <1>4, <1>5, <2>1
    <3>2. r.listener = "waiting" => r.playing /\ Len (Anims[r.file][r.anim]) > 1
      BY <1>4, <1>5
    <3>3. QED
      BY <1>5, <3>1, <3>2, PlayedGives
  <2> HIDE DEF p
  <2>3. 1 \in 1 .. Len (Anims[m.file][name])
    BY <1>4, <2>1, AnimIs
  <2>4. p \in FollowedSprites
    BY <1>1, <1>4, <1>5, <2>1, <2>2, <2>3 DEF FollowedSprites, SameSprite
  <2>5. QED
    BY <1>2, <1>5, <1>7, <2>2, <2>4 DEF SameSprite
<1>8. QED
  BY <1>6, <1>7

LEMMA ClearFollows ==
  ASSUME G!SpritesAssumption, NEW m \in FollowedSprites, NEW f \in SpriteFiles
  PROVE  [G!Clear (m) EXCEPT !.file = f] \in FollowedSprites /\ ~ [G!Clear (m) EXCEPT !.file = f].valid
<1> DEFINE l == IF m.listener = "waiting" THEN "paused" ELSE m.listener
           b == [m EXCEPT !.valid = FALSE, !.playing = FALSE, !.listener = l]
           r == [b EXCEPT !.file = f]
<1>1. l = "paused"
  BY FollowedIs
<1>2. [G!Clear (m) EXCEPT !.file = f] = r
  BY DEF G!Clear
<1> HIDE DEF l
<1>3. m \in G!ModelType
  BY FollowedIs
<1>4. b \in G!ModelType /\ ~ b.valid /\ ~ b.playing /\ b.listener = "paused"
  BY <1>1, <1>3 DEF G!ModelType
<1> HIDE DEF b
<1>5. r \in G!ModelType /\ ~ r.valid /\ ~ r.playing /\ r.listener = "paused"
  BY <1>4 DEF G!ModelType
<1> HIDE DEF r
<1>6. r \in FollowedSprites
  BY <1>5 DEF FollowedSprites
<1>7. QED
  BY <1>2, <1>5, <1>6

LEMMA TickFollows ==
  ASSUME NEW m \in FollowedSprites
  PROVE  LET r == [m EXCEPT !.due = IF m.due > 0 THEN m.due - 1 ELSE 0]
         IN r \in FollowedSprites /\ r.valid = m.valid /\ r.file = m.file
<1> DEFINE d == IF m.due > 0 THEN m.due - 1 ELSE 0
           r == [m EXCEPT !.due = d]
<1>1. m \in G!ModelType
  BY FollowedIs
<1>2. d \in Nat
  BY <1>1 DEF G!ModelType
<1> HIDE DEF d
<1>3. r \in G!ModelType
  BY <1>1, <1>2 DEF G!ModelType
<1>4. /\ r.file = m.file /\ r.valid = m.valid /\ r.playing = m.playing /\ r.anim = m.anim
      /\ r.frame = m.frame /\ r.listener = m.listener /\ r.shape = m.shape
  BY <1>1 DEF G!ModelType
<1> HIDE DEF r
<1>5. r \in FollowedSprites
  BY <1>3, <1>4 DEF FollowedSprites
<1>6. QED
  BY <1>4, <1>5 DEF r, d

-----------------------------------------------------------------------------
\* What sprites use depends on their files and on whether they are loaded.
LEMMA SameUsers ==
  ASSUME G!SpritesAssumption, NEW ms, NEW ns,
         \A i \in Model : ns[i].file = ms[i].file /\ ns[i].valid = ms[i].valid
  PROVE  \A k, n : UsersOfImage (k, ns, n) = UsersOfImage (k, ms, n)
<1>1. ASSUME NEW k, NEW n
      PROVE  UsersOfImage (k, ns, n) = UsersOfImage (k, ms, n)
  <2>1. \A j \in DOMAIN Row : Row[j] \in Model
    BY RowIs, ElementOfSeq
  <2>2. \A j \in DOMAIN Row : Weight (ns[Row[j]], n) = Weight (ms[Row[j]], n)
    BY <2>1 DEF Weight
  <2>3. Weights (ns, n) = Weights (ms, n)
    BY <2>2 DEF Weights
  <2>4. QED
    BY <2>3 DEF UsersOfImage
<1>2. QED
  BY <1>1

\* From a to b there is what x is short of y.
Differ (a, b, x, y) == a \in Nat /\ b \in Nat /\ b - a = y - x

LEMMA OneChanges ==
  ASSUME G!SpritesAssumption, NEW ms \in [Model -> FollowedSprites], NEW i \in Model, NEW r, NEW k \in Nat, NEW n
  PROVE  /\ UsersOfImage (k, ms, n) >= Weight (ms[i], n)
         /\ Differ (UsersOfImage (k, ms, n), UsersOfImage (k, [ms EXCEPT ![i] = r], n), Weight (ms[i], n), Weight (r, n))
<1> DEFINE ns == [ms EXCEPT ![i] = r]
<1>1. \A j \in Model : Weight (ms[j], n) \in Nat /\ Weight (ns[j], n) \in Nat
  BY WeightType
<1>2. ns[i] = r /\ \A j \in Model : j # i => ns[j] = ms[j]
  OBVIOUS
<1> HIDE DEF ns
<1>3. \A j \in Model : j # i => Weight (ms[j], n) = Weight (ns[j], n)
  BY <1>2
<1>4. /\ UsersOfImage (k, ms, n) \in Nat /\ UsersOfImage (k, ns, n) \in Nat
      /\ Moves (UsersOfImage (k, ms, n), UsersOfImage (k, ns, n), k, k, Weight (ms[i], n), Weight (ns[i], n))
  BY <1>1, <1>3, UsersChange
<1>5. UsersOfImage (k, ms, n) >= Weight (ms[i], n)
  BY <1>1, UsersAtLeast
<1>6. Differ (UsersOfImage (k, ms, n), UsersOfImage (k, ns, n), Weight (ms[i], n), Weight (r, n))
  <2> DEFINE a == UsersOfImage (k, ms, n)
             b == UsersOfImage (k, ns, n)
             x == Weight (ms[i], n)
             y == Weight (r, n)
  <2>1. a \in Nat /\ b \in Nat /\ x \in Nat /\ y \in Nat /\ b - a = (k - k) + (y - x)
    BY <1>2, <1>4, WeightType DEF Moves
  <2> HIDE DEF a, b, x, y
  <2>2. Differ (a, b, x, y)
    BY <2>1 DEF Differ
  <2>3. QED
    BY <2>2 DEF a, b, x, y
<1>7. QED
  BY <1>5, <1>6 DEF ns

\* One who holds an image more or less.
LEMMA HolderChanges ==
  ASSUME G!SpritesAssumption, NEW ms, NEW p \in Nat, NEW q \in Nat, NEW n
  PROVE  Differ (UsersOfImage (p, ms, n), UsersOfImage (q, ms, n), p, q)
<1> DEFINE s == Weights (ms, n)
<1>1. s \in Seq (Nat)
  BY WeightsAre, WeightType
<1> HIDE DEF s
<1>2. Total (p, s) \in Nat /\ Total (q, s) \in Nat /\ Total (q, s) - Total (p, s) = q - p
  BY <1>1, TotalFrom
<1>3. QED
  BY <1>2 DEF Differ, UsersOfImage, s

\* The images of glyphs are none of the sprites' or of those held otherwise.
LEMMA KindsOfImages ==
  ASSUME G!SurfaceCacheAssumption, G!GlyphsAssumption
  PROVE  /\ G!GlyphImage \subseteq G!Image /\ Pinned \subseteq G!Image /\ Pinned \cap G!GlyphImage = {}
         /\ \A g \in Glyph : GlyphFore[g] \in G!GlyphImage /\ GlyphBack[g] \in G!GlyphImage
         /\ DOMAIN GlyphFore = Glyph /\ DOMAIN GlyphBack = Glyph
BY DEF G!SurfaceCacheAssumption, G!GlyphsAssumption, G!GlyphImage, G!SpriteImage, G!Range

LEMMA NothingHeld ==
  ASSUME NEW n
  PROVE  Held ({}, n) = 0
<1>1. {g \in {} : GlyphFore[g] = n} = {} /\ {g \in {} : GlyphBack[g] = n} = {}
  OBVIOUS
<1>2. QED
  BY <1>1, FS_EmptySet DEF Held

\* One glyph more has its two images more.
LEMMA HeldWith ==
  ASSUME G!GlyphsAssumption, NEW gs \in SUBSET Glyph, NEW g \in Glyph \ gs, NEW n
  PROVE  Held (gs, n) \in Nat /\ Held (gs \cup {g}, n) = Held (gs, n) + G!Holds (g, n)
<1> DEFINE F (X) == {h \in X : GlyphFore[h] = n}
           B (X) == {h \in X : GlyphBack[h] = n}
<1>1. IsFiniteSet (Glyph)
  BY DEF G!GlyphsAssumption, G!IsFiniteSet, IsFiniteSet
<1>2. F (gs) \in SUBSET Glyph /\ B (gs) \in SUBSET Glyph /\ g \notin F (gs) /\ g \notin B (gs)
  OBVIOUS
<1>3. /\ F (gs \cup {g}) = IF GlyphFore[g] = n THEN F (gs) \cup {g} ELSE F (gs)
      /\ B (gs \cup {g}) = IF GlyphBack[g] = n THEN B (gs) \cup {g} ELSE B (gs)
  OBVIOUS
<1>4. \A X : Held (X, n) = Cardinality (F (X)) + Cardinality (B (X))
  BY DEF Held
<1> HIDE DEF F, B
<1>5. IsFiniteSet (F (gs)) /\ IsFiniteSet (B (gs))
  BY <1>1, <1>2, FS_Subset
<1>6. /\ Cardinality (F (gs)) \in Nat /\ Cardinality (F (gs) \cup {g}) = Cardinality (F (gs)) + 1
      /\ Cardinality (B (gs)) \in Nat /\ Cardinality (B (gs) \cup {g}) = Cardinality (B (gs)) + 1
  BY <1>2, <1>5, FS_CardinalityType, FS_AddElement
<1>7. Cardinality (F (gs \cup {g})) = Cardinality (F (gs)) + IF GlyphFore[g] = n THEN 1 ELSE 0
  BY <1>3, <1>6
<1>8. Cardinality (B (gs \cup {g})) = Cardinality (B (gs)) + IF GlyphBack[g] = n THEN 1 ELSE 0
  BY <1>3, <1>6
<1>9. QED
  BY <1>4, <1>6, <1>7, <1>8 DEF G!Holds

LEMMA HeldWithout ==
  ASSUME G!GlyphsAssumption, NEW gs \in SUBSET Glyph, NEW g \in gs, NEW n
  PROVE  /\ Held (gs, n) \in Nat /\ Held (gs \ {g}, n) \in Nat
         /\ Held (gs, n) = Held (gs \ {g}, n) + G!Holds (g, n)
<1> DEFINE R == gs \ {g}
<1>1. R \in SUBSET Glyph /\ g \in Glyph \ R /\ R \cup {g} = gs
  OBVIOUS
<1> HIDE DEF R
<1>2. Held (R, n) \in Nat /\ Held (R \cup {g}, n) = Held (R, n) + G!Holds (g, n)
  BY <1>1, HeldWith
<1>3. G!Holds (g, n) \in Nat
  BY DEF G!Holds
<1>4. Held (gs, n) = Held (R, n) + G!Holds (g, n)
  BY <1>1, <1>2
<1>5. Held (gs, n) \in Nat
  BY <1>2, <1>3, <1>4
<1>6. QED
  BY <1>2, <1>4, <1>5 DEF R

LEMMA HeldIs ==
  ASSUME G!GlyphsAssumption, NEW gs \in SUBSET Glyph, NEW n
  PROVE  Held (gs, n) \in Nat
<1>1. CASE gs = {}
  BY <1>1, NothingHeld
<1>2. CASE gs # {}
  BY <1>2, HeldWithout
<1>3. QED
  BY <1>1, <1>2

\* The users of a glyph's image are glyphs.
LEMMA GlyphUsers ==
  ASSUME G!SpritesAssumption, NEW n \in G!GlyphImage, NEW ms, NEW p \in Nat
  PROVE  UsersOfImage (p, ms, n) = p
<1> DEFINE s == Weights (ms, n)
<1>1. ASSUME NEW f
      PROVE  G!Occurrences (G!ImagesOf (f), n) = 0
  <2> DEFINE t == G!ImagesOf (f)
  <2>1. t \in Seq (G!SpriteImage) /\ n \notin G!SpriteImage
    BY ImagesType DEF G!SpriteImage
  <2> HIDE DEF t
  <2>2. \A k \in 1 .. Len (t) : t[k] # n
    BY <2>1, ElementOfSeq
  <2>3. {k \in 1 .. Len (t) : t[k] = n} = {}
    BY <2>2
  <2>4. Among (t, n, Len (t)) = 0
    BY <2>3, FS_EmptySet DEF Among
  <2>5. G!Occurrences (t, n) = 0
    BY <2>1, <2>4, AmongGrows
  <2>6. QED
    BY <2>5 DEF t
<1>2. /\ s \in Seq (Nat) /\ Len (s) = Len (Row)
      /\ \A k \in 1 .. Len (Row) : s[k] = Weight (ms[Row[k]], n)
  BY WeightsAre, WeightType
<1> HIDE DEF s
<1>3. \A k \in 1 .. Len (s) : s[k] = 0
  BY <1>1, <1>2 DEF Weight
<1>4. Total (p, s) = p
  BY <1>2, <1>3, TotalFrom
<1>5. QED
  BY <1>4 DEF UsersOfImage, s

LEMMA SpritesStart ==
  ASSUME G!SpritesAssumption, G!SurfaceCacheAssumption, G!GlyphsAssumption, G!Init
  PROVE  SpritesInv
<1>1. cache = [count |-> [n \in G!Image |-> -1], used |-> 0]
  BY DEF G!Init, G!EmptyCache, G!Uncached
<1>2. cache.count = [n \in G!Image |-> -1] /\ cache.used = 0
  BY <1>1
<1>3. /\ pins = [n \in G!Image |-> 0] /\ glyphs = {} /\ uncharged = 0
      /\ model \in [Model -> [file : SpriteFiles, valid : {FALSE}, playing : {FALSE}, anim : {ShapeOrder[1]},
                              frame : {1}, listener : {"paused"}, due : {0}, shape : {None}]]
  BY DEF G!Init
<1>4. cache \in Tidied (0)
  <2> DEFINE l == Len (ImageOrder)
  <2>1. l \in Nat /\ \A i \in 1 .. l : ImageOrder[i] \in G!Image
    BY ElementOfSeq, LenProperties DEF G!SurfaceCacheAssumption
  <2>2. PICK h \in [0 .. l -> Nat] :
           /\ h[0] = 0 /\ h[l] = G!Memory (cache)
           /\ \A i \in 1 .. l : h[i] = IF cache.count[ImageOrder[i]] = -1 THEN h[i - 1] ELSE h[i - 1] + Size[ImageOrder[i]]
    BY MemoryRuns
  <2> HIDE DEF l
  <2> DEFINE T == {i \in 0 .. l : h[i] = 0}
  <2>3. 0 \in T
    BY <2>1, <2>2
  <2>4. ASSUME NEW i \in 1 .. l, i - 1 \in T
        PROVE  i \in T
    <3>1. i \in 0 .. l /\ i - 1 \in 0 .. l /\ h[i - 1] = 0
      BY <2>1, <2>4
    <3>2. cache.count[ImageOrder[i]] = -1
      BY <1>2, <2>1
    <3>3. QED
      BY <2>2, <3>1, <3>2
  <2>5. \A i \in 0 .. l : i \in T
    <3> HIDE DEF T
    <3>1. QED
      BY <2>1, <2>3, <2>4, StepByStep
  <2>6. G!Memory (cache) = 0
    <3>1. l \in 0 .. l
      BY <2>1
    <3>2. QED
      BY <2>2, <2>5, <3>1
  <2>7. cache \in CacheFields
    <3> DEFINE d == [n \in G!Image |-> -1]
    <3>1. d \in [G!Image -> {k \in Int : k >= -1}]
      OBVIOUS
    <3> HIDE DEF d
    <3>2. cache = [count |-> d, used |-> 0]
      BY <1>1 DEF d
    <3>3. QED
      BY <3>1, <3>2 DEF CacheFields
  <2>8. CacheSize \in Int /\ CacheSize > 0 /\ WordSize \in Nat \ {0}
    BY WordIs
  <2>9. (G!Memory (cache) - 0) % WordSize = 0
    <3> DEFINE w == WordSize
    <3>1. w \in Nat \ {0}
      BY <2>8
    <3> HIDE DEF w
    <3>2. 0 % w = 0
      BY <3>1
    <3>3. QED
      BY <2>6, <3>2 DEF w
  <2>10. QED
    BY <1>2, <2>7, <2>8, <2>9 DEF Tidied, Accounted
<1>5. Holders (pins, glyphs) /\ uncharged \in 0 .. WordSize - 1
  <2>1. pins \in [G!Image -> Nat] /\ \A n \in Pinned : pins[n] <= MaxPins
    BY <1>3 DEF G!SurfaceCacheAssumption, G!SpriteImage
  <2>2. \A n \in G!GlyphImage : pins[n] = Held (glyphs, n)
    BY <1>3, NothingHeld, KindsOfImages
  <2>3. QED
    BY <1>3, <2>1, <2>2, WordIs DEF Holders
<1>6. model \in [Model -> FollowedSprites] /\ \A i \in Model : ~ model[i].valid
  <2>1. ShapeOrder[1] \in G!Shape
    <3>1. ShapeOrder \in Seq (G!Shape) /\ ShapeOrder # <<>>
      BY DEF G!SpritesAssumption
    <3>2. Len (ShapeOrder) \in Nat /\ Len (ShapeOrder) # 0
      BY <3>1, LenProperties, EmptySeq
    <3>3. 1 \in 1 .. Len (ShapeOrder)
      BY <3>2
    <3>4. QED
      BY <3>1, <3>3, ElementOfSeq
  <2>2. ASSUME NEW i \in Model
        PROVE  model[i] \in FollowedSprites /\ ~ model[i].valid
    <3> DEFINE m == model[i]
    <3>1. m \in [file : SpriteFiles, valid : {FALSE}, playing : {FALSE}, anim : {ShapeOrder[1]},
                 frame : {1}, listener : {"paused"}, due : {0}, shape : {None}]
      BY <1>3
    <3> HIDE DEF m
    <3>2. m \in G!ModelType
      <4> DEFINE one == 1
      <4>1. one \in Nat \ {0} /\ 0 \in Nat
        OBVIOUS
      <4> HIDE DEF one
      <4>2. m \in [file : SpriteFiles, valid : {FALSE}, playing : {FALSE}, anim : {ShapeOrder[1]},
                   frame : {one}, listener : {"paused"}, due : {0}, shape : {None}]
        BY <3>1 DEF one
      <4>3. QED
        BY <2>1, <4>1, <4>2 DEF G!ModelType
    <3>3. ~ m.valid /\ ~ m.playing /\ m.listener = "paused"
      BY <3>1
    <3>4. m \in FollowedSprites
      BY <3>2, <3>3 DEF FollowedSprites
    <3>5. QED
      BY <3>3, <3>4 DEF m
  <2>3. QED
    BY <1>3, <2>2
<1>7. ASSUME NEW n \in G!Image
      PROVE  References (cache, n) = UsersOfImage (pins[n], model, n)
  <2> DEFINE s == Weights (model, n)
  <2>1. /\ s \in Seq (Nat) /\ Len (s) = Len (Row)
        /\ \A k \in 1 .. Len (Row) : Row[k] \in Model /\ s[k] = Weight (model[Row[k]], n)
    BY WeightsAre, WeightType
  <2> HIDE DEF s
  <2>2. \A k \in 1 .. Len (s) : s[k] = 0
    BY <1>6, <2>1 DEF Weight
  <2>3. Total (0, s) = 0
    BY <2>1, <2>2, TotalFrom
  <2>4. pins[n] = 0 /\ References (cache, n) = 0
    BY <1>2, <1>3 DEF References
  <2>5. QED
    BY <2>3, <2>4 DEF UsersOfImage, s
<1>8. QED
  BY <1>3, <1>4, <1>5, <1>6, <1>7 DEF SpritesInv, SpritesCounted

-----------------------------------------------------------------------------
\* What the images of a state are counted for is what they are counted for after.
LEMMA CountsAfter ==
  ASSUME G!SpritesAssumption, G!SurfaceCacheAssumption, NEW c, NEW d, NEW p, NEW q, NEW ms, NEW ns,
         SpritesCounted (c, p, ms),
         \A n \in G!Image : Differ (UsersOfImage (p[n], ms, n), UsersOfImage (q[n], ns, n), References (c, n), References (d, n)),
         \A n \in G!Image : References (c, n) \in Nat /\ References (d, n) \in Nat
  PROVE  SpritesCounted (d, q, ns)
<1>1. ASSUME NEW n \in G!Image
      PROVE  References (d, n) = UsersOfImage (q[n], ns, n)
  <2> DEFINE a == UsersOfImage (p[n], ms, n)
             b == UsersOfImage (q[n], ns, n)
             x == References (c, n)
             y == References (d, n)
  <2>1. a \in Nat /\ b \in Nat /\ b - a = y - x /\ x = a /\ x \in Nat /\ y \in Nat
    BY DEF SpritesCounted, Differ
  <2> HIDE DEF a, b, x, y
  <2>2. y = b
    BY <2>1
  <2>3. QED
    BY <2>2 DEF b, y
<1>2. QED
  BY <1>1 DEF SpritesCounted

\* A step of the sprites that changes neither what they use nor the cache.
LEMMA SameImages ==
  ASSUME G!SpritesAssumption, SpritesInv, model' \in [Model -> FollowedSprites],
         UNCHANGED <<cache, pins, glyphs, uncharged>>,
         \A i \in Model : model'[i].file = model[i].file /\ model'[i].valid = model[i].valid
  PROVE  SpritesInv'
<1>1. \A n : UsersOfImage (pins[n], model', n) = UsersOfImage (pins[n], model, n)
  BY SameUsers
<1>2. SpritesCounted (cache, pins, model')
  BY <1>1 DEF SpritesInv, SpritesCounted
<1>3. QED
  BY <1>2 DEF SpritesInv

LEMMA BecomeGives ==
  ASSUME NEW i \in Model, NEW m \in FollowedSprites, model \in [Model -> FollowedSprites], G!Become (i, m)
  PROVE  /\ model' \in [Model -> FollowedSprites] /\ model' = [model EXCEPT ![i] = m]
         /\ model'[i] = m /\ \A j \in Model : j # i => model'[j] = model[j]
BY DEF G!Become

LEMMA GetSpriteAgrees ==
  ASSUME G!SpritesAssumption, G!SurfaceCacheAssumption, SpritesInv, NEW i \in Model, G!GetSprite (i)
  PROVE  SpritesInv'
<1> DEFINE m == model[i]
           s == G!ImagesOf (m.file)
<1>1. /\ cache \in Tidied (uncharged) /\ uncharged \in Int /\ pins \in [G!Image -> Nat] /\ model \in [Model -> FollowedSprites]
      /\ SpritesCounted (cache, pins, model) /\ m \in FollowedSprites
  BY SpritesInvIs
<1>2. ~ m.valid /\ cache' = G!FoldLeft (G!GetSurface, cache, s) /\ G!Become (i, Got (m)) /\ UNCHANGED <<pins, glyphs, uncharged>>
  BY DEF G!GetSprite, Got
<1>3. Got (m) \in FollowedSprites /\ \A n : Weight (Got (m), n) = G!Occurrences (s, n)
  BY <1>1, <1>2, GotFollows
<1>4. s \in Seq (G!Image)
  BY ImagesAre
<1> HIDE DEF m, s
<1>5. cache' \in Tidied (uncharged) /\ \A n \in G!Image : References (cache', n) = References (cache, n) + G!Occurrences (s, n)
  BY <1>1, <1>2, <1>4, GetAllGives
<1>6. model' \in [Model -> FollowedSprites] /\ model' = [model EXCEPT ![i] = Got (m)]
  BY <1>1, <1>2, <1>3, BecomeGives
<1>7. ASSUME NEW n \in G!Image
      PROVE  /\ Differ (UsersOfImage (pins[n], model, n), UsersOfImage (pins'[n], model', n), References (cache, n), References (cache', n))
             /\ References (cache, n) \in Nat /\ References (cache', n) \in Nat
  <2>1. pins[n] \in Nat
    BY <1>1
  <2>2. Differ (UsersOfImage (pins[n], model, n), UsersOfImage (pins[n], [model EXCEPT ![i] = Got (m)], n), Weight (m, n), Weight (Got (m), n))
    BY <1>1, <2>1, OneChanges DEF m
  <2>3. Weight (m, n) = 0
    BY <1>2 DEF Weight
  <2>4. References (cache, n) \in Nat /\ References (cache', n) \in Nat
    BY <1>1, <1>5, RefersTo
  <2>5. Weight (Got (m), n) \in Nat /\ Weight (Got (m), n) = G!Occurrences (s, n)
    BY <1>3, WeightType
  <2>6. Weight (Got (m), n) - Weight (m, n) = References (cache', n) - References (cache, n)
    BY <1>5, <2>3, <2>4, <2>5
  <2>7. QED
    BY <1>2, <1>6, <2>2, <2>4, <2>6 DEF Differ
<1>8. SpritesCounted (cache', pins', model')
  BY <1>1, <1>7, CountsAfter
<1>9. QED
  BY <1>1, <1>2, <1>5, <1>6, <1>8 DEF SpritesInv

LEMMA SetSpriteAgrees ==
  ASSUME G!SpritesAssumption, G!SurfaceCacheAssumption, SpritesInv, NEW i \in Model,
         NEW f \in SpriteFiles, G!SetSprite (i, f)
  PROVE  SpritesInv'
<1> DEFINE m == model[i]
           s == G!ImagesOf (m.file)
           r == [G!Clear (m) EXCEPT !.file = f]
<1>1. /\ cache \in Tidied (uncharged) /\ uncharged \in Int /\ pins \in [G!Image -> Nat] /\ model \in [Model -> FollowedSprites]
      /\ SpritesCounted (cache, pins, model) /\ m \in FollowedSprites
  BY SpritesInvIs
<1>2. cache' = (IF m.valid THEN G!FoldLeft (G!Free, cache, s) ELSE cache) /\ G!Become (i, r) /\ UNCHANGED <<pins, glyphs, uncharged>>
  BY DEF G!SetSprite
<1>3. r \in FollowedSprites /\ ~ r.valid
  BY <1>1, ClearFollows
<1>4. s \in Seq (G!Image)
  BY ImagesAre
<1> HIDE DEF m, s, r
<1>5. \A n \in G!Image : pins[n] \in Nat
  BY <1>1
<1>6. \A n \in G!Image : References (cache, n) >= Weight (m, n) /\ References (cache, n) \in Nat /\ Weight (m, n) \in Nat
  BY <1>1, <1>5, OneChanges, RefersTo, WeightType DEF SpritesCounted, m
<1>7. cache' \in Tidied (uncharged) /\ \A n \in G!Image : References (cache', n) = References (cache, n) - Weight (m, n)
  <2>1. CASE ~ m.valid
    BY <1>1, <1>2, <1>6, <2>1 DEF Weight
  <2>2. CASE m.valid
    <3>1. \A n \in G!Image : Weight (m, n) = G!Occurrences (s, n)
      BY <2>2 DEF Weight, s
    <3>2. \A n \in G!Image : References (cache, n) >= G!Occurrences (s, n)
      BY <1>6, <3>1
    <3>3. QED
      BY <1>1, <1>2, <1>4, <2>2, <3>1, <3>2, FreeAllGives
  <2>3. QED
    BY <2>1, <2>2
<1>8. model' \in [Model -> FollowedSprites] /\ model' = [model EXCEPT ![i] = r]
  BY <1>1, <1>2, <1>3, BecomeGives
<1>9. ASSUME NEW n \in G!Image
      PROVE  /\ Differ (UsersOfImage (pins[n], model, n), UsersOfImage (pins'[n], model', n), References (cache, n), References (cache', n))
             /\ References (cache, n) \in Nat /\ References (cache', n) \in Nat
  <2>1. Differ (UsersOfImage (pins[n], model, n), UsersOfImage (pins[n], [model EXCEPT ![i] = r], n), Weight (m, n), Weight (r, n))
    BY <1>1, <1>5, OneChanges DEF m
  <2>2. Weight (r, n) = 0
    BY <1>3 DEF Weight
  <2>3. References (cache', n) \in Nat
    BY <1>7, RefersTo
  <2>4. Weight (r, n) - Weight (m, n) = References (cache', n) - References (cache, n)
    BY <1>6, <1>7, <2>2
  <2>5. QED
    BY <1>2, <1>6, <1>8, <2>1, <2>3, <2>4 DEF Differ
<1>10. SpritesCounted (cache', pins', model')
  BY <1>1, <1>9, CountsAfter
<1>11. QED
  BY <1>1, <1>2, <1>7, <1>8, <1>10 DEF SpritesInv

\* Those who hold images change their counts alone.
LEMMA HoldersAgree ==
  ASSUME G!SpritesAssumption, G!SurfaceCacheAssumption, SpritesInv, NEW y \in 0 .. WordSize - 1, uncharged' = y,
         UNCHANGED model, cache' \in Tidied (y), Holders (pins', glyphs'),
         \A n \in G!Image : References (cache', n) - References (cache, n) = pins'[n] - pins[n]
  PROVE  SpritesInv'
<1>1. /\ cache \in Tidied (uncharged) /\ model \in [Model -> FollowedSprites]
      /\ SpritesCounted (cache, pins, model) /\ pins \in [G!Image -> Nat] /\ pins' \in [G!Image -> Nat]
  BY DEF SpritesInv, Holders
<1>2. ASSUME NEW m \in G!Image
      PROVE  /\ Differ (UsersOfImage (pins[m], model, m), UsersOfImage (pins'[m], model, m), References (cache, m), References (cache', m))
             /\ References (cache, m) \in Nat /\ References (cache', m) \in Nat
  <2>1. pins[m] \in Nat /\ pins'[m] \in Nat
    BY <1>1
  <2>2. Differ (UsersOfImage (pins[m], model, m), UsersOfImage (pins'[m], model, m), pins[m], pins'[m])
    BY <2>1, HolderChanges
  <2>3. References (cache, m) \in Nat /\ References (cache', m) \in Nat
    BY <1>1, RefersTo
  <2>4. QED
    BY <2>1, <2>2, <2>3 DEF Differ
<1>3. SpritesCounted (cache', pins', model)
  BY <1>1, <1>2, CountsAfter
<1>4. SpritesCounted (cache', pins', model') /\ model' \in [Model -> FollowedSprites]
  BY <1>1, <1>3
<1>5. cache' \in Tidied (uncharged') /\ uncharged' \in 0 .. WordSize - 1
  OBVIOUS
<1>6. QED
  BY <1>4, <1>5 DEF SpritesInv

LEMMA PinAgrees ==
  ASSUME G!SpritesAssumption, G!SurfaceCacheAssumption, G!GlyphsAssumption, SpritesInv, NEW n \in Pinned,
         G!Pin (n) \/ G!Unpin (n)
  PROVE  SpritesInv'
<1>1. /\ cache \in Tidied (uncharged) /\ uncharged \in Int /\ uncharged \in 0 .. WordSize - 1 /\ n \in G!Image
      /\ pins \in [G!Image -> Nat] /\ MaxPins \in Nat /\ pins[n] <= MaxPins /\ Holders (pins, glyphs)
      /\ References (cache, n) = UsersOfImage (pins[n], model, n) /\ n \notin G!GlyphImage
  BY KindsOfImages, SpritesInvIs DEF SpritesInv, SpritesCounted, Holders, G!SurfaceCacheAssumption
<1>2. pins[n] \in Nat /\ \A m \in G!Image : References (cache, m) \in Nat
  BY <1>1, RefersTo
<1>3. UNCHANGED <<model, glyphs, uncharged>>
  BY DEF G!Pin, G!Unpin
<1>4. ASSUME NEW k \in 0 .. MaxPins, pins' = [pins EXCEPT ![n] = k]
      PROVE  /\ Holders (pins', glyphs') /\ pins'[n] = k
             /\ \A m \in G!Image : m # n => pins'[m] = pins[m] /\ pins[m] \in Nat
  BY <1>1, <1>3, <1>4, KindsOfImages DEF Holders
<1>5. CASE G!Pin (n)
  <2> DEFINE k == pins[n] + 1
  <2>1. pins' = [pins EXCEPT ![n] = k] /\ cache' = G!GetSurfaceOnly (cache, n) /\ pins[n] < MaxPins
    BY <1>5 DEF G!Pin
  <2>2. k \in 0 .. MaxPins /\ k - pins[n] = 1
    BY <1>1, <1>2, <2>1
  <2> HIDE DEF k
  <2>3. /\ cache' \in Tidied (uncharged)
        /\ \A m \in G!Image : References (cache', m) = IF m = n THEN References (cache, m) + 1 ELSE References (cache, m)
    BY <1>1, <2>1, GetOnlyGives
  <2>4. Holders (pins', glyphs') /\ \A m \in G!Image : References (cache', m) - References (cache, m) = pins'[m] - pins[m]
    <3>1. /\ Holders (pins', glyphs') /\ pins'[n] = k
          /\ \A m \in G!Image : m # n => pins'[m] = pins[m] /\ pins[m] \in Nat
      BY <1>4, <2>1, <2>2
    <3>2. ASSUME NEW m \in G!Image
          PROVE  References (cache', m) - References (cache, m) = pins'[m] - pins[m]
      <4>1. References (cache, m) \in Nat
        BY <1>2
      <4>2. CASE m = n
        BY <1>2, <2>2, <2>3, <3>1, <4>1, <4>2
      <4>3. CASE m # n
        BY <2>3, <3>1, <4>1, <4>3
      <4>4. QED
        BY <4>2, <4>3
    <3>3. QED
      BY <3>1, <3>2
  <2>5. QED
    BY <1>1, <1>3, <2>3, <2>4, HoldersAgree
<1>6. CASE G!Unpin (n)
  <2> DEFINE k == pins[n] - 1
  <2>1. pins' = [pins EXCEPT ![n] = k] /\ cache' = G!Free (cache, n) /\ pins[n] > 0
    BY <1>6 DEF G!Unpin
  <2>2. k \in 0 .. MaxPins /\ k - pins[n] = 0 - 1
    BY <1>1, <1>2, <2>1
  <2> HIDE DEF k
  <2>3. /\ cache' \in Tidied (uncharged)
        /\ \A m \in G!Image : References (cache', m) =
             IF m = n /\ References (cache, n) > 0 THEN References (cache, n) - 1 ELSE References (cache, m)
    BY <1>1, <2>1, FreeGives
  <2>4. References (cache, n) > 0
    <3>1. Weights (model, n) \in Seq (Nat)
      BY WeightsAre, WeightType
    <3>2. Total (pins[n], Weights (model, n)) >= pins[n] /\ Total (pins[n], Weights (model, n)) \in Nat
      BY <1>2, <3>1, TotalFrom
    <3>3. QED
      BY <1>1, <1>2, <2>1, <3>2 DEF UsersOfImage
  <2>5. Holders (pins', glyphs') /\ \A m \in G!Image : References (cache', m) - References (cache, m) = pins'[m] - pins[m]
    <3>1. /\ Holders (pins', glyphs') /\ pins'[n] = k
          /\ \A m \in G!Image : m # n => pins'[m] = pins[m] /\ pins[m] \in Nat
      BY <1>4, <2>1, <2>2
    <3>2. ASSUME NEW m \in G!Image
          PROVE  References (cache', m) - References (cache, m) = pins'[m] - pins[m]
      <4>1. References (cache, m) \in Nat
        BY <1>2
      <4>2. CASE m = n
        BY <1>2, <2>2, <2>3, <3>1, <4>1, <4>2, <2>4
      <4>3. CASE m # n
        BY <2>3, <3>1, <4>1, <4>3
      <4>4. QED
        BY <4>2, <4>3
    <3>3. QED
      BY <3>1, <3>2
  <2>6. QED
    BY <1>1, <1>3, <2>3, <2>5, HoldersAgree
<1>7. QED
  BY <1>5, <1>6

-----------------------------------------------------------------------------
\* Memory counts for what is left of it in a word.
LEMMA RestUncharged ==
  ASSUME G!SurfaceCacheAssumption, NEW y \in Int, NEW c \in Tidied (y)
  PROVE  y % WordSize \in 0 .. WordSize - 1 /\ c \in Tidied (y % WordSize)
<1> DEFINE a == G!Memory (c)
           w == WordSize
<1>1. c \in CacheFields /\ c.used = (a - y) % w
  BY DEF Tidied, Accounted
<1>2. a \in Int /\ w \in Nat \ {0}
  BY WordIs, MemoryOfSame
<1> HIDE DEF a, w
<1>3. (a - (y % w)) % w = (a - y) % w /\ y % w \in 0 .. w - 1
  BY <1>2, RestOfRest, WholeAndRest
<1>4. QED
  BY <1>1, <1>3 DEF Tidied, Accounted, a, w

\* A glyph brings its images along; nobody else has the one in front.
LEMMA DrawGlyphAgrees ==
  ASSUME G!SpritesAssumption, G!SurfaceCacheAssumption, G!GlyphsAssumption, G!GlyphsUnique, SpritesInv,
         NEW g \in Glyph, G!DrawGlyph (g)
  PROVE  SpritesInv'
<1> DEFINE f == GlyphFore[g]
           b == GlyphBack[g]
           added == G!AddSurfaceMem (cache, f)
           y == uncharged + G!Missed (cache, f) + G!Missed (added, b)
<1>1. /\ g \notin glyphs /\ glyphs' = glyphs \cup {g} /\ cache' = G!GetSurfaceMem (added, b)
      /\ pins' = [n \in G!Image |-> pins[n] + G!Holds (g, n)] /\ uncharged' = y % WordSize /\ UNCHANGED model
  BY DEF G!DrawGlyph
<1>2. /\ cache \in Tidied (uncharged) /\ uncharged \in Int /\ pins \in [G!Image -> Nat]
      /\ SpritesCounted (cache, pins, model) /\ Holders (pins, glyphs) /\ glyphs \in SUBSET Glyph
  BY SpritesInvIs DEF SpritesInv, Holders
<1>3. f \in G!GlyphImage /\ b \in G!GlyphImage /\ f \in G!Image /\ b \in G!Image
  BY KindsOfImages
<1>4. f # b /\ \A h \in glyphs : GlyphFore[h] # f /\ GlyphBack[h] # f
  BY <1>1, <1>2, KindsOfImages DEF G!GlyphsUnique, G!Range
<1>5. References (cache, f) = 0
  <2>1. {h \in glyphs : GlyphFore[h] = f} = {} /\ {h \in glyphs : GlyphBack[h] = f} = {}
    BY <1>4
  <2>2. Held (glyphs, f) = 0
    BY <2>1, FS_EmptySet DEF Held
  <2>3. pins[f] = 0
    BY <1>2, <1>3, <2>2 DEF Holders
  <2>4. QED
    BY <1>2, <1>3, <2>3, GlyphUsers DEF SpritesCounted
<1> DEFINE x == uncharged + G!Missed (cache, f)
<1>6. \A c : G!Missed (c, f) \in Int /\ G!Missed (c, b) \in Int
  BY <1>3, WordIs DEF G!Missed
<1>7. /\ added \in Tidied (x) /\ x \in Int
      /\ \A n \in G!Image : References (added, n) = IF n = f THEN References (cache, n) + 1 ELSE References (cache, n)
  <2> DEFINE z == uncharged + G!Missed (cache, f) - 0
  <2>1. added = G!AddEntry (cache, f, 0) /\ z = x /\ x \in Int
    BY <1>2, <1>6 DEF G!AddSurfaceMem
  <2> HIDE DEF added
  <2>2. /\ G!AddEntry (cache, f, 0) \in Tidied (z)
        /\ \A n \in G!Image : References (G!AddEntry (cache, f, 0), n) = IF n = f THEN References (cache, n) + 1 ELSE References (cache, n)
    BY <1>2, <1>3, <1>5, AddGives
  <2> HIDE DEF f, x, z
  <2>3. QED
    BY <2>1, <2>2
<1> HIDE DEF f, b, added
<1>8. /\ cache' \in Tidied (y) /\ y \in Int
      /\ \A n \in G!Image : References (cache', n) = IF n = b THEN References (added, n) + 1 ELSE References (added, n)
  <2>1. y = x + G!Missed (added, b)
    OBVIOUS
  <2> HIDE DEF x, y
  <2>2. /\ G!GetSurfaceMem (added, b) \in Tidied (x + G!Missed (added, b))
        /\ \A n \in G!Image : References (G!GetSurfaceMem (added, b), n) = IF n = b THEN References (added, n) + 1 ELSE References (added, n)
    BY <1>3, <1>7, GetMemGives
  <2>3. y \in Int
    BY <1>6, <1>7, <2>1
  <2>4. QED
    BY <1>1, <2>1, <2>2, <2>3
<1> HIDE DEF x, y
<1>9. \A n \in G!Image : References (cache', n) - References (cache, n) = pins'[n] - pins[n]
  <2>1. TAKE n \in G!Image
  <2>2. pins[n] \in Nat /\ References (cache, n) \in Nat
    BY <1>2, RefersTo
  <2>3. pins'[n] = pins[n] + G!Holds (g, n) /\ G!Holds (g, n) = (IF f = n THEN 1 ELSE 0) + (IF b = n THEN 1 ELSE 0)
    BY <1>1 DEF G!Holds, f, b
  <2>4. QED
    BY <1>4, <1>7, <1>8, <2>2, <2>3
<1>10. Holders (pins', glyphs')
  <2>1. pins' \in [G!Image -> Nat]
    <3>1. \A n \in G!Image : pins[n] + G!Holds (g, n) \in Nat
      BY <1>2 DEF G!Holds
    <3>2. QED
      BY <1>1, <3>1
  <2>2. ASSUME NEW n \in Pinned
        PROVE  pins'[n] <= MaxPins
    <3>1. n \in G!Image /\ f # n /\ b # n
      BY <1>3, KindsOfImages
    <3>2. pins'[n] = pins[n] + 0 /\ pins[n] \in Nat
      BY <1>1, <1>2, <3>1 DEF G!Holds, f, b
    <3>3. QED
      BY <1>2, <3>2 DEF Holders
  <2>3. ASSUME NEW n \in G!GlyphImage
        PROVE  pins'[n] = Held (glyphs', n)
    <3>1. n \in G!Image /\ pins[n] = Held (glyphs, n)
      BY <1>2, KindsOfImages DEF Holders
    <3>2. Held (glyphs \cup {g}, n) = Held (glyphs, n) + G!Holds (g, n)
      BY <1>1, <1>2, HeldWith
    <3>3. QED
      BY <1>1, <3>1, <3>2
  <2>4. glyphs' \in SUBSET Glyph
    BY <1>1, <1>2
  <2>5. QED
    BY <2>1, <2>2, <2>3, <2>4 DEF Holders
<1>11. uncharged' \in 0 .. WordSize - 1 /\ cache' \in Tidied (uncharged')
  BY <1>1, <1>8, RestUncharged
<1>12. QED
  BY <1>1, <1>9, <1>10, <1>11, HoldersAgree

LEMMA FreeGlyphGives ==
  ASSUME G!SurfaceCacheAssumption, G!GlyphsAssumption, NEW x \in Int, NEW c \in Tidied (x), NEW g \in Glyph
  PROVE  /\ G!FreeGlyph (c, g) \in Tidied (x)
         /\ \A n \in G!Image : References (c, n) >= G!Holds (g, n) =>
              References (G!FreeGlyph (c, g), n) = References (c, n) - G!Holds (g, n)
<1> DEFINE f == GlyphFore[g]
           b == GlyphBack[g]
           d == G!Free (c, f)
<1>1. f \in G!Image /\ b \in G!Image
  BY DEF G!GlyphsAssumption
<1>2. \A n : G!Holds (g, n) = (IF f = n THEN 1 ELSE 0) + (IF b = n THEN 1 ELSE 0)
  BY DEF G!Holds
<1>3. G!FreeGlyph (c, g) = G!Free (d, b)
  BY DEF G!FreeGlyph
<1> HIDE DEF f, b
<1>4. /\ d \in Tidied (x)
      /\ \A n \in G!Image : References (d, n) = IF n = f /\ References (c, f) > 0 THEN References (c, f) - 1 ELSE References (c, n)
  BY <1>1, FreeGives
<1> HIDE DEF d
<1>5. /\ G!Free (d, b) \in Tidied (x)
      /\ \A n \in G!Image : References (G!Free (d, b), n) = IF n = b /\ References (d, b) > 0 THEN References (d, b) - 1 ELSE References (d, n)
  BY <1>1, <1>4, FreeGives
<1>6. ASSUME NEW n \in G!Image, References (c, n) >= G!Holds (g, n)
      PROVE  References (G!FreeGlyph (c, g), n) = References (c, n) - G!Holds (g, n)
  <2>1. References (c, n) \in Nat
    BY RefersTo
  <2>2. References (d, n) = References (c, n) - IF f = n THEN 1 ELSE 0
    BY <1>2, <1>4, <1>6, <2>1
  <2>3. References (G!Free (d, b), n) = References (d, n) - IF b = n THEN 1 ELSE 0
    BY <1>2, <1>5, <1>6, <2>1, <2>2
  <2>4. QED
    BY <1>2, <1>3, <2>1, <2>2, <2>3
<1>7. QED
  BY <1>3, <1>5, <1>6

\* All glyphs give their images back, in any order.
LEMMA FreeGlyphsGives ==
  ASSUME G!SurfaceCacheAssumption, G!GlyphsAssumption, NEW x \in Int, NEW c \in Tidied (x),
         NEW gs \in SUBSET Glyph, NEW order \in G!SetToSeqs (gs),
         \A n \in G!Image : References (c, n) >= Held (gs, n)
  PROVE  /\ G!FoldLeft (G!FreeGlyph, c, order) \in Tidied (x)
         /\ \A n \in G!Image : References (G!FoldLeft (G!FreeGlyph, c, order), n) = References (c, n) - Held (gs, n)
<1> DEFINE l == Cardinality (gs)
           F == [p \in (1 .. l) \X Tidied (x) |-> G!FreeGlyph (p[2], order[p[1]])]
           At (g, t) == IF t = {} THEN c ELSE G!FreeGlyph (g[t \ {Max (t)}], order[Max (t)])
           Step (g) == [t \in SUBSET (1 .. l) |-> At (g, t)]
           iter == CHOOSE g : g = Step (g)
           r == G!FoldLeft (G!FreeGlyph, c, order)
<1>1. IsFiniteSet (gs) /\ l \in Nat
  <2>1. IsFiniteSet (Glyph)
    BY DEF G!GlyphsAssumption, G!IsFiniteSet, IsFiniteSet
  <2>2. QED
    BY <2>1, FS_Subset, FS_CardinalityType
<1>2. /\ order \in [1 .. l -> gs] /\ DOMAIN order = 1 .. l
      /\ \A i, j \in 1 .. l : i # j => order[i] # order[j]
  <2>1. l = G!Cardinality (gs)
    BY DEF G!Cardinality, G!IsFiniteSet, Cardinality, IsFiniteSet
  <2>2. QED
    BY <2>1 DEF G!SetToSeqs
<1>3. \A s \in gs : \E k \in 1 .. l : order[k] = s
  <2>1. order \in Injection (1 .. l, gs)
    BY <1>2 DEF Injection, IsInjective
  <2>2. Cardinality (1 .. l) = l
    BY <1>1, FS_Interval
  <2>3. order \in Surjection (1 .. l, gs)
    BY <1>1, <2>1, <2>2, FS_Injection
  <2>4. QED
    BY <2>3 DEF Surjection
<1>4. Len (order) = l /\ \A i \in 1 .. l : order[i] \in Glyph
  <2> HIDE DEF l
  <2>1. order \in [1 .. l -> gs] /\ l \in Nat
    BY <1>1, <1>2
  <2>2. order \in Seq (gs) /\ Len (order) = l
    BY <2>1, SeqDef, LenProperties
  <2>3. QED
    BY <2>1, <2>2
<1>5. r = iter[1 .. l]
  BY <1>2 DEF G!FoldLeft, G!MapThenFoldSet, G!Max, Max
<1> HIDE DEF l, r
<1>6. /\ F \in [(1 .. l) \X Tidied (x) -> Tidied (x)]
      /\ \A i \in 1 .. l, d \in Tidied (x) : F[<<i, d>>] = G!FreeGlyph (d, order[i])
  BY <1>4, FreeGlyphGives
<1> HIDE DEF F
<1>7. /\ \E g \in [SUBSET (1 .. l) -> Tidied (x)] : IsFold (g, l, c, F)
      /\ \A t \in SUBSET (1 .. l) : t # {} => Max (t) \in 1 .. l /\ t \ {Max (t)} \in SUBSET (1 .. l)
  BY <1>1, <1>6, FoldGoesOn
<1>8. PICK g \in [SUBSET (1 .. l) -> Tidied (x)] : IsFold (g, l, c, F)
  BY <1>7
<1>9. \A t \in SUBSET (1 .. l) : iter[t] = At (iter, t)
  <2>1. \A t \in SUBSET (1 .. l) : g[t] = At (g, t)
    BY <1>6, <1>7, <1>8 DEF IsFold
  <2> HIDE DEF At
  <2>2. g = Step (g)
    BY <2>1
  <2> HIDE DEF Step
  <2>3. iter = Step (iter)
    BY <2>2
  <2> HIDE DEF iter
  <2>4. QED
    BY <2>3 DEF Step
<1> HIDE DEF iter
<1>10. Iterates (iter, l, Tidied (x), c, F)
  BY <1>6, <1>7, <1>9 DEF Iterates
<1>11. PICK h \in [0 .. l -> Tidied (x)] : h[l] = iter[1 .. l] /\ IsRun (h, l, c, F)
  BY <1>1, <1>6, <1>10, FoldRuns
<1>12. h[0] = c /\ \A i \in 1 .. l : h[i] = G!FreeGlyph (h[i - 1], order[i])
  <2>1. \A i \in 1 .. l : h[i - 1] \in Tidied (x)
    BY <1>1
  <2>2. QED
    BY <1>6, <1>11, <2>1 DEF IsRun
<1> DEFINE Rest (i) == gs \ {order[k] : k \in 1 .. i}
<1>13. /\ Rest (0) = gs /\ Rest (l) = {} /\ \A i \in 0 .. l : Rest (i) \in SUBSET Glyph
       /\ \A i \in 1 .. l : order[i] \in Rest (i - 1) /\ Rest (i) = Rest (i - 1) \ {order[i]}
  <2>1. Rest (0) = gs
    OBVIOUS
  <2>2. Rest (l) = {}
    BY <1>3
  <2>3. ASSUME NEW i \in 1 .. l
        PROVE  order[i] \in Rest (i - 1) /\ Rest (i) = Rest (i - 1) \ {order[i]}
    <3>1. order[i] \in gs /\ \A k \in 1 .. i - 1 : order[k] # order[i]
      BY <1>1, <1>2
    <3>2. \A k : k \in 1 .. i <=> k \in 1 .. i - 1 \/ k = i
      BY <1>1
    <3>3. QED
      BY <3>1, <3>2
  <2>4. QED
    BY <2>1, <2>2, <2>3
<1> HIDE DEF Rest
<1>14. ASSUME NEW n \in G!Image
       PROVE  References (h[l], n) = References (c, n) - Held (gs, n)
  <2>1. References (c, n) \in Nat /\ Held (gs, n) \in Nat /\ References (c, n) >= Held (gs, n)
    BY RefersTo, HeldIs
  <2> DEFINE T == {i \in 0 .. l : References (h[i], n) = (References (c, n) - Held (gs, n)) + Held (Rest (i), n)}
  <2>2. 0 \in T
    BY <1>1, <1>12, <1>13, <2>1
  <2>3. ASSUME NEW i \in 1 .. l, i - 1 \in T
        PROVE  i \in T
    <3> DEFINE d == h[i - 1]
               q == order[i]
               R == Rest (i - 1)
    <3>1. d \in Tidied (x) /\ q \in Glyph /\ i \in 0 .. l /\ h[i] = G!FreeGlyph (d, q)
      BY <1>1, <1>4, <1>12
    <3>2. R \in SUBSET Glyph /\ q \in R /\ Rest (i) = R \ {q}
      BY <1>1, <1>13
    <3>3. References (d, n) = (References (c, n) - Held (gs, n)) + Held (R, n)
      BY <2>3
    <3> HIDE DEF d, q, R
    <3>4. Held (R, n) \in Nat /\ Held (R \ {q}, n) \in Nat /\ Held (R, n) = Held (R \ {q}, n) + G!Holds (q, n)
      BY <3>2, HeldWithout
    <3>5. G!Holds (q, n) \in Nat
      BY DEF G!Holds
    <3>6. References (d, n) >= G!Holds (q, n)
      BY <2>1, <3>3, <3>4, <3>5
    <3>7. References (G!FreeGlyph (d, q), n) = References (d, n) - G!Holds (q, n)
      BY <3>1, <3>6, FreeGlyphGives
    <3>8. References (h[i], n) = (References (c, n) - Held (gs, n)) + Held (Rest (i), n)
      BY <2>1, <3>1, <3>2, <3>3, <3>4, <3>5, <3>7
    <3>9. QED
      BY <3>1, <3>8
  <2>4. \A i \in 0 .. l : i \in T
    <3> HIDE DEF T
    <3>1. QED
      BY <1>1, <2>2, <2>3, StepByStep
  <2>5. References (h[l], n) = (References (c, n) - Held (gs, n)) + Held (Rest (l), n)
    BY <1>1, <2>4
  <2>6. QED
    BY <1>13, <2>1, <2>5, NothingHeld
<1>15. h[l] \in Tidied (x)
  BY <1>1
<1>16. QED
  BY <1>5, <1>11, <1>14, <1>15 DEF r

LEMMA DeleteFontsAgrees ==
  ASSUME G!SpritesAssumption, G!SurfaceCacheAssumption, G!GlyphsAssumption, SpritesInv, G!DeleteFonts
  PROVE  SpritesInv'
<1>1. PICK order \in G!SetToSeqs (glyphs) : cache' = G!FoldLeft (G!FreeGlyph, cache, order)
  BY DEF G!DeleteFonts
<1>2. /\ glyphs' = {} /\ pins' = [n \in G!Image |-> IF n \in G!GlyphImage THEN 0 ELSE pins[n]]
      /\ UNCHANGED <<model, uncharged>>
  BY DEF G!DeleteFonts
<1>3. /\ cache \in Tidied (uncharged) /\ uncharged \in Int /\ uncharged \in 0 .. WordSize - 1
      /\ pins \in [G!Image -> Nat] /\ SpritesCounted (cache, pins, model)
      /\ Holders (pins, glyphs) /\ glyphs \in SUBSET Glyph
  BY SpritesInvIs DEF SpritesInv, Holders
<1>4. ASSUME NEW n \in G!Image
      PROVE  /\ pins[n] \in Nat /\ References (cache, n) \in Nat /\ Held (glyphs, n) \in Nat
             /\ Held (glyphs, n) = IF n \in G!GlyphImage THEN pins[n] ELSE 0
             /\ References (cache, n) >= Held (glyphs, n)
  <2>1. pins[n] \in Nat /\ References (cache, n) \in Nat /\ Held (glyphs, n) \in Nat
    BY <1>3, RefersTo, HeldIs
  <2>2. CASE n \in G!GlyphImage
    <3>1. pins[n] = Held (glyphs, n)
      BY <1>3, <2>2 DEF Holders
    <3>2. References (cache, n) = pins[n]
      BY <1>3, <2>1, <2>2, GlyphUsers DEF SpritesCounted
    <3>3. QED
      BY <2>1, <2>2, <3>1, <3>2
  <2>3. CASE n \notin G!GlyphImage
    <3>1. \A g \in glyphs : GlyphFore[g] # n /\ GlyphBack[g] # n
      BY <1>3, <2>3, KindsOfImages
    <3>2. {g \in glyphs : GlyphFore[g] = n} = {} /\ {g \in glyphs : GlyphBack[g] = n} = {}
      BY <3>1
    <3>3. Held (glyphs, n) = 0
      BY <3>2, FS_EmptySet DEF Held
    <3>4. QED
      BY <2>1, <2>3, <3>3
  <2>4. QED
    BY <2>2, <2>3
<1>5. /\ cache' \in Tidied (uncharged)
      /\ \A n \in G!Image : References (cache', n) = References (cache, n) - Held (glyphs, n)
  <2>1. \A n \in G!Image : References (cache, n) >= Held (glyphs, n)
    BY <1>4
  <2>2. /\ G!FoldLeft (G!FreeGlyph, cache, order) \in Tidied (uncharged)
        /\ \A n \in G!Image : References (G!FoldLeft (G!FreeGlyph, cache, order), n) = References (cache, n) - Held (glyphs, n)
    BY <1>3, <2>1, FreeGlyphsGives
  <2>3. QED
    BY <1>1, <2>2
<1>6. \A n \in G!Image : References (cache', n) - References (cache, n) = pins'[n] - pins[n]
  <2>1. TAKE n \in G!Image
  <2>2. pins'[n] = pins[n] - Held (glyphs, n)
    BY <1>2, <1>4
  <2>3. QED
    BY <1>4, <1>5, <2>2
<1>7. Holders (pins', glyphs')
  <2>1. pins' \in [G!Image -> Nat] /\ \A n \in Pinned : pins'[n] = pins[n]
    BY <1>2, <1>3, KindsOfImages
  <2>2. \A n \in G!GlyphImage : pins'[n] = Held (glyphs', n)
    BY <1>2, KindsOfImages, NothingHeld
  <2>3. QED
    BY <1>2, <1>3, <2>1, <2>2 DEF Holders
<1>8. QED
  BY <1>2, <1>3, <1>5, <1>6, <1>7, HoldersAgree

-----------------------------------------------------------------------------
LEMMA SetShapeAgrees ==
  ASSUME G!SpritesAssumption, SpritesInv, NEW i \in Model, NEW name \in G!Shape \cup {None}, G!SetShape (i, name)
  PROVE  SpritesInv'
<1> DEFINE m == model[i]
<1>1. model \in [Model -> FollowedSprites] /\ m \in FollowedSprites
  BY DEF SpritesInv
<1>2. /\ name = None => ~ m.valid
      /\ G!Become (i, Shaped (m, name)) /\ UNCHANGED <<cache, pins, glyphs, uncharged>>
  BY DEF G!SetShape, Shaped
<1>3. /\ Shaped (m, name) \in FollowedSprites
      /\ Shaped (m, name).file = m.file /\ Shaped (m, name).valid = m.valid
  BY <1>1, <1>2, ShapedFollows
<1> DEFINE r == Shaped (m, name)
<1> HIDE DEF r
<1>4. model' \in [Model -> FollowedSprites] /\ model'[i] = r /\ \A j \in Model : j # i => model'[j] = model[j]
  BY <1>1, <1>2, <1>3, BecomeGives DEF r
<1>5. \A j \in Model : model'[j].file = model[j].file /\ model'[j].valid = model[j].valid
  BY <1>3, <1>4 DEF r
<1>6. QED
  BY <1>2, <1>4, <1>5, SameImages

LEMMA RaiseAgrees ==
  ASSUME G!SpritesAssumption, G!AnimationsGoOn, SpritesInv, NEW i \in Model, G!Raise (i)
  PROVE  SpritesInv'
<1> DEFINE m == model[i]
           r == G!Update (m)
<1>1. model \in [Model -> FollowedSprites] /\ m \in FollowedSprites
  BY DEF SpritesInv
<1>2. m.listener = "waiting" /\ G!Become (i, r) /\ UNCHANGED <<cache, pins, glyphs, uncharged>>
  BY DEF G!Raise, G!Due
<1>3. r \in FollowedSprites /\ SameSprite (m, r)
  BY <1>1, <1>2, UpdateFollows
<1> HIDE DEF r
<1>4. model' \in [Model -> FollowedSprites] /\ model'[i] = r /\ \A j \in Model : j # i => model'[j] = model[j]
  BY <1>1, <1>2, <1>3, BecomeGives
<1>5. \A j \in Model : model'[j].file = model[j].file /\ model'[j].valid = model[j].valid
  BY <1>3, <1>4 DEF SameSprite
<1>6. QED
  BY <1>2, <1>4, <1>5, SameImages

LEMMA SpritesTickAgrees ==
  ASSUME G!SpritesAssumption, SpritesInv, G!Tick
  PROVE  SpritesInv'
<1>1. \A i \in Model : model[i] \in FollowedSprites
  BY DEF SpritesInv
<1>2. model' = [i \in Model |-> [model[i] EXCEPT !.due = IF model[i].due > 0 THEN model[i].due - 1 ELSE 0]]
      /\ UNCHANGED <<cache, pins, glyphs, uncharged>>
  BY DEF G!Tick
<1>3. ASSUME NEW i \in Model
      PROVE  model'[i] \in FollowedSprites /\ model'[i].file = model[i].file /\ model'[i].valid = model[i].valid
  <2> DEFINE m == model[i]
             r == [m EXCEPT !.due = IF m.due > 0 THEN m.due - 1 ELSE 0]
  <2>1. r \in FollowedSprites /\ r.valid = m.valid /\ r.file = m.file
    BY <1>1, TickFollows
  <2>2. model'[i] = r
    BY <1>2
  <2>3. QED
    BY <2>1, <2>2
<1>4. model' \in [Model -> FollowedSprites]
  <2> DEFINE At (i) == [model[i] EXCEPT !.due = IF model[i].due > 0 THEN model[i].due - 1 ELSE 0]
  <2>1. model' = [i \in Model |-> At (i)]
    BY <1>2
  <2>2. \A i \in Model : At (i) \in FollowedSprites
    BY <1>3, <2>1
  <2> HIDE DEF At
  <2>3. QED
    BY <2>1, <2>2
<1>5. QED
  BY <1>2, <1>3, <1>4, SameImages

LEMMA PurgeAllAgrees ==
  ASSUME G!SpritesAssumption, G!SurfaceCacheAssumption, SpritesInv, G!PurgeAll
  PROVE  SpritesInv'
<1>1. /\ cache \in Tidied (uncharged) /\ uncharged \in Int /\ cache' = G!Purge (cache)
      /\ UNCHANGED <<pins, model, glyphs, uncharged>>
  BY SpritesInvIs DEF G!PurgeAll
<1>2. cache' \in Tidied (uncharged) /\ \A n \in G!Image : References (cache', n) = References (cache, n)
  BY <1>1, PurgeAllTidies DEF Tidied
<1>3. SpritesCounted (cache', pins, model)
  BY <1>2 DEF SpritesInv, SpritesCounted
<1>4. QED
  BY <1>1, <1>2, <1>3 DEF SpritesInv

LEMMA SpritesInvKept ==
  ASSUME G!SpritesAssumption, G!SurfaceCacheAssumption, G!GlyphsAssumption, G!GlyphsUnique, G!AnimationsGoOn,
         SpritesInv, G!Next
  PROVE  SpritesInv'
<1>1. ASSUME NEW i \in Model, G!GetSprite (i)
      PROVE  SpritesInv'
  BY <1>1, GetSpriteAgrees
<1>2. ASSUME NEW i \in Model, G!Raise (i)
      PROVE  SpritesInv'
  BY <1>2, RaiseAgrees
<1>3. ASSUME NEW i \in Model, NEW name \in G!Shape \cup {None}, G!SetShape (i, name)
      PROVE  SpritesInv'
  BY <1>3, SetShapeAgrees
<1>4. ASSUME NEW i \in Model, NEW f \in SpriteFiles, G!SetSprite (i, f)
      PROVE  SpritesInv'
  BY <1>4, SetSpriteAgrees
<1>5. ASSUME NEW n \in Pinned, G!Pin (n) \/ G!Unpin (n)
      PROVE  SpritesInv'
  BY <1>5, PinAgrees
<1>6. CASE G!PurgeAll
  BY <1>6, PurgeAllAgrees
<1>7. CASE G!Tick
  BY <1>7, SpritesTickAgrees
<1>8. ASSUME NEW g \in Glyph, G!DrawGlyph (g)
      PROVE  SpritesInv'
  BY <1>8, DrawGlyphAgrees
<1>9. CASE G!DeleteFonts
  BY <1>9, DeleteFontsAgrees
<1>10. QED
  BY <1>1, <1>2, <1>3, <1>4, <1>5, <1>6, <1>7, <1>8, <1>9 DEF G!Next

LEMMA SpritesAgree ==
  ASSUME G!SpritesAssumption, G!SurfaceCacheAssumption, SpritesInv
  PROVE  G!TypeOK /\ G!CacheAgrees /\ G!ListenersFollow /\ G!ShapeIsShown
<1>1. /\ cache \in Tidied (uncharged) /\ model \in [Model -> FollowedSprites]
      /\ SpritesCounted (cache, pins, model)
  BY DEF SpritesInv
<1>2. /\ cache \in CacheFields /\ cache.count \in [G!Image -> {k \in Int : k >= -1}]
      /\ cache.used = (G!Memory (cache) - uncharged) % WordSize /\ cache = [count |-> cache.count, used |-> cache.used]
      /\ cache.used >= CacheSize => \A n \in G!Image : cache.count[n] # 0
  BY <1>1, CacheIs DEF Tidied
<1>3. cache.used \in 0 .. WordSize - 1
  <2> DEFINE a == G!Memory (cache) - uncharged
  <2>1. a \in Int /\ WordSize \in Nat \ {0}
    BY SpritesInvIs, WordIs, MemoryOfSame
  <2> HIDE DEF a
  <2>2. a % WordSize \in 0 .. WordSize - 1
    BY <2>1, WholeAndRest
  <2>3. QED
    BY <1>2, <2>2 DEF a
<1>4. G!TypeOK
  <2>1. cache \in G!CacheType
    BY <1>2, <1>3 DEF G!CacheType, G!Uncached
  <2>2. model \in [Model -> G!ModelType]
    BY <1>1, FollowedIs
  <2>3. /\ pins \in [G!Image -> Nat] /\ \A n \in Pinned : pins[n] <= MaxPins
        /\ glyphs \subseteq Glyph /\ uncharged \in 0 .. WordSize - 1
    BY DEF SpritesInv, Holders
  <2>4. QED
    BY <2>1, <2>2, <2>3 DEF G!TypeOK
<1>5. G!CacheAgrees
  <2>1. ASSUME NEW n \in G!Image
        PROVE  IF G!Cached (cache, n) THEN cache.count[n] = G!Uses (n) ELSE G!Uses (n) = 0
    <3>1. References (cache, n) = G!Uses (n)
      BY <1>1, UsesIs DEF SpritesCounted
    <3>2. QED
      BY <3>1 DEF References, G!Cached, G!Uncached
  <2>2. QED
    BY <1>2, <2>1 DEF G!CacheAgrees
<1>6. G!ListenersFollow
  BY <1>1, FollowedIs DEF G!ListenersFollow, G!Frames
<1>7. G!ShapeIsShown
  BY <1>1, FollowedIs DEF G!ShapeIsShown
<1>8. QED
  BY <1>4, <1>5, <1>6, <1>7

\* CacheAgrees for any number of sprites, files, images and users of them, the
\* glyphs of texts among them: no image is dropped that is in use nor kept
\* without need, the memory that is counted is that of the images in the cache
\* less what glyphs were not charged for, and sprites that play wait for their
\* next frame. For glyphs that replace no image, and animations that go on.
THEOREM SpritesAlwaysAgree == G!GlyphsUnique /\ G!AnimationsGoOn => (Spec => []CacheAgrees)
<1> SUFFICES ASSUME G!GlyphsUnique, G!AnimationsGoOn
             PROVE  Spec => []CacheAgrees
  OBVIOUS
<1> DEFINE Inv == scene = "sprites" => SpritesInv
<1> USE SpritesAssumption, SurfaceCacheAssumption, GlyphsAssumption
<1>1. Init => Inv
  BY SpritesStart DEF Init
<1>2. Inv /\ [Next]_vars => Inv'
  <2> SUFFICES ASSUME Inv, [Next]_vars, scene' = "sprites"
               PROVE  SpritesInv'
    OBVIOUS
  <2>1. CASE SpritesStep
    <3>1. scene = "sprites" /\ G!Next
      BY <2>1 DEF SpritesStep
    <3>2. SpritesInv
      BY <3>1
    <3>3. QED
      BY <3>1, <3>2, SpritesInvKept
  <2>2. CASE scene' = scene /\ UNCHANGED spritesVars
    <3>1. SpritesInv
      BY <2>2
    <3>2. QED
      BY <2>2, <3>1 DEF SpritesInv, spritesVars
  <2>3. QED
    BY <2>1, <2>2 DEF Next, vars, SavedGamesStep, ConfigurationStep, ApplicationStep, SoundsStep, InputDevicesStep
<1>3. Inv => CacheAgrees
  BY SpritesAgree DEF CacheAgrees
<1>4. QED
  BY <1>1, <1>2, <1>3, PTL DEF Spec

-----------------------------------------------------------------------------
(***************************************************************************)
(* Configuration. An option whose range is set stays a number in it, since *)
(* every value a range is given goes through validate, and comments are    *)
(* those of the file, whichever options its text and pieces make.          *)
(***************************************************************************)

OptionFields ==
  [value : Values \cup {C!NoText}, type : C!Types \cup {"none"}, comment : Comments,
   min : C!Bounds, max : C!Bounds, selection : DOMAIN Labels \cup {C!NoText}]

KeptOptions ==
  {o \in OptionFields :
     /\ o.type # "none" => o.value \in Values
     /\ o.min <= o.max
     /\ o.type = "CHOICE" /\ o.selection # C!NoText => Labels[o.selection] = o.value}

InRange (o) == o.type = "RANGE" /\ Number[o.value] # NaN /\ Number[o.value] \in o.min .. o.max

\* The comments of opts are those of the entries s.
Placed (opts, s) ==
  \A k \in C!Key : opts[k].comment # C!NoText =>
    \E i \in 1 .. Len (s) : s[i].key = k /\ s[i].comment = opts[k].comment

SettingsInv ==
  /\ options \in [C!Key -> KeptOptions] /\ file.entries \in Seq (C!Entry)
  /\ \A k \in C!Key : k \in ranged => InRange (options[k])
  /\ Placed (options, session)
  /\ stage # "running" => options = [k \in C!Key |-> C!NoOption] /\ ranged = {}

LEMMA BoundsAre ==
  ASSUME C!ConfigurationAssumption
  PROVE  /\ 0 \in C!Bounds /\ C!Bounds \subseteq Int
         /\ \A r \in Ranges : r[1] \in C!Bounds /\ r[2] \in C!Bounds
         /\ \A n \in C!Bounds : NumberText[n] \in Values /\ Number[NumberText[n]] = n /\ n # NaN
<1>1. Ranges \subseteq Int \X Int /\ \A n \in C!Bounds : NumberText[n] \in Values /\ Number[NumberText[n]] = n /\ n # NaN
  BY DEF C!ConfigurationAssumption
<1>2. \A r \in Ranges : r[1] \in Int /\ r[2] \in Int
  BY <1>1
<1>3. QED
  BY <1>1, <1>2 DEF C!Bounds

\* Options as they are constructed.
LEMMA NewOption ==
  ASSUME C!ConfigurationAssumption
  PROVE  /\ C!NoOption \in KeptOptions /\ C!NoOption.type = "none" /\ C!NoOption.comment = C!NoText
         /\ \A v \in Values, t \in C!Types :
              LET o == C!cfg_option (v, t)
              IN o \in KeptOptions /\ o.type = t /\ o.value = v /\ o.comment = C!NoText
<1> DEFINE zero == 0
<1>1. zero \in C!Bounds /\ zero <= zero
  BY BoundsAre
<1>2. C!NoText \in Comments
  BY DEF C!ConfigurationAssumption
<1>3. C!NoOption = [value |-> C!NoText, type |-> "none", comment |-> C!NoText, min |-> zero, max |-> zero, selection |-> C!NoText]
  BY DEF C!NoOption
<1> HIDE DEF zero
<1>4. C!NoOption \in OptionFields
  BY <1>1, <1>2, <1>3 DEF OptionFields
<1>5. C!NoOption.type = "none" /\ C!NoOption.comment = C!NoText /\ C!NoOption.min = zero /\ C!NoOption.max = zero
      /\ C!NoOption.selection = C!NoText
  BY <1>3
<1>6. C!NoOption \in KeptOptions
  BY <1>1, <1>4, <1>5 DEF KeptOptions
<1>7. ASSUME NEW v \in Values, NEW t \in C!Types
      PROVE  LET o == C!cfg_option (v, t)
             IN o \in KeptOptions /\ o.type = t /\ o.value = v /\ o.comment = C!NoText
  <2> DEFINE o == [value |-> v, type |-> t, comment |-> C!NoText, min |-> zero, max |-> zero, selection |-> C!NoText]
  <2>1. C!cfg_option (v, t) = o
    <3> DEFINE a == [C!NoOption EXCEPT !.value = v]
    <3>1. a = [value |-> v, type |-> "none", comment |-> C!NoText, min |-> zero, max |-> zero, selection |-> C!NoText]
      BY <1>3
    <3>2. C!cfg_option (v, t) = [a EXCEPT !.type = t]
      BY DEF C!cfg_option
    <3> HIDE DEF a
    <3>3. [a EXCEPT !.type = t] = o
      BY <3>1
    <3>4. QED
      BY <3>2, <3>3
  <2>2. o \in OptionFields
    BY <1>1, <1>2 DEF OptionFields
  <2>3. o.type = t /\ o.value = v /\ o.comment = C!NoText /\ o.min = zero /\ o.max = zero /\ o.selection = C!NoText
    OBVIOUS
  <2> HIDE DEF o
  <2>4. o \in KeptOptions
    BY <1>1, <2>2, <2>3 DEF KeptOptions
  <2>5. QED
    BY <2>1, <2>3, <2>4
<1>8. QED
  BY <1>5, <1>6, <1>7

\* A value that is set becomes one in the range.
LEMMA ValidateGives ==
  ASSUME C!ConfigurationAssumption, NEW o \in OptionFields, o.value \in Values, o.min <= o.max
  PROVE  LET r == C!validate (o)
         IN /\ r \in OptionFields /\ r.value \in Values /\ Number[r.value] # NaN /\ Number[r.value] \in r.min .. r.max
            /\ r.min = o.min /\ r.max = o.max /\ r.type = o.type /\ r.comment = o.comment
<1> DEFINE n == Number[o.value]
           v == IF n # NaN /\ n >= o.min /\ n <= o.max THEN o.value
                ELSE IF n # NaN /\ n > o.max THEN NumberText[o.max] ELSE NumberText[o.min]
           r == [o EXCEPT !.value = v]
<1>1. o.min \in C!Bounds /\ o.max \in C!Bounds
  BY DEF OptionFields
<1>2. n \in Int /\ o.min \in Int /\ o.max \in Int
  BY <1>1, BoundsAre DEF C!ConfigurationAssumption
<1>3. v \in Values /\ Number[v] # NaN /\ Number[v] \in o.min .. o.max
  <2>1. CASE n # NaN /\ n >= o.min /\ n <= o.max
    BY <1>2, <2>1
  <2>2. CASE ~ (n # NaN /\ n >= o.min /\ n <= o.max) /\ n # NaN /\ n > o.max
    <3>1. v = NumberText[o.max]
      BY <2>2
    <3>2. QED
      BY <1>1, <1>2, <3>1, BoundsAre
  <2>3. CASE ~ (n # NaN /\ n >= o.min /\ n <= o.max) /\ ~ (n # NaN /\ n > o.max)
    <3>1. v = NumberText[o.min]
      BY <2>3
    <3>2. QED
      BY <1>1, <1>2, <3>1, BoundsAre
  <2>4. QED
    BY <2>1, <2>2, <2>3
<1>4. C!validate (o) = r
  <2>1. [o EXCEPT !.value = o.value] = o
    BY DEF OptionFields
  <2>2. QED
    BY <2>1 DEF C!validate
<1> HIDE DEF v
<1>5. r \in OptionFields
  BY <1>3 DEF OptionFields
<1>6. r.value = v /\ r.min = o.min /\ r.max = o.max /\ r.type = o.type /\ r.comment = o.comment
  BY DEF OptionFields
<1>7. QED
  BY <1>3, <1>4, <1>5, <1>6

-----------------------------------------------------------------------------
\* What the parser knows of the entries s: options with comments of theirs.
Contexts (s) == {c \in [read : [C!Key -> KeptOptions], comment : Comments] : Placed (c.read, s)}

\* In an entry, whose comment has been read, and between two entries.
InEntry (s, e) == {c \in Contexts (s) : c.comment = C!NoText \/ c.comment = e.comment}
Between (s) == {c \in Contexts (s) : c.comment = C!NoText}

LEMMA TextRead ==
  ASSUME C!ConfigurationAssumption, NEW s, NEW i \in 1 .. Len (s), s[i] \in C!Entry,
         NEW c \in InEntry (s, s[i]), NEW text \in Values
  PROVE  C!cfg_read_characters (c, s[i].key, text) \in InEntry (s, s[i])
<1> DEFINE k == s[i].key
           o == C!cfg_option (text, "UNDEF")
           p == [o EXCEPT !.comment = c.comment]
           read == [c.read EXCEPT ![k] = p]
           r == [c EXCEPT !.read = read]
<1>1. k \in C!Key
  BY DEF C!Entry
<1>2. /\ c \in [read : [C!Key -> KeptOptions], comment : Comments] /\ Placed (c.read, s)
      /\ c.comment = C!NoText \/ c.comment = s[i].comment
  BY DEF InEntry, Contexts
<1>3. c.read \in [C!Key -> KeptOptions] /\ c.comment \in Comments
  BY <1>2
<1>4. o \in KeptOptions /\ o.type = "UNDEF" /\ o.value = text
  BY NewOption DEF C!Types
<1>5. C!cfg_read_characters (c, k, text) = r
  BY DEF C!cfg_read_characters
<1> HIDE DEF o
<1>6. p \in KeptOptions /\ p.comment = c.comment
  <2>1. o \in OptionFields /\ o.min <= o.max
    BY <1>4 DEF KeptOptions
  <2>2. p \in OptionFields /\ p.comment = c.comment
    BY <1>3, <2>1 DEF OptionFields
  <2>3. p.type = "UNDEF" /\ p.value = text /\ p.min = o.min /\ p.max = o.max
    BY <1>4, <2>1 DEF OptionFields
  <2> HIDE DEF p
  <2>4. QED
    BY <2>1, <2>2, <2>3 DEF KeptOptions
<1> HIDE DEF p
<1>7. read \in [C!Key -> KeptOptions] /\ \A j \in C!Key : read[j] = IF j = k THEN p ELSE c.read[j]
  BY <1>1, <1>3, <1>6
<1> HIDE DEF k
<1>8. Placed (read, s)
  <2> SUFFICES ASSUME NEW j \in C!Key, read[j].comment # C!NoText
               PROVE  \E n \in 1 .. Len (s) : s[n].key = j /\ s[n].comment = read[j].comment
    BY DEF Placed
  <2>1. CASE j = k
    <3>1. read[j].comment = s[i].comment /\ s[i].key = j
      BY <1>2, <1>6, <1>7, <2>1 DEF k
    <3>2. QED
      BY <3>1
  <2>2. CASE j # k
    <3>1. read[j] = c.read[j]
      BY <1>7, <2>2
    <3>2. QED
      BY <1>2, <3>1 DEF Placed
  <2>3. QED
    BY <2>1, <2>2
<1> HIDE DEF read
<1>9. r \in [read : [C!Key -> KeptOptions], comment : Comments] /\ r.read = read /\ r.comment = c.comment
  BY <1>2, <1>7
<1>10. QED
  BY <1>2, <1>5, <1>8, <1>9 DEF InEntry, Contexts, k

LEMMA EntryRead ==
  ASSUME C!ConfigurationAssumption, NEW s, NEW i \in 1 .. Len (s), s[i] \in C!Entry, NEW c \in Between (s)
  PROVE  C!ReadEntry (c, s[i]) \in Between (s)
<1> DEFINE e == s[i]
           A0 == InEntry (s, e)
           texts == Pieces[e.value]
           b == C!cfg_parse_comment (c, e.comment)
           l == Len (texts)
           F == [p \in (1 .. l) \X A0 |-> C!cfg_read_characters (p[2], e.key, texts[p[1]])]
           At (g, t) == IF t = {} THEN b ELSE C!cfg_read_characters (g[t \ {Max (t)}], e.key, texts[Max (t)])
           Step (g) == [t \in SUBSET (1 .. l) |-> At (g, t)]
           iter == CHOOSE g : g = Step (g)
           r == iter[1 .. l]
<1>1. b \in A0
  <2>1. c \in [read : [C!Key -> KeptOptions], comment : Comments] /\ Placed (c.read, s) /\ c.comment = C!NoText
    BY DEF Between, Contexts
  <2>2. e.comment \in Comments
    BY DEF C!Entry
  <2>3. CASE e.comment = C!NoText
    BY <2>1, <2>3 DEF InEntry, Contexts, C!cfg_parse_comment
  <2>4. CASE e.comment # C!NoText
    <3> DEFINE d == [c EXCEPT !.comment = e.comment]
    <3>1. b = d
      BY <2>4 DEF C!cfg_parse_comment
    <3>2. d \in [read : [C!Key -> KeptOptions], comment : Comments] /\ d.read = c.read /\ d.comment = e.comment
      BY <2>1, <2>2
    <3> HIDE DEF d
    <3>3. QED
      BY <2>1, <3>1, <3>2 DEF InEntry, Contexts
  <2>5. QED
    BY <2>3, <2>4
<1>2. l \in Nat /\ DOMAIN texts = 1 .. l /\ \A j \in 1 .. l : texts[j] \in Values
  <2>1. texts \in Seq (Values)
    BY DEF C!Entry, C!ConfigurationAssumption
  <2>2. QED
    BY <2>1, LenProperties, ElementOfSeq
<1>3. C!ReadEntry (c, e) = C!cfg_end_element (r)
  BY <1>2 DEF C!ReadEntry, C!FoldLeft, C!MapThenFoldSet, C!Max, Max
<1> HIDE DEF l, b, texts
<1>4. /\ F \in [(1 .. l) \X A0 -> A0]
      /\ \A j \in 1 .. l, d \in A0 : F[<<j, d>>] = C!cfg_read_characters (d, e.key, texts[j])
  BY <1>2, TextRead
<1> HIDE DEF F, A0
<1>5. /\ \E g \in [SUBSET (1 .. l) -> A0] : IsFold (g, l, b, F)
      /\ \A t \in SUBSET (1 .. l) : t # {} => Max (t) \in 1 .. l /\ t \ {Max (t)} \in SUBSET (1 .. l)
  BY <1>1, <1>2, <1>4, FoldGoesOn
<1>6. PICK g \in [SUBSET (1 .. l) -> A0] : IsFold (g, l, b, F)
  BY <1>5
<1>7. \A t \in SUBSET (1 .. l) : iter[t] = At (iter, t)
  <2>1. \A t \in SUBSET (1 .. l) : g[t] = At (g, t)
    BY <1>4, <1>5, <1>6 DEF IsFold
  <2> HIDE DEF At
  <2>2. g = Step (g)
    BY <2>1
  <2> HIDE DEF Step
  <2>3. iter = Step (iter)
    BY <2>2
  <2> HIDE DEF iter
  <2>4. QED
    BY <2>3 DEF Step
<1> HIDE DEF iter
<1>8. Iterates (iter, l, A0, b, F)
  BY <1>4, <1>5, <1>7 DEF Iterates
<1>9. r \in A0
  <2>1. PICK h \in [0 .. l -> A0] : h[l] = iter[1 .. l] /\ IsRun (h, l, b, F)
    BY <1>1, <1>2, <1>4, <1>8, FoldRuns
  <2>2. l \in 0 .. l
    BY <1>2
  <2>3. QED
    BY <2>1, <2>2
<1> HIDE DEF r
<1>10. C!cfg_end_element (r) \in Between (s)
  <2> DEFINE d == [r EXCEPT !.comment = C!NoText]
  <2>1. r \in [read : [C!Key -> KeptOptions], comment : Comments] /\ Placed (r.read, s)
    BY <1>9 DEF A0, InEntry, Contexts
  <2>2. C!NoText \in Comments
    BY DEF C!ConfigurationAssumption
  <2>3. d \in [read : [C!Key -> KeptOptions], comment : Comments] /\ d.read = r.read /\ d.comment = C!NoText
    BY <2>1, <2>2
  <2>4. C!cfg_end_element (r) = d
    BY DEF C!cfg_end_element
  <2> HIDE DEF d
  <2>5. QED
    BY <2>1, <2>3, <2>4 DEF Between, Contexts
<1>11. QED
  BY <1>3, <1>10

\* All entries, one after the other.
LEMMA AllRead ==
  ASSUME C!ConfigurationAssumption, NEW s \in Seq (C!Entry), NEW c \in Between (s)
  PROVE  C!FoldLeft (C!ReadEntry, c, s) \in Between (s)
<1> DEFINE A0 == Between (s)
           l == Len (s)
           F == [p \in (1 .. l) \X A0 |-> C!ReadEntry (p[2], s[p[1]])]
           At (g, t) == IF t = {} THEN c ELSE C!ReadEntry (g[t \ {Max (t)}], s[Max (t)])
           Step (g) == [t \in SUBSET (1 .. l) |-> At (g, t)]
           iter == CHOOSE g : g = Step (g)
           r == C!FoldLeft (C!ReadEntry, c, s)
<1>1. l \in Nat /\ DOMAIN s = 1 .. l /\ \A i \in 1 .. l : s[i] \in C!Entry
  BY LenProperties, ElementOfSeq
<1>2. r = iter[1 .. l]
  BY <1>1 DEF C!FoldLeft, C!MapThenFoldSet, C!Max, Max
<1>3. \A i \in 1 .. l, d \in A0 : C!ReadEntry (d, s[i]) \in A0
  BY <1>1, EntryRead
<1> HIDE DEF l, r, A0
<1>4. /\ F \in [(1 .. l) \X A0 -> A0]
      /\ \A i \in 1 .. l, d \in A0 : F[<<i, d>>] = C!ReadEntry (d, s[i])
  BY <1>1, <1>3
<1> HIDE DEF F
<1>5. c \in A0
  BY DEF A0
<1>6. /\ \E g \in [SUBSET (1 .. l) -> A0] : IsFold (g, l, c, F)
      /\ \A t \in SUBSET (1 .. l) : t # {} => Max (t) \in 1 .. l /\ t \ {Max (t)} \in SUBSET (1 .. l)
  BY <1>1, <1>4, <1>5, FoldGoesOn
<1>7. PICK g \in [SUBSET (1 .. l) -> A0] : IsFold (g, l, c, F)
  BY <1>6
<1>8. \A t \in SUBSET (1 .. l) : iter[t] = At (iter, t)
  <2>1. \A t \in SUBSET (1 .. l) : g[t] = At (g, t)
    BY <1>4, <1>6, <1>7 DEF IsFold
  <2> HIDE DEF At
  <2>2. g = Step (g)
    BY <2>1
  <2> HIDE DEF Step
  <2>3. iter = Step (iter)
    BY <2>2
  <2> HIDE DEF iter
  <2>4. QED
    BY <2>3 DEF Step
<1> HIDE DEF iter
<1>9. Iterates (iter, l, A0, c, F)
  BY <1>4, <1>6, <1>8 DEF Iterates
<1>10. PICK h \in [0 .. l -> A0] : h[l] = iter[1 .. l] /\ IsRun (h, l, c, F)
  BY <1>1, <1>4, <1>5, <1>9, FoldRuns
<1>11. h[l] \in A0
  <2>1. l \in 0 .. l
    BY <1>1
  <2>2. QED
    BY <2>1
<1>12. QED
  BY <1>2, <1>10, <1>11 DEF r, A0

\* What is written is a list of entries again.
LEMMA EntriesType ==
  ASSUME C!ConfigurationAssumption, options \in [C!Key -> KeptOptions]
  PROVE  C!Entries \in Seq (C!Entry)
<1> DEFINE A0 == Seq (C!Entry)
           l == Len (Options)
           Put (k) == k[1] \in C!get_sections (TRUE) /\ k \in C!get_options (k[1], TRUE)
           New (k) == [key |-> k, value |-> options[k].value, comment |-> options[k].comment]
           Op (w, k) == IF Put (k) THEN Append (w, New (k)) ELSE w
           F == [p \in (1 .. l) \X A0 |-> Op (p[2], Options[p[1]])]
           At (g, t) == IF t = {} THEN <<>> ELSE Op (g[t \ {Max (t)}], Options[Max (t)])
           Step (g) == [t \in SUBSET (1 .. l) |-> At (g, t)]
           iter == CHOOSE g : g = Step (g)
           r == C!Entries
<1>1. l \in Nat /\ DOMAIN Options = 1 .. l /\ \A i \in 1 .. l : Options[i] \in C!Key
  BY LenProperties, ElementOfSeq DEF C!ConfigurationAssumption
<1>2. r = iter[1 .. l]
  BY <1>1 DEF C!Entries, C!FoldLeft, C!MapThenFoldSet, C!Max, Max
<1>3. \A k \in C!Key : Put (k) => New (k) \in C!Entry
  <2> SUFFICES ASSUME NEW k \in C!Key, Put (k)
               PROVE  New (k) \in C!Entry
    OBVIOUS
  <2>1. options[k] \in KeptOptions /\ options[k].type # "none"
    BY DEF C!get_options, C!Present, C!Is
  <2>2. options[k].value \in Values /\ options[k].comment \in Comments
    BY <2>1 DEF KeptOptions, OptionFields
  <2>3. QED
    BY <2>2 DEF C!Entry
<1> HIDE DEF Put, New, l, r
<1>4. \A i \in 1 .. l, d \in A0 : Op (d, Options[i]) \in A0
  BY <1>1, <1>3, AppendProperties
<1>5. <<>> \in A0
  BY EmptySeq
<1> HIDE DEF A0, Op
<1>6. /\ F \in [(1 .. l) \X A0 -> A0]
      /\ \A i \in 1 .. l, d \in A0 : F[<<i, d>>] = Op (d, Options[i])
  BY <1>4
<1> HIDE DEF F
<1>7. /\ \E g \in [SUBSET (1 .. l) -> A0] : IsFold (g, l, <<>>, F)
      /\ \A t \in SUBSET (1 .. l) : t # {} => Max (t) \in 1 .. l /\ t \ {Max (t)} \in SUBSET (1 .. l)
  BY <1>1, <1>5, <1>6, FoldGoesOn
<1>8. PICK g \in [SUBSET (1 .. l) -> A0] : IsFold (g, l, <<>>, F)
  BY <1>7
<1>9. \A t \in SUBSET (1 .. l) : iter[t] = At (iter, t)
  <2>1. \A t \in SUBSET (1 .. l) : g[t] = At (g, t)
    BY <1>6, <1>7, <1>8 DEF IsFold
  <2> HIDE DEF At
  <2>2. g = Step (g)
    BY <2>1
  <2> HIDE DEF Step
  <2>3. iter = Step (iter)
    BY <2>2
  <2> HIDE DEF iter
  <2>4. QED
    BY <2>3 DEF Step
<1> HIDE DEF iter
<1>10. Iterates (iter, l, A0, <<>>, F)
  BY <1>6, <1>7, <1>9 DEF Iterates
<1>11. PICK h \in [0 .. l -> A0] : h[l] = iter[1 .. l] /\ IsRun (h, l, <<>>, F)
  BY <1>1, <1>5, <1>6, <1>10, FoldRuns
<1>12. h[l] \in A0
  <2>1. l \in 0 .. l
    BY <1>1
  <2>2. QED
    BY <2>1
<1>13. QED
  BY <1>2, <1>11, <1>12 DEF r, A0

-----------------------------------------------------------------------------
\* One option is changed while the program runs.
LEMMA OptionSet ==
  ASSUME SettingsInv, stage = "running", NEW k \in C!Key, NEW o \in KeptOptions,
         o.comment = C!NoText \/ o.comment = options[k].comment,
         C!Set (k, o), UNCHANGED <<file, stage, session>>,
         \A j \in C!Key : j \in ranged' => IF j = k THEN InRange (o) ELSE j \in ranged
  PROVE  SettingsInv'
<1>1. options \in [C!Key -> KeptOptions] /\ options' = [options EXCEPT ![k] = o]
  BY DEF SettingsInv, C!Set
<1>2. options' \in [C!Key -> KeptOptions] /\ \A j \in C!Key : options'[j] = IF j = k THEN o ELSE options[j]
  BY <1>1
<1>3. Placed (options', session)
  BY <1>2 DEF SettingsInv, Placed
<1>4. \A j \in C!Key : j \in ranged' => InRange (options'[j])
  BY <1>2 DEF SettingsInv
<1>5. QED
  BY <1>2, <1>3, <1>4 DEF SettingsInv

LEMMA OptionIs ==
  ASSUME SettingsInv, NEW k \in C!Key
  PROVE  /\ options[k] \in KeptOptions /\ options[k] \in OptionFields
         /\ options[k].type # "none" => options[k].value \in Values
         /\ options[k].min <= options[k].max
         /\ k \in ranged => options[k].type = "RANGE" /\ Number[options[k].value] # NaN
BY DEF SettingsInv, KeptOptions, InRange

LEMMA AskedKeeps ==
  ASSUME C!ConfigurationAssumption, SettingsInv, NEW k \in C!Key, NEW v \in Values,
         stage = "running", C!Set (k, C!cfg_option (v, "UNDEF")), UNCHANGED <<file, stage, ranged, session>>,
         options[k].type = "none" \/ Number[options[k].value] = NaN
  PROVE  SettingsInv'
<1> DEFINE o == C!cfg_option (v, "UNDEF")
<1>1. o \in KeptOptions /\ o.comment = C!NoText
  BY NewOption DEF C!Types
<1>2. k \notin ranged
  BY OptionIs
<1> HIDE DEF o
<1>3. C!Set (k, o)
  BY DEF o
<1>4. QED
  BY <1>1, <1>2, <1>3, OptionSet

LEMMA TypedKeeps ==
  ASSUME C!ConfigurationAssumption, SettingsInv, NEW k \in C!Key, NEW t \in C!Types \ {"UNDEF"}, C!Typed (k, t)
  PROVE  SettingsInv'
<1> DEFINE o == options[k]
           r == C!option (o, t)
<1>1. /\ stage = "running" /\ o.type # "none" /\ C!Set (k, r) /\ UNCHANGED <<file, stage, session>>
      /\ ranged' = IF r = o THEN ranged ELSE ranged \ {k}
  BY DEF C!Typed, C!Running, C!Is
<1>2. o \in KeptOptions /\ o.value \in Values
  BY <1>1, OptionIs
<1>3. CASE r = o
  <2>1. k \in ranged => InRange (o)
    BY DEF SettingsInv
  <2> HIDE DEF o, r
  <2>2. o.comment = options[k].comment
    BY DEF o
  <2>3. QED
    BY <1>1, <1>2, <1>3, <2>1, <2>2, OptionSet
<1>4. CASE r # o
  <2>1. r = C!cfg_option (o.value, t)
    BY <1>4 DEF C!option
  <2>2. r \in KeptOptions /\ r.comment = C!NoText
    BY <1>2, <2>1, NewOption
  <2> HIDE DEF o, r
  <2>3. QED
    BY <1>1, <1>4, <2>2, OptionSet
<1>5. QED
  BY <1>3, <1>4

LEMMA SetRangeKeeps ==
  ASSUME C!ConfigurationAssumption, SettingsInv, NEW k \in C!Key, NEW x \in Ranges, C!SetRange (k, x[1], x[2])
  PROVE  SettingsInv'
<1> DEFINE o == options[k]
           a == C!Smaller (x[1], x[2])
           b == C!Larger (x[1], x[2])
           d == [o EXCEPT !.min = a, !.max = b]
           r == C!validate (d)
<1>1. /\ stage = "running" /\ o.type = "RANGE" /\ C!Set (k, r) /\ UNCHANGED <<file, stage, session>>
      /\ ranged' = ranged \cup {k}
  BY DEF C!SetRange, C!Running, C!set_range
<1>2. o \in OptionFields /\ o.value \in Values
  BY <1>1, OptionIs
<1>3. a \in C!Bounds /\ b \in C!Bounds /\ a <= b
  <2>1. x[1] \in C!Bounds /\ x[2] \in C!Bounds /\ x[1] \in Int /\ x[2] \in Int
    BY BoundsAre
  <2>2. QED
    BY <2>1 DEF C!Smaller, C!Larger
<1> HIDE DEF a, b
<1>4. d \in OptionFields /\ d.value = o.value /\ d.min = a /\ d.max = b /\ d.type = o.type /\ d.comment = o.comment
  BY <1>2, <1>3 DEF OptionFields
<1> HIDE DEF d
<1>5. /\ r \in OptionFields /\ r.value \in Values /\ Number[r.value] # NaN /\ Number[r.value] \in r.min .. r.max
      /\ r.min = a /\ r.max = b /\ r.type = "RANGE" /\ r.comment = o.comment
  BY <1>1, <1>2, <1>3, <1>4, ValidateGives
<1> HIDE DEF r
<1>6. r \in KeptOptions /\ InRange (r)
  BY <1>3, <1>5 DEF KeptOptions, InRange
<1>7. QED
  BY <1>1, <1>5, <1>6, OptionSet

LEMMA SetValueKeeps ==
  ASSUME C!ConfigurationAssumption, SettingsInv, NEW k \in C!Key, NEW v \in Given, C!SetValue (k, v)
  PROVE  SettingsInv'
<1> DEFINE o == options[k]
           d == [o EXCEPT !.value = v]
           r == IF o.type = "RANGE" THEN C!validate (d) ELSE d
<1>1. /\ stage = "running" /\ o.type # "none" /\ o.type # "CHOICE" /\ C!Set (k, r)
      /\ UNCHANGED <<file, stage, ranged, session>>
  BY DEF C!SetValue, C!Running, C!set_value, C!Assigned, C!Is
<1>2. o \in OptionFields /\ o.min <= o.max /\ v \in Values /\ (k \in ranged => o.type = "RANGE")
  BY OptionIs DEF C!ConfigurationAssumption
<1>3. d \in OptionFields /\ d.value = v /\ d.min = o.min /\ d.max = o.max /\ d.type = o.type /\ d.comment = o.comment
  BY <1>2 DEF OptionFields
<1> HIDE DEF d
<1>4. r \in KeptOptions /\ r.comment = o.comment /\ (k \in ranged => InRange (r))
  <2>1. CASE o.type # "RANGE"
    BY <1>1, <1>2, <1>3, <2>1 DEF KeptOptions
  <2>2. CASE o.type = "RANGE"
    <3> DEFINE e == C!validate (d)
    <3>1. /\ e \in OptionFields /\ e.value \in Values /\ Number[e.value] # NaN /\ Number[e.value] \in e.min .. e.max
          /\ e.min = d.min /\ e.max = d.max /\ e.type = d.type /\ e.comment = d.comment
      BY <1>2, <1>3, ValidateGives
    <3> HIDE DEF e
    <3>2. e \in KeptOptions /\ InRange (e)
      BY <1>2, <1>3, <2>2, <3>1 DEF KeptOptions, InRange
    <3>3. QED
      BY <1>3, <2>2, <3>1, <3>2 DEF e
  <2>3. QED
    BY <2>1, <2>2
<1> HIDE DEF r
<1>5. QED
  BY <1>1, <1>4, OptionSet

\* A label that is selected, by name or by the value it stands for.
LEMMA SelectKeeps ==
  ASSUME C!ConfigurationAssumption, SettingsInv, NEW k \in C!Key, NEW l \in DOMAIN Labels, C!Select (k, l)
  PROVE  SettingsInv'
<1> DEFINE o == options[k]
           v == Labels[l]
           r == [o EXCEPT !.value = v, !.selection = l]
<1>1. stage = "running" /\ o.type = "CHOICE" /\ C!Set (k, r) /\ UNCHANGED <<file, stage, ranged, session>>
  BY DEF C!Select, C!Running, C!select
<1>2. o \in OptionFields /\ o.min <= o.max /\ k \notin ranged /\ v \in Values
  BY <1>1, OptionIs DEF C!ConfigurationAssumption
<1>3. /\ r \in OptionFields /\ r.value = v /\ r.selection = l
      /\ r.min = o.min /\ r.max = o.max /\ r.comment = o.comment
  BY <1>2 DEF OptionFields
<1> HIDE DEF r
<1>4. r \in KeptOptions
  BY <1>2, <1>3 DEF KeptOptions
<1>5. QED
  BY <1>1, <1>2, <1>3, <1>4, OptionSet

LEMMA AddChoicesKeeps ==
  ASSUME C!ConfigurationAssumption, SettingsInv, NEW k \in C!Key, C!AddChoices (k)
  PROVE  SettingsInv'
<1> DEFINE o == options[k]
           fits == {l \in DOMAIN Labels : Labels[l] = o.value}
           l == IF fits = {} THEN o.selection ELSE CHOOSE x \in fits : TRUE
           r == [o EXCEPT !.selection = l]
<1>1. stage = "running" /\ o.type = "CHOICE" /\ C!Set (k, r) /\ UNCHANGED <<file, stage, ranged, session>>
  BY DEF C!AddChoices, C!Running, C!add_choices
<1>2. /\ o \in OptionFields /\ o \in KeptOptions /\ o.min <= o.max /\ k \notin ranged /\ o.value \in Values
      /\ o.selection # C!NoText => Labels[o.selection] = o.value
  BY <1>1, OptionIs DEF KeptOptions
<1>3. l \in DOMAIN Labels \cup {C!NoText} /\ (l # C!NoText => Labels[l] = o.value)
  <2>1. CASE fits = {}
    BY <1>2, <2>1 DEF OptionFields
  <2>2. CASE fits # {}
    <3>1. l \in fits
      BY <2>2
    <3>2. QED
      BY <3>1
  <2>3. QED
    BY <2>1, <2>2
<1> HIDE DEF l
<1>4. /\ r \in OptionFields /\ r.value = o.value /\ r.selection = l
      /\ r.min = o.min /\ r.max = o.max /\ r.comment = o.comment
  BY <1>2, <1>3 DEF OptionFields
<1> HIDE DEF r
<1>5. r \in KeptOptions
  BY <1>2, <1>3, <1>4 DEF KeptOptions
<1>6. QED
  BY <1>1, <1>2, <1>4, <1>5, OptionSet

LEMMA RemoveKeeps ==
  ASSUME C!ConfigurationAssumption, SettingsInv, NEW k \in C!Key, C!RemoveOption (k)
  PROVE  SettingsInv'
<1>1. /\ stage = "running" /\ C!Set (k, C!NoOption) /\ UNCHANGED <<file, stage, session>> /\ ranged' = ranged \ {k}
  BY DEF C!RemoveOption, C!Running
<1>2. C!NoOption \in KeptOptions /\ C!NoOption.comment = C!NoText
  BY NewOption
<1>3. QED
  BY <1>1, <1>2, OptionSet

LEMMA NothingPlaced ==
  ASSUME C!ConfigurationAssumption, NEW s
  PROVE  Placed ([k \in C!Key |-> C!NoOption], s) /\ [k \in C!Key |-> C!NoOption] \in [C!Key -> KeptOptions]
BY NewOption DEF Placed

LEMMA ReadKeeps ==
  ASSUME C!ConfigurationAssumption, SettingsInv, C!Read
  PROVE  SettingsInv'
<1> DEFINE s == file.entries
           c == C!Context (options)
           r == C!FoldLeft (C!ReadEntry, c, s)
<1>1. options' = r.read /\ session' = s /\ stage = "start" /\ stage' = "running" /\ UNCHANGED <<file, ranged>>
  BY DEF C!Read
<1>2. s \in Seq (C!Entry) /\ options = [k \in C!Key |-> C!NoOption] /\ ranged = {}
  BY <1>1 DEF SettingsInv
<1> HIDE DEF s
<1>3. c \in Between (s)
  <2>1. Placed (options, s) /\ options \in [C!Key -> KeptOptions]
    BY <1>2, NothingPlaced
  <2>2. C!NoText \in Comments
    BY DEF C!ConfigurationAssumption
  <2>3. c = [read |-> options, comment |-> C!NoText]
    BY DEF C!Context
  <2> HIDE DEF c
  <2>4. c \in [read : [C!Key -> KeptOptions], comment : Comments] /\ c.read = options /\ c.comment = C!NoText
    BY <2>1, <2>2, <2>3
  <2>5. QED
    BY <2>1, <2>4 DEF Between, Contexts
<1> HIDE DEF c
<1>4. r \in Between (s)
  BY <1>2, <1>3, AllRead
<1> HIDE DEF r
<1>5. r.read \in [C!Key -> KeptOptions] /\ Placed (r.read, s)
  BY <1>4 DEF Between, Contexts
<1>6. file'.entries \in Seq (C!Entry) /\ ranged' = {}
  BY <1>1, <1>2 DEF s
<1>7. QED
  BY <1>1, <1>5, <1>6 DEF SettingsInv

\* The end of the program, with a file that holds entries.
LEMMA OverKeeps ==
  ASSUME C!ConfigurationAssumption, C!Over, file'.entries \in Seq (C!Entry)
  PROVE  SettingsInv'
<1>1. /\ options' = [k \in C!Key |-> C!NoOption] /\ stage' = "over" /\ ranged' = {} /\ session' = <<>>
  BY DEF C!Over
<1>2. Placed (options', session') /\ options' \in [C!Key -> KeptOptions]
  BY <1>1, NothingPlaced
<1>3. QED
  BY <1>1, <1>2 DEF SettingsInv

LEMMA QuitKeeps ==
  ASSUME C!ConfigurationAssumption, SettingsInv, C!Quit
  PROVE  SettingsInv'
<1>1. file' = C!write /\ C!Over
  BY DEF C!Quit
<1>2. C!Entries \in Seq (C!Entry) /\ file.entries \in Seq (C!Entry)
  BY EntriesType DEF SettingsInv
<1>3. file'.entries \in Seq (C!Entry)
  BY <1>1, <1>2 DEF C!write, C!WriteAlways
<1>4. QED
  BY <1>1, <1>3, OverKeeps

LEMMA KilledKeeps ==
  ASSUME C!ConfigurationAssumption, SettingsInv, C!KilledWriting
  PROVE  SettingsInv'
<1>1. C!Over
  BY DEF C!KilledWriting
<1>2. PICK n \in 0 .. Len (C!Entries) - 1 : file' = [there |-> TRUE, entries |-> SubSeq (C!Entries, 1, n), whole |-> FALSE]
  BY DEF C!KilledWriting
<1>3. C!Entries \in Seq (C!Entry)
  BY EntriesType DEF SettingsInv
<1> DEFINE e == C!Entries
<1>4. e \in Seq (C!Entry) /\ Len (e) \in Nat /\ n \in 0 .. Len (e) - 1
  BY <1>2, <1>3, LenProperties
<1> HIDE DEF e
<1>5. SubSeq (e, 1, n) \in Seq (C!Entry)
  <2>1. n <= Len (e) /\ 1 \in 1 .. Len (e) + 1 /\ n \in 1 - 1 .. Len (e)
    BY <1>4
  <2>2. QED
    BY <1>4, <2>1, SubSeqProperties
<1>6. file'.entries \in Seq (C!Entry)
  BY <1>2, <1>5 DEF e
<1>7. QED
  BY <1>1, <1>6, OverKeeps

LEMMA SettingsInvKept ==
  ASSUME C!ConfigurationAssumption, SettingsInv, C!Next
  PROVE  SettingsInv'
<1>1. CASE C!Read
  BY <1>1, ReadKeeps
<1>2. ASSUME NEW k \in C!Key, NEW r \in Ranges, C!get_int (k, r[1])
      PROVE  SettingsInv'
  <2>1. stage = "running" /\ UNCHANGED <<file, stage, ranged, session>> /\ NumberText[r[1]] \in Values
    BY <1>2, BoundsAre DEF C!get_int, C!Running
  <2>2. CASE C!Is (options[k]) /\ Number[options[k].value] # NaN
    <3>1. UNCHANGED options
      BY <1>2, <2>2 DEF C!get_int
    <3>2. QED
      BY <2>1, <3>1 DEF SettingsInv, Placed
  <2>3. CASE ~ (C!Is (options[k]) /\ Number[options[k].value] # NaN)
    <3>1. C!Set (k, C!cfg_option (NumberText[r[1]], "UNDEF"))
      BY <1>2, <2>3 DEF C!get_int, C!add_option
    <3>2. options[k].type = "none" \/ Number[options[k].value] = NaN
      BY <2>3 DEF C!Is
    <3>3. QED
      BY <2>1, <3>1, <3>2, AskedKeeps
  <2>4. QED
    BY <2>2, <2>3
<1>3. ASSUME NEW k \in C!Key, NEW v \in Given, C!get_string (k, v)
      PROVE  SettingsInv'
  <2>1. stage = "running" /\ UNCHANGED <<file, stage, ranged, session>> /\ v \in Values
    BY <1>3 DEF C!get_string, C!Running, C!ConfigurationAssumption
  <2>2. CASE C!Is (options[k])
    <3>1. UNCHANGED options
      BY <1>3, <2>2 DEF C!get_string
    <3>2. QED
      BY <2>1, <3>1 DEF SettingsInv, Placed
  <2>3. CASE ~ C!Is (options[k])
    <3>1. C!Set (k, C!cfg_option (v, "UNDEF"))
      BY <1>3, <2>3 DEF C!get_string, C!add_option
    <3>2. QED
      BY <2>1, <2>3, <3>1, AskedKeeps DEF C!Is
  <2>4. QED
    BY <2>2, <2>3
<1>4. ASSUME NEW k \in C!Key, NEW t \in C!Types \ {"UNDEF"}, C!Typed (k, t)
      PROVE  SettingsInv'
  BY <1>4, TypedKeeps
<1>5. ASSUME NEW k \in C!Key, NEW r \in Ranges, C!SetRange (k, r[1], r[2])
      PROVE  SettingsInv'
  BY <1>5, SetRangeKeeps
<1>6. ASSUME NEW k \in C!Key, C!AddChoices (k)
      PROVE  SettingsInv'
  BY <1>6, AddChoicesKeeps
<1>7. ASSUME NEW k \in C!Key, NEW l \in DOMAIN Labels, C!Select (k, l)
      PROVE  SettingsInv'
  BY <1>7, SelectKeeps
<1>8. ASSUME NEW k \in C!Key, NEW v \in Given, C!SetValue (k, v)
      PROVE  SettingsInv'
  BY <1>8, SetValueKeeps
<1>9. ASSUME NEW k \in C!Key, C!RemoveOption (k)
      PROVE  SettingsInv'
  BY <1>9, RemoveKeeps
<1>10. CASE C!Quit
  BY <1>10, QuitKeeps
<1>11. CASE C!KilledWriting
  BY <1>11, KilledKeeps
<1>12. CASE C!Restart
  <2>1. stage = "over" /\ UNCHANGED <<options, file, ranged, session>>
    BY <1>12 DEF C!Restart
  <2>2. QED
    BY <2>1 DEF SettingsInv, Placed
<1>13. QED
  BY <1>1, <1>2, <1>3, <1>4, <1>5, <1>6, <1>7, <1>8, <1>9, <1>10, <1>11, <1>12 DEF C!Next

LEMMA SettingsStart ==
  ASSUME C!ConfigurationAssumption, C!Init
  PROVE  SettingsInv
<1>1. /\ options = [k \in C!Key |-> C!NoOption] /\ ranged = {} /\ stage = "start"
      /\ file \in {C!NoFile} \cup FirstFiles
  BY DEF C!Init
<1>2. file.entries \in Seq (C!Entry)
  <2>1. C!NoFile.entries \in Seq (C!Entry)
    BY EmptySeq DEF C!NoFile
  <2>2. QED
    BY <1>1, <2>1 DEF C!ConfigurationAssumption
<1>3. Placed (options, session) /\ options \in [C!Key -> KeptOptions]
  BY <1>1, NothingPlaced
<1>4. QED
  BY <1>1, <1>2, <1>3 DEF SettingsInv

\* Before the file is read there are no options, and without one nothing is written.
LEMMA StartWritesNothing ==
  ASSUME C!ConfigurationAssumption, SettingsInv, C!Next, stage = "start"
  PROVE  UNCHANGED file
<1>1. options = [k \in C!Key |-> C!NoOption]
  BY DEF SettingsInv
<1>2. \A k \in C!Key : options[k].type = "none"
  BY <1>1, NewOption
<1>3. C!Empty
  BY <1>2 DEF C!Empty, C!get_sections, C!Present, C!Is
<1>4. CASE C!Read
  BY <1>4 DEF C!Read
<1>5. CASE C!Quit
  BY <1>3, <1>5 DEF C!Quit, C!write
<1>6. QED
  BY <1>4, <1>5 DEF C!Next, C!get_int, C!get_string, C!Typed, C!SetRange, C!AddChoices, C!Select, C!SetValue,
       C!RemoveOption, C!KilledWriting, C!Restart, C!Running

LEMMA SettingsAgree ==
  ASSUME C!ConfigurationAssumption, SettingsInv
  PROVE  C!SettingsValid /\ C!CommentsInPlace
<1>1. C!CommentsInPlace
  BY DEF SettingsInv, Placed, C!CommentsInPlace
<1>2. ASSUME NEW k \in C!Key
      PROVE  /\ k \in ranged => LET n == Number[options[k].value] IN n # NaN /\ n \in options[k].min .. options[k].max
             /\ options[k].type = "CHOICE" /\ options[k].selection # C!NoText =>
                  Labels[options[k].selection] = options[k].value
  <2>1. options[k] \in KeptOptions /\ (k \in ranged => InRange (options[k]))
    BY DEF SettingsInv
  <2>2. QED
    BY <2>1 DEF KeptOptions, InRange
<1>3. QED
  BY <1>1, <1>2 DEF C!SettingsValid

\* SettingsKept for any options, texts, files and ranges: in whatever order
\* settings are read from files that break off, asked for, typed, given a
\* range and changed, those with a range stay in it, labels stand for their
\* values, comments stay in place, and a start that fails leaves the file.
THEOREM SettingsAlwaysKept == Spec => SettingsKept
<1> DEFINE Inv == scene = "configuration" => SettingsInv
           Started == stage = "start" => UNCHANGED file
<1> USE ConfigurationAssumption
<1>1. Init => Inv
  BY SettingsStart DEF Init
<1>2. Inv /\ [Next]_vars => Inv'
  <2> SUFFICES ASSUME Inv, [Next]_vars, scene' = "configuration"
               PROVE  SettingsInv'
    OBVIOUS
  <2>1. CASE ConfigurationStep
    <3>1. scene = "configuration" /\ C!Next
      BY <2>1 DEF ConfigurationStep
    <3>2. SettingsInv
      BY <3>1
    <3>3. QED
      BY <3>1, <3>2, SettingsInvKept
  <2>2. CASE scene' = scene /\ UNCHANGED configurationVars
    <3>1. SettingsInv
      BY <2>2
    <3>2. QED
      BY <2>2, <3>1 DEF SettingsInv, Placed, configurationVars
  <2>3. QED
    BY <2>1, <2>2 DEF Next, vars, SavedGamesStep, ApplicationStep, SoundsStep, InputDevicesStep, SpritesStep
<1>3. Inv => (scene = "configuration" => C!SettingsValid /\ C!CommentsInPlace)
  BY SettingsAgree
<1>4. Inv /\ [Next]_vars => [Started]_C!cfgVars
  <2> SUFFICES ASSUME Inv, [Next]_vars, stage = "start"
               PROVE  UNCHANGED file \/ UNCHANGED C!cfgVars
    OBVIOUS
  <2>1. CASE ConfigurationStep
    <3>1. scene = "configuration" /\ C!Next
      BY <2>1 DEF ConfigurationStep
    <3>2. SettingsInv
      BY <3>1
    <3>3. QED
      BY <3>1, <3>2, StartWritesNothing
  <2>2. CASE UNCHANGED configurationVars
    BY <2>2 DEF configurationVars
  <2>3. QED
    BY <2>1, <2>2 DEF Next, vars, SavedGamesStep, ApplicationStep, SoundsStep, InputDevicesStep, SpritesStep
<1>5. QED
  BY <1>1, <1>2, <1>3, <1>4, PTL DEF Spec, SettingsKept, C!NotOverridden
=============================================================================
