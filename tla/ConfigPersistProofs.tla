------------------------- MODULE ConfigPersistProofs -------------------------
(* What is saved, for any texts, commands and number of runners.            *)
EXTENDS ConfigPersist, TLAPS, SequenceTheorems, FiniteSetTheorems, WellFoundedInduction

-----------------------------------------------------------------------------
(* Natural numbers.                                                        *)

LEMMA NatSubsets ==
  ASSUME NEW T \in SUBSET Nat, 0 \in T, \A n \in T : n + 1 \in T
  PROVE  T = Nat
<1> DEFINE R == OpToRel(<, Nat)
<1>1. SUFFICES ASSUME Nat \ T # {} PROVE FALSE
  OBVIOUS
<1>2. PICK m \in Nat \ T : \A n \in Nat \ T : ~ (<<n, m>> \in R)
  <2>1. IsWellFoundedOn(R, Nat)
    BY NatLessThanWellFounded
  <2> HIDE DEF R
  <2>2. QED  BY <1>1, <2>1, WFMin
<1>3. m # 0 /\ m - 1 \in Nat /\ m - 1 < m
  OBVIOUS
<1>4. m - 1 \notin T
  BY <1>3
<1>5. <<m - 1, m>> \in R
  BY <1>3 DEF OpToRel
<1>6. QED  BY <1>2, <1>3, <1>4, <1>5

LEMMA MaxIsGreatest ==
  ASSUME NEW n \in Nat, NEW S \in SUBSET (1..n), S # {}
  PROVE  Max(S) \in S /\ \A i \in S : i <= Max(S)
<1> DEFINE T == {m \in Nat : \A U \in SUBSET (1..m) : U # {} => \E x \in U : \A i \in U : i <= x}
<1>1. 0 \in T
  <2>1. 1..0 = {}
    OBVIOUS
  <2>2. QED  BY <2>1
<1>2. ASSUME NEW m \in T PROVE m + 1 \in T
  <2>1. m \in Nat /\ \A U \in SUBSET (1..m) : U # {} => \E x \in U : \A i \in U : i <= x
    OBVIOUS
  <2> HIDE DEF T
  <2>2. ASSUME NEW U \in SUBSET (1..m + 1), U # {}
        PROVE  \E x \in U : \A i \in U : i <= x
    <3>1. CASE m + 1 \in U
      BY <2>1, <3>1
    <3>2. CASE m + 1 \notin U
      <4>1. U \in SUBSET (1..m)
        BY <2>1, <3>2
      <4>2. QED  BY <2>1, <2>2, <4>1
    <3>3. QED  BY <3>1, <3>2
  <2>3. QED  BY <2>1, <2>2 DEF T
<1>3. T = Nat
  <2> HIDE DEF T
  <2>1. T \subseteq Nat
    BY DEF T
  <2>2. QED  BY <1>1, <1>2, <2>1, NatSubsets
<1>4. \E x \in S : \A i \in S : i <= x
  BY <1>3
<1>5. QED  BY <1>4 DEF Max

LEMMA MinIsLeast ==
  ASSUME NEW n \in Nat, NEW S \in SUBSET (1..n), S # {}
  PROVE  Min(S) \in S /\ \A i \in S : Min(S) <= i
<1> DEFINE T == {m \in Nat : \A U \in SUBSET (1..m) : U # {} => \E x \in U : \A i \in U : x <= i}
<1>1. 0 \in T
  <2>1. 1..0 = {}
    OBVIOUS
  <2>2. QED  BY <2>1
<1>2. ASSUME NEW m \in T PROVE m + 1 \in T
  <2>1. m \in Nat /\ \A U \in SUBSET (1..m) : U # {} => \E x \in U : \A i \in U : x <= i
    OBVIOUS
  <2> HIDE DEF T
  <2>2. ASSUME NEW U \in SUBSET (1..m + 1), U # {}
        PROVE  \E x \in U : \A i \in U : x <= i
    <3> DEFINE V == U \ {m + 1}
    <3>1. V \in SUBSET (1..m)
      BY <2>1
    <3>2. CASE V = {}
      BY <2>1, <2>2, <3>2
    <3>3. CASE V # {}
      <4>1. PICK x \in V : \A i \in V : x <= i
        BY <2>1, <3>1, <3>3
      <4>2. x <= m + 1
        BY <2>1, <3>1
      <4>3. QED  BY <4>1, <4>2
    <3>4. QED  BY <3>2, <3>3
  <2>3. QED  BY <2>1, <2>2 DEF T
<1>3. T = Nat
  <2> HIDE DEF T
  <2>1. T \subseteq Nat
    BY DEF T
  <2>2. QED  BY <1>1, <1>2, <2>1, NatSubsets
<1>4. \E x \in S : \A i \in S : x <= i
  BY <1>3
<1>5. QED  BY <1>4 DEF Min

-----------------------------------------------------------------------------
(* The last line of some kind.                                             *)

\* it, if there is one among the first n
LastTo(lines, n, K) ==
  {lines[j] : j \in {j \in 1..n : lines[j] \in K /\ \A i \in j + 1..n : lines[i] \notin K}}
LastIn(lines, K) == LastTo(lines, Len(lines), K)

OfKey(k) == {line \in Lines : line.key = k}
Plain == {line \in OfKey("color") : line.value # AutoColor}

LEMMA LastToStep ==
  ASSUME NEW lines, NEW n \in Nat, NEW K
  PROVE  /\ n = 0 => LastTo(lines, n, K) = {}
         /\ n # 0 /\ lines[n] \in K => LastTo(lines, n, K) = {lines[n]}
         /\ n # 0 /\ lines[n] \notin K => LastTo(lines, n, K) = LastTo(lines, n - 1, K)
<1> DEFINE J(m) == {j \in 1..m : lines[j] \in K /\ \A i \in j + 1..m : lines[i] \notin K}
<1>1. CASE n = 0
  BY <1>1 DEF LastTo
<1>2. CASE n # 0 /\ lines[n] \in K
  <2>1. J(n) = {n}
    BY <1>2
  <2>2. QED  BY <1>2, <2>1 DEF LastTo
<1>3. CASE n # 0 /\ lines[n] \notin K
  <2>1. J(n) = J(n - 1)
    BY <1>3
  <2>2. QED  BY <1>3, <2>1 DEF LastTo
<1>4. QED  BY <1>1, <1>2, <1>3

LEMMA LastToNext ==
  ASSUME NEW lines, NEW n \in Nat, NEW K
  PROVE  LastTo(lines, n + 1, K) = IF lines[n + 1] \in K THEN {lines[n + 1]} ELSE LastTo(lines, n, K)
<1> DEFINE k == n + 1
<1>1. k \in Nat /\ k # 0 /\ k - 1 = n
  OBVIOUS
<1> HIDE DEF k
<1>2. LastTo(lines, k, K) = IF lines[k] \in K THEN {lines[k]} ELSE LastTo(lines, k - 1, K)
  BY <1>1, LastToStep
<1>3. QED  BY <1>1, <1>2 DEF k

\* ... and how the model finds it
LEMMA LastIsMax ==
  ASSUME NEW lines \in Seq(Lines), NEW K,
         NEW J, J = {j \in DOMAIN lines : lines[j] \in K}
  PROVE  /\ J = {} <=> LastIn(lines, K) = {}
         /\ J # {} => LastIn(lines, K) = {lines[Max(J)]}
<1>1. Len(lines) \in Nat /\ DOMAIN lines = 1..Len(lines)
  OBVIOUS
<1>2. CASE J = {}
  BY <1>1, <1>2 DEF LastIn, LastTo
<1>3. CASE J # {}
  <2> DEFINE m == Max(J)
             I == {j \in 1..Len(lines) : lines[j] \in K /\ \A i \in j + 1..Len(lines) : lines[i] \notin K}
  <2>1. m \in J /\ \A i \in J : i <= m
    BY <1>1, <1>3, MaxIsGreatest
  <2> HIDE DEF m
  <2>2. I = {m}
    BY <1>1, <2>1
  <2>3. LastIn(lines, K) = {lines[j] : j \in I}
    BY DEF LastIn, LastTo
  <2> HIDE DEF I
  <2>4. QED  BY <1>3, <2>2, <2>3 DEF m
<1>4. QED  BY <1>2, <1>3

LEMMA LastOfAppend ==
  ASSUME NEW S, NEW lines \in Seq(S), NEW x \in S, NEW K
  PROVE  LastIn(Append(lines, x), K) = IF x \in K THEN {x} ELSE LastIn(lines, K)
<1> DEFINE n == Len(lines)
           app == Append(lines, x)
<1>1. n \in Nat /\ Len(app) = n + 1 /\ app[n + 1] = x /\ \A i \in 1..n : app[i] = lines[i]
  BY AppendProperties
<1>2. LastTo(app, n, K) = LastTo(lines, n, K)
  BY <1>1 DEF LastTo
<1> HIDE DEF n, app
<1>3. LastTo(app, n + 1, K) = IF app[n + 1] \in K THEN {app[n + 1]} ELSE LastTo(app, n, K)
  BY <1>1, LastToNext
<1>4. QED  BY <1>1, <1>2, <1>3 DEF LastIn, n, app

LEMMA LastOfConcat ==
  ASSUME NEW S, NEW l \in Seq(S), NEW m \in Seq(S), NEW K
  PROVE  LastIn(l \o m, K) = IF LastIn(m, K) # {} THEN LastIn(m, K) ELSE LastIn(l, K)
<1> DEFINE a == Len(l)
           b == Len(m)
           c == l \o m
           T == {n \in Nat : n <= b => LastTo(c, a + n, K) =
                               IF LastTo(m, n, K) # {} THEN LastTo(m, n, K) ELSE LastTo(l, a, K)}
<1>1. /\ a \in Nat /\ b \in Nat /\ Len(c) = a + b
      /\ \A i \in 1..a : c[i] = l[i]
      /\ \A i \in 1..b : c[a + i] = m[i]
  BY ConcatProperties, LenProperties
<1> HIDE DEF a, b, c
<1>2. 0 \in T
  <2>1. LastTo(c, a, K) = LastTo(l, a, K)
    BY <1>1 DEF LastTo
  <2>2. LastTo(m, 0, K) = {}
    BY LastToStep
  <2>3. a + 0 = a
    BY <1>1
  <2>4. QED  BY <2>1, <2>2, <2>3
<1>3. ASSUME NEW n \in T PROVE n + 1 \in T
  <2> SUFFICES ASSUME n + 1 <= b
               PROVE  LastTo(c, a + (n + 1), K) =
                        IF LastTo(m, n + 1, K) # {} THEN LastTo(m, n + 1, K) ELSE LastTo(l, a, K)
    OBVIOUS
  <2>1. /\ n \in Nat /\ a + n \in Nat /\ a + (n + 1) = (a + n) + 1 /\ n <= b
        /\ c[(a + n) + 1] = m[n + 1]
    <3>1. n + 1 \in 1..b /\ a + (n + 1) = (a + n) + 1
      BY <1>1
    <3>2. QED  BY <1>1, <3>1
  <2>2. LastTo(c, a + n, K) = IF LastTo(m, n, K) # {} THEN LastTo(m, n, K) ELSE LastTo(l, a, K)
    BY <1>1, <2>1
  <2> HIDE DEF T
  <2>3. LastTo(c, (a + n) + 1, K) =
          IF c[(a + n) + 1] \in K THEN {c[(a + n) + 1]} ELSE LastTo(c, a + n, K)
    <3> DEFINE k == a + n
    <3>1. k \in Nat
      BY <2>1
    <3> HIDE DEF k
    <3>2. LastTo(c, k + 1, K) = IF c[k + 1] \in K THEN {c[k + 1]} ELSE LastTo(c, k, K)
      BY <3>1, LastToNext
    <3>3. QED  BY <3>2 DEF k
  <2>4. LastTo(m, n + 1, K) = IF m[n + 1] \in K THEN {m[n + 1]} ELSE LastTo(m, n, K)
    BY <2>1, LastToNext
  <2>5. QED  BY <2>1, <2>2, <2>3, <2>4
<1>4. T = Nat
  <2>1. T \subseteq Nat
    OBVIOUS
  <2> HIDE DEF T
  <2>2. QED  BY <1>2, <1>3, <2>1, NatSubsets
<1>5. b \in T
  BY <1>1, <1>4
<1>6. QED  BY <1>1, <1>5 DEF LastIn, a, b, c

-----------------------------------------------------------------------------
(* Lines without a key.                                                    *)

\* what Without is on the way
KeptTo(f, lines, key, n) ==
  \A i \in 0..n :
    f[i] = IF i = 0 THEN << >>
           ELSE IF lines[i].key = key THEN f[i - 1] ELSE Append(f[i - 1], lines[i])

LEMMA KeptExists ==
  ASSUME NEW S, NEW lines \in Seq(S), NEW key, NEW n \in Nat, n <= Len(lines)
  PROVE  \E f \in [0..n -> Seq(S)] : KeptTo(f, lines, key, n)
<1> DEFINE T == {m \in Nat : m <= Len(lines) => \E f \in [0..m -> Seq(S)] : KeptTo(f, lines, key, m)}
<1>1. 0 \in T
  <2> DEFINE f == [i \in 0..0 |-> << >>]
  <2>1. f \in [0..0 -> Seq(S)] /\ KeptTo(f, lines, key, 0)
    BY DEF KeptTo
  <2>2. QED  BY <2>1
<1>2. ASSUME NEW m \in T PROVE m + 1 \in T
  <2>1. m \in Nat /\ m + 1 \in Nat
    OBVIOUS
  <2>2. SUFFICES ASSUME m + 1 <= Len(lines)
                 PROVE  \E f \in [0..m + 1 -> Seq(S)] : KeptTo(f, lines, key, m + 1)
    BY <2>1
  <2>3. m <= Len(lines) /\ m + 1 \in 1..Len(lines)
    BY <2>1, <2>2
  <2>4. PICK f \in [0..m -> Seq(S)] : KeptTo(f, lines, key, m)
    BY <2>3
  <2> HIDE DEF T
  <2> DEFINE x == lines[m + 1]
             y == IF x.key = key THEN f[m] ELSE Append(f[m], x)
             g == [i \in 0..m + 1 |-> IF i = m + 1 THEN y ELSE f[i]]
  <2>5. x \in S /\ f[m] \in Seq(S)
    BY <2>1, <2>3, ElementOfSeq
  <2> HIDE DEF x
  <2>6. y \in Seq(S)
    BY <2>5
  <2>7. g \in [0..m + 1 -> Seq(S)]
    BY <2>1, <2>6
  <2>8. ASSUME NEW i \in 0..m + 1
        PROVE  g[i] = IF i = 0 THEN << >>
                      ELSE IF lines[i].key = key THEN g[i - 1] ELSE Append(g[i - 1], lines[i])
    <3>1. CASE i = m + 1
      <4>1. i # 0 /\ i - 1 = m /\ m \in 0..m + 1 /\ m # m + 1
        BY <2>1, <3>1
      <4>2. g[i] = y /\ g[i - 1] = f[m] /\ lines[i] = x
        BY <2>1, <3>1, <4>1 DEF x
      <4>3. QED  BY <4>1, <4>2
    <3>2. CASE i # m + 1
      <4>1. i \in 0..m /\ (i # 0 => i - 1 \in 0..m)
        BY <2>1, <3>2
      <4>2. g[i] = f[i] /\ (i # 0 => g[i - 1] = f[i - 1])
        BY <2>1, <4>1
      <4>3. QED  BY <2>4, <4>1, <4>2 DEF KeptTo
    <3>3. QED  BY <3>1, <3>2
  <2>9. KeptTo(g, lines, key, m + 1)
    BY <2>8 DEF KeptTo
  <2>10. QED  BY <2>7, <2>9
<1>3. T = Nat
  <2>1. T \subseteq Nat
    OBVIOUS
  <2> HIDE DEF T
  <2>2. QED  BY <1>1, <1>2, <2>1, NatSubsets
<1>4. QED  BY <1>3

LEMMA WithoutIsKept ==
  ASSUME NEW S, NEW lines \in Seq(S), NEW key
  PROVE  \E f \in [0..Len(lines) -> Seq(S)] :
           KeptTo(f, lines, key, Len(lines)) /\ Without(lines, key) = f[Len(lines)]
<1> DEFINE n == Len(lines)
           Def(f) == [i \in 0..n |->
                        IF i = 0 THEN << >>
                        ELSE IF lines[i].key = key THEN f[i - 1] ELSE Append(f[i - 1], lines[i])]
           kept == CHOOSE f : f = Def(f)
<1>1. PICK g \in [0..n -> Seq(S)] : KeptTo(g, lines, key, n)
  <2>1. n \in Nat /\ n <= Len(lines)
    OBVIOUS
  <2>2. QED  BY <2>1, KeptExists
<1>2. g = Def(g)
  BY <1>1 DEF KeptTo
<1>3. kept = Def(kept)
  BY <1>2
<1>4. Without(lines, key) = kept[n]
  BY DEF Without
<1>5. KeptTo(kept, lines, key, n)
  <2> HIDE DEF kept
  <2>1. QED  BY <1>3 DEF KeptTo
<1>6. kept \in [0..n -> Seq(S)]
  <2> DEFINE T == {m \in Nat : m <= n => kept[m] \in Seq(S)}
  <2>1. 0 \in T
    <3> HIDE DEF kept
    <3>1. 0 \in 0..n
      OBVIOUS
    <3>2. kept[0] = << >> /\ << >> \in Seq(S)
      BY <1>5, <3>1 DEF KeptTo
    <3>3. QED  BY <3>2 DEF T
  <2>2. ASSUME NEW m \in T PROVE m + 1 \in T
    <3>1. m \in Nat /\ (m <= n => kept[m] \in Seq(S))
      OBVIOUS
    <3> HIDE DEF T, kept
    <3>2. ASSUME m + 1 <= n PROVE kept[m + 1] \in Seq(S)
      <4>1. /\ m + 1 \in 0..n /\ m + 1 # 0 /\ (m + 1) - 1 = m /\ m <= n /\ m + 1 \in 1..n
        BY <3>1, <3>2
      <4>2. lines[m + 1] \in S
        BY <4>1
      <4>3. kept[m + 1] = IF lines[m + 1].key = key THEN kept[m] ELSE Append(kept[m], lines[m + 1])
        BY <1>5, <4>1 DEF KeptTo
      <4>4. QED  BY <3>1, <4>1, <4>2, <4>3
    <3>3. QED  BY <3>1, <3>2 DEF T
  <2>3. T = Nat
    <3>1. T \subseteq Nat
      OBVIOUS
    <3> HIDE DEF T
    <3>2. QED  BY <2>1, <2>2, <3>1, NatSubsets
  <2>4. \A i \in 0..n : kept[i] \in Seq(S)
    <3> HIDE DEF kept
    <3>1. QED  BY <2>3
  <2> HIDE DEF kept
  <2>5. QED  BY <1>3, <2>4
<1>7. QED  BY <1>4, <1>5, <1>6

\* it is made of the lines it was given
LEMMA WithoutType ==
  ASSUME NEW S, NEW lines \in Seq(S), NEW key
  PROVE  Without(lines, key) \in Seq(S)
BY WithoutIsKept

\* ... and what is last in it is last among the others
LEMMA LastOfWithout ==
  ASSUME NEW lines \in Seq(Lines), NEW key, NEW K
  PROVE  LastIn(Without(lines, key), K) = LastIn(lines, K \ OfKey(key))
<1> DEFINE n == Len(lines)
           M == K \ OfKey(key)
<1>1. PICK f \in [0..n -> Seq(Lines)] :
        KeptTo(f, lines, key, n) /\ Without(lines, key) = f[n]
  BY WithoutIsKept
<1> DEFINE T == {m \in Nat : m <= n => LastIn(f[m], K) = LastTo(lines, m, M)}
<1>2. 0 \in T
  <2>1. f[0] = << >> /\ Len(<< >>) = 0
    BY <1>1 DEF KeptTo
  <2>2. LastIn(f[0], K) = {} /\ LastTo(lines, 0, M) = {}
    BY <2>1, LastToStep DEF LastIn
  <2>3. QED  BY <2>2
<1>3. ASSUME NEW m \in T PROVE m + 1 \in T
  <2>1. m \in Nat /\ (m <= n => LastIn(f[m], K) = LastTo(lines, m, M))
    OBVIOUS
  <2> HIDE DEF T
  <2>2. ASSUME m + 1 <= n PROVE LastIn(f[m + 1], K) = LastTo(lines, m + 1, M)
    <3> DEFINE x == lines[m + 1]
    <3>1. m + 1 \in 0..n /\ m + 1 # 0 /\ (m + 1) - 1 = m /\ m <= n /\ m \in 0..n /\ m + 1 \in 1..n
      BY <2>1, <2>2
    <3>2. x \in Lines /\ f[m] \in Seq(Lines)
      BY <3>1
    <3>3. f[m + 1] = IF x.key = key THEN f[m] ELSE Append(f[m], x)
      BY <1>1, <3>1 DEF KeptTo
    <3>4. LastTo(lines, m + 1, M) = IF x \in M THEN {x} ELSE LastTo(lines, m, M)
      BY <2>1, LastToNext
    <3>5. x \in M <=> x \in K /\ x.key # key
      BY <3>2 DEF OfKey
    <3> HIDE DEF x, M, n
    <3>6. CASE x.key = key
      BY <2>1, <3>1, <3>3, <3>4, <3>5, <3>6
    <3>7. CASE x.key # key
      <4>1. LastIn(f[m + 1], K) = IF x \in K THEN {x} ELSE LastIn(f[m], K)
        <5>1. LastIn(Append(f[m], x), K) = IF x \in K THEN {x} ELSE LastIn(f[m], K)
          BY <3>2, LastOfAppend
        <5>2. QED  BY <3>3, <3>7, <5>1
      <4>2. QED  BY <2>1, <3>1, <3>4, <3>5, <3>7, <4>1
    <3>8. QED  BY <3>6, <3>7
  <2>3. QED  BY <2>1, <2>2 DEF T
<1>4. T = Nat
  <2>1. T \subseteq Nat
    OBVIOUS
  <2> HIDE DEF T
  <2>2. QED  BY <1>2, <1>3, <2>1, NatSubsets
<1>5. n \in T
  BY <1>4
<1>6. QED  BY <1>1, <1>5 DEF LastIn

-----------------------------------------------------------------------------
(* The lines of a part that an edit leaves.                                *)

LEMMA LastOfOne ==
  ASSUME NEW x, NEW K
  PROVE  LastIn(<<x>>, K) = IF x \in K THEN {x} ELSE {}
<1> DEFINE none == << >>
           X == {x}
<1>1. none \in Seq(X) /\ x \in X /\ Append(none, x) = <<x>> /\ Len(none) = 0
  OBVIOUS
<1> HIDE DEF none, X
<1>2. LastIn(none, K) = {}
  BY <1>1, LastToStep DEF LastIn
<1>3. LastIn(Append(none, x), K) = IF x \in K THEN {x} ELSE LastIn(none, K)
  BY <1>1, LastOfAppend
<1>4. QED  BY <1>1, <1>2, <1>3

LEMMA LastOfAppendLine ==
  \A lines \in Seq(Lines), x \in Lines : \A K :
    LastIn(Append(lines, x), K) = IF x \in K THEN {x} ELSE LastIn(lines, K)
BY LastOfAppend

\* x is the first line with the key, A the lines above it, B those below
Split(lines, key, A, x, B) ==
  lines = Append(A, x) \o B /\ x.key = key /\ \A j \in DOMAIN A : A[j].key # key

ReplacedAt(lines, e, A, x, B) ==
  /\ Split(lines, e.key, A, x, B)
  /\ Replaced(lines, e) = Append(A, Pair(e.key, e.value)) \o Without(B, e.key)

LEMMA ReplacedSplit ==
  ASSUME NEW S, NEW lines \in Seq(S), NEW e, Pair(e.key, e.value) \in S,
         \E j \in DOMAIN lines : lines[j].key = e.key
  PROVE  \E A \in Seq(S), B \in Seq(S), x \in S : ReplacedAt(lines, e, A, x, B)
<1> DEFINE n == Len(lines)
           J == {j \in DOMAIN lines : lines[j].key = e.key}
           a == Min(J)
           A == SubSeq(lines, 1, a - 1)
           B == SubSeq(lines, a + 1, n)
           y == Pair(e.key, e.value)
<1>1. n \in Nat /\ J \in SUBSET (1..n) /\ J # {}
  OBVIOUS
<1>2. a \in J /\ \A j \in J : a <= j
  <2> HIDE DEF J, n
  <2>1. QED  BY <1>1, MinIsLeast
<1>3. Replaced(lines, e) = A \o <<y>> \o Without(B, e.key)
  BY DEF Replaced
<1>4. lines[a].key = e.key /\ a \in 1..n
  BY <1>1, <1>2
<1> HIDE DEF a
<1>5. \A j \in 1..a - 1 : lines[j].key # e.key
  <2>1. \A j \in 1..a - 1 : j \in DOMAIN lines /\ ~ (a <= j)
    BY <1>4
  <2>2. QED  BY <1>2, <2>1
<1> HIDE DEF J
<1>6. A \in Seq(S) /\ Len(A) = a - 1 /\ \A j \in 1..a - 1 : A[j] = lines[j]
  BY <1>1, <1>4, SubSeqProperties
<1>7. B \in Seq(S) /\ lines[a] \in S
  BY <1>1, <1>4, SubSeqProperties
<1>8. lines = Append(A, lines[a]) \o B
  <2>1. SubSeq(lines, 1, a) = A \o <<lines[a]>>
    BY <1>1, <1>4, SubSeqRecursiveSecond
  <2>2. SubSeq(lines, 1, a) \o B = SubSeq(lines, 1, n)
    BY <1>1, <1>4, ConcatAdjacentSubSeq
  <2>3. A \o <<lines[a]>> = Append(A, lines[a])
    BY <1>6, <1>7, AppendIsConcat
  <2>4. QED  BY <2>1, <2>2, <2>3, SubSeqFull
<1>9. y \in S
  OBVIOUS
<1> HIDE DEF A, B, y
<1>10. Replaced(lines, e) = Append(A, y) \o Without(B, e.key)
  <2>1. A \o <<y>> = Append(A, y)
    BY <1>6, <1>9, AppendIsConcat
  <2>2. QED  BY <1>3, <2>1
<1>11. Split(lines, e.key, A, lines[a], B)
  <2>1. DOMAIN A = 1..a - 1
    BY <1>4, <1>6, LenProperties
  <2>2. QED  BY <1>4, <1>5, <1>6, <1>8, <2>1 DEF Split
<1>12. ReplacedAt(lines, e, A, lines[a], B)
  BY <1>10, <1>11 DEF y, ReplacedAt
<1>13. QED  BY <1>6, <1>7, <1>12

LEMMA ReplacedType ==
  ASSUME NEW S, NEW lines \in Seq(S), NEW e, Pair(e.key, e.value) \in S,
         \E j \in DOMAIN lines : lines[j].key = e.key
  PROVE  Replaced(lines, e) \in Seq(S)
<1> DEFINE y == Pair(e.key, e.value)
<1>1. y \in S
  OBVIOUS
<1>2. PICK A \in Seq(S), B \in Seq(S), x \in S : ReplacedAt(lines, e, A, x, B)
  BY ReplacedSplit
<1> DEFINE W == Without(B, e.key)
<1>at. Split(lines, e.key, A, x, B) /\ Replaced(lines, e) = Append(A, y) \o W
  BY <1>2 DEF ReplacedAt
<1>3. Append(A, y) \in Seq(S) /\ W \in Seq(S)
  BY <1>1, WithoutType
<1> HIDE DEF W, y
<1>4. Append(A, y) \o W \in Seq(S)
  BY <1>3
<1>5. QED  BY <1>at, <1>4

LEMMA LastOfReplaced ==
  ASSUME NEW lines \in Seq(Lines), NEW e \in EditSet, NEW K,
         \E j \in DOMAIN lines : lines[j].key = e.key
  PROVE  /\ K \subseteq OfKey(e.key) =>
              LastIn(Replaced(lines, e), K) =
                IF Pair(e.key, e.value) \in K THEN {Pair(e.key, e.value)} ELSE {}
         /\ K \cap OfKey(e.key) = {} => LastIn(Replaced(lines, e), K) = LastIn(lines, K)
<1> DEFINE y == Pair(e.key, e.value)
<1>1. y \in Lines /\ y \in OfKey(e.key)
  BY DEF EditSet, Lines, Pair, OfKey
<1>2. PICK A \in Seq(Lines), B \in Seq(Lines), x \in Lines : ReplacedAt(lines, e, A, x, B)
  BY <1>1, ReplacedSplit
<1> DEFINE W == Without(B, e.key)
<1>at. Split(lines, e.key, A, x, B) /\ Replaced(lines, e) = Append(A, y) \o W
  BY <1>2 DEF ReplacedAt
<1>3. W \in Seq(Lines) /\ LastIn(W, K) = LastIn(B, K \ OfKey(e.key))
  BY WithoutType, LastOfWithout
<1> HIDE DEF W, y
<1>4. ASSUME NEW z \in Lines
      PROVE  /\ Append(A, z) \in Seq(Lines)
             /\ LastIn(Append(A, z), K) = IF z \in K THEN {z} ELSE LastIn(A, K)
  BY LastOfAppendLine
<1>5. LastIn(Replaced(lines, e), K) = IF LastIn(W, K) # {} THEN LastIn(W, K) ELSE LastIn(Append(A, y), K)
  <2> DEFINE Ay == Append(A, y)
  <2>1. Ay \in Seq(Lines) /\ Replaced(lines, e) = Ay \o W
    BY <1>at, <1>1, <1>4
  <2> HIDE DEF Ay
  <2>2. LastIn(Ay \o W, K) = IF LastIn(W, K) # {} THEN LastIn(W, K) ELSE LastIn(Ay, K)
    <3>1. W \in Seq(Lines)
      BY <1>3
    <3>2. QED  BY <2>1, <3>1, LastOfConcat
  <2>3. QED  BY <2>1, <2>2 DEF Ay
<1>6. LastIn(lines, K) = IF LastIn(B, K) # {} THEN LastIn(B, K) ELSE LastIn(Append(A, x), K)
  <2> DEFINE Ax == Append(A, x)
  <2>1. Ax \in Seq(Lines) /\ lines = Ax \o B
    BY <1>at, <1>4 DEF Split
  <2> HIDE DEF Ax
  <2>2. LastIn(Ax \o B, K) = IF LastIn(B, K) # {} THEN LastIn(B, K) ELSE LastIn(Ax, K)
    BY <2>1, LastOfConcat
  <2>3. QED  BY <2>1, <2>2 DEF Ax
<1>7. ASSUME K \subseteq OfKey(e.key)
      PROVE  LastIn(Replaced(lines, e), K) = IF y \in K THEN {y} ELSE {}
  <2>1. LastIn(W, K) = {}
    <3>1. K \ OfKey(e.key) = {}
      BY <1>7
    <3>2. LastIn(B, {}) = {}
      BY DEF LastIn, LastTo
    <3>3. QED  BY <1>3, <3>1, <3>2
  <2>2. LastIn(A, K) = {}
    <3>1. \A j \in 1..Len(A) : A[j] \notin K
      BY <1>at, <1>7 DEF OfKey, Split
    <3>2. QED  BY <3>1 DEF LastIn, LastTo
  <2>3. QED  BY <1>1, <1>4, <1>5, <2>1, <2>2
<1>8. ASSUME K \cap OfKey(e.key) = {}
      PROVE  LastIn(Replaced(lines, e), K) = LastIn(lines, K)
  <2>1. K \ OfKey(e.key) = K
    BY <1>8
  <2>2. x \notin K /\ y \notin K
    BY <1>at, <1>1, <1>8 DEF OfKey, Split
  <2>3. QED  BY <1>1, <1>3, <1>4, <1>5, <1>6, <2>1, <2>2
<1>9. QED  BY <1>7, <1>8 DEF y

PartSet == [name : Parts, ended : BOOLEAN, lines : Seq(Lines)]

\* what an edit leaves of a part: the last line with its key is the one it
\* sets, and the last line with any other key is the one it was
PartIsPatched(new, part, e, owed) ==
  LET y == Pair(e.key, e.value)
  IN /\ new \in PartSet /\ new.name = part.name
     /\ \A S : part.lines \in Seq(S) /\ (owed => y \in S) => new.lines \in Seq(S)
     /\ \A K : K \subseteq OfKey(e.key) =>
          LastIn(new.lines, K) = IF owed /\ y \in K THEN {y} ELSE {}
     /\ \A K : K \cap OfKey(e.key) = {} => LastIn(new.lines, K) = LastIn(part.lines, K)

LEMMA PatchedPart ==
  ASSUME NEW part \in PartSet, NEW e \in EditSet, NEW owed \in BOOLEAN
  PROVE  PartIsPatched(PatchPart(part, e, owed), part, e, owed)
<1> DEFINE new == PatchPart(part, e, owed)
           y == Pair(e.key, e.value)
           lines == part.lines
           made == IF ~owed THEN Without(lines, e.key)
                   ELSE IF Has(part, e.key) THEN Replaced(lines, e)
                   ELSE Append(lines, y)
<1>1. lines \in Seq(Lines) /\ y \in Lines /\ y \in OfKey(e.key)
  BY DEF PartSet, EditSet, Lines, Pair, OfKey
<1>2. /\ new.lines = made /\ new.name = part.name /\ new.ended \in BOOLEAN
      /\ new = [name |-> part.name, ended |-> new.ended, lines |-> made]
  <2> DEFINE ended == part.ended \/ (owed /\ ~Has(part, e.key))
                        \/ (lines # << >> /\ Last(lines).key = e.key)
  <2>1. new = [part EXCEPT !.lines = made, !.ended = ended]
    BY DEF PatchPart
  <2>2. ended \in BOOLEAN
    OBVIOUS
  <2> HIDE DEF made, ended, new
  <2>3. QED  BY <2>1, <2>2 DEF PartSet
<1>5. Has(part, e.key) <=> \E j \in DOMAIN lines : lines[j].key = e.key
  BY DEF Has
<1> HIDE DEF lines, new, y
<1>app. \A K : LastIn(Append(lines, y), K) = IF y \in K THEN {y} ELSE LastIn(lines, K)
  <2>1. PICK l \in Seq(Lines), x \in Lines : l = lines /\ x = y
    BY <1>1
  <2>2. \A K : LastIn(Append(l, x), K) = IF x \in K THEN {x} ELSE LastIn(l, K)
    BY LastOfAppendLine
  <2> HIDE DEF made
  <2>3. QED  BY <2>1, <2>2
<1>6. ASSUME NEW S, lines \in Seq(S), owed => y \in S
      PROVE  made \in Seq(S)
  <2>1. CASE ~owed
    <3>1. Without(lines, e.key) \in Seq(S)
      BY <1>6, WithoutType
    <3>2. QED  BY <2>1, <3>1
  <2>2. CASE owed /\ Has(part, e.key)
    <3>1. Replaced(lines, e) \in Seq(S)
      <4>1. Pair(e.key, e.value) \in S
        BY <1>6, <2>2 DEF y
      <4>2. QED  BY <1>5, <1>6, <2>2, <4>1, ReplacedType
    <3>2. QED  BY <2>2, <3>1
  <2>3. CASE owed /\ ~Has(part, e.key)
    BY <1>6, <2>3
  <2>4. QED  BY <2>1, <2>2, <2>3
<1>7. ASSUME NEW K, K \subseteq OfKey(e.key)
      PROVE  LastIn(made, K) = IF owed /\ y \in K THEN {y} ELSE {}
  <2>1. CASE ~owed
    <3>1. LastIn(Without(lines, e.key), K) = LastIn(lines, K \ OfKey(e.key))
      BY <1>1, LastOfWithout
    <3>2. K \ OfKey(e.key) = {} /\ LastIn(lines, {}) = {}
      BY <1>7 DEF LastIn, LastTo
    <3>3. QED  BY <2>1, <3>1, <3>2
  <2>2. CASE owed /\ Has(part, e.key)
    <3>1. LastIn(Replaced(lines, e), K) =
            IF Pair(e.key, e.value) \in K THEN {Pair(e.key, e.value)} ELSE {}
      BY <1>1, <1>5, <1>7, <2>2, LastOfReplaced
    <3>2. QED  BY <2>2, <3>1 DEF y
  <2>3. CASE owed /\ ~Has(part, e.key)
    <3>1. LastIn(Append(lines, y), K) = IF y \in K THEN {y} ELSE LastIn(lines, K)
      BY <1>app
    <3>2. LastIn(lines, K) = {}
      <4>1. \A j \in 1..Len(lines) : lines[j] \notin K
        BY <1>1, <1>5, <1>7, <2>3 DEF OfKey
      <4>2. QED  BY <4>1 DEF LastIn, LastTo
    <3>3. QED  BY <2>3, <3>1, <3>2
  <2>4. QED  BY <2>1, <2>2, <2>3
<1>8. ASSUME NEW K, K \cap OfKey(e.key) = {}
      PROVE  LastIn(made, K) = LastIn(lines, K)
  <2>1. CASE ~owed
    <3>1. LastIn(Without(lines, e.key), K) = LastIn(lines, K \ OfKey(e.key))
      BY <1>1, LastOfWithout
    <3>2. K \ OfKey(e.key) = K
      BY <1>8
    <3>3. QED  BY <2>1, <3>1, <3>2
  <2>2. CASE owed /\ Has(part, e.key)
    <3>1. LastIn(Replaced(lines, e), K) = LastIn(lines, K)
      BY <1>1, <1>5, <1>8, <2>2, LastOfReplaced
    <3>2. QED  BY <2>2, <3>1
  <2>3. CASE owed /\ ~Has(part, e.key)
    <3>1. LastIn(Append(lines, y), K) = IF y \in K THEN {y} ELSE LastIn(lines, K)
      BY <1>app
    <3>2. y \notin K
      BY <1>1, <1>8
    <3>3. QED  BY <2>3, <3>1, <3>2
  <2>4. QED  BY <2>1, <2>2, <2>3
<1> HIDE DEF made
<1>9. new \in PartSet
  <2>1. made \in Seq(Lines)
    BY <1>1, <1>6
  <2>2. QED  BY <1>2, <2>1 DEF PartSet
<1>10. QED  BY <1>2, <1>6, <1>7, <1>8, <1>9 DEF lines, new, y, PartIsPatched

-----------------------------------------------------------------------------
(* What a text says of a key.                                              *)

LEMMA PartValue ==
  ASSUME NEW part \in PartSet, NEW key
  PROVE  /\ ~Has(part, key) => LastIn(part.lines, OfKey(key)) = {}
         /\ Has(part, key) => /\ LastIn(part.lines, OfKey(key)) # {}
                              /\ \E j \in DOMAIN part.lines :
                                   /\ part.lines[j].key = key
                                   /\ LastIn(part.lines, OfKey(key)) = {part.lines[j]}
                                   /\ LastOf(part.lines, key) = part.lines[j].value
<1> DEFINE J == {j \in DOMAIN part.lines : part.lines[j] \in OfKey(key)}
<1>1. PICK lines \in Seq(Lines) : lines = part.lines
  BY DEF PartSet
<1>2. J = {j \in DOMAIN lines : lines[j].key = key} /\ (Has(part, key) <=> J # {})
  BY <1>1 DEF OfKey, Has
<1>3. J = {j \in DOMAIN lines : lines[j] \in OfKey(key)} /\ J \in SUBSET (1..Len(lines)) /\ Len(lines) \in Nat
  BY <1>1
<1>4. LastOf(part.lines, key) = lines[Max(J)].value
  BY <1>1, <1>2 DEF LastOf
<1> HIDE DEF J
<1>5. /\ J = {} <=> LastIn(lines, OfKey(key)) = {}
      /\ J # {} => LastIn(lines, OfKey(key)) = {lines[Max(J)]}
  BY <1>3, LastIsMax
<1>6. J # {} => Max(J) \in J
  BY <1>3, MaxIsGreatest
<1>7. QED  BY <1>1, <1>2, <1>3, <1>4, <1>5, <1>6

\* the last line with a key in a part
Said(doc, i, key) == LastIn(doc[i].lines, OfKey(key))

\* the parts of that name in both texts agree on the key, and those that only
\* the second has say nothing
SayTheSame(doc, new, name, key) ==
  /\ Len(doc) <= Len(new)
  /\ \A i \in DOMAIN doc :
       /\ new[i].name = doc[i].name
       /\ doc[i].name = name => Said(new, i, key) = Said(doc, i, key)
  /\ \A i \in DOMAIN new :
       i \notin DOMAIN doc /\ new[i].name = name => Said(new, i, key) = {}

LEMMA SameValue ==
  ASSUME NEW doc \in Seq(PartSet), NEW new \in Seq(PartSet), NEW name, NEW key,
         SayTheSame(doc, new, name, key)
  PROVE  ValueOf(new, name, key) = ValueOf(doc, name, key)
<1> DEFINE At(d) == {i \in DOMAIN d : d[i].name = name /\ Has(d[i], key)}
           m == Max(At(doc))
<1> USE DEF SayTheSame, Said
<1>1. Len(doc) \in Nat /\ DOMAIN doc \subseteq DOMAIN new /\ DOMAIN doc = 1..Len(doc)
  BY LenProperties
<1>2. /\ \A i \in DOMAIN doc : doc[i] \in PartSet
      /\ \A i \in DOMAIN new : new[i] \in PartSet
  OBVIOUS
<1>3. At(new) = At(doc)
  <2>1. ASSUME NEW i \in DOMAIN new, new[i].name = name
        PROVE  i \in DOMAIN doc /\ Has(doc[i], key) <=> Has(new[i], key)
    <3>1. CASE i \notin DOMAIN doc
      BY <1>2, <2>1, <3>1, PartValue
    <3>2. CASE i \in DOMAIN doc
      BY <1>2, <2>1, <3>2, PartValue
    <3>3. QED  BY <3>1, <3>2
  <2>2. QED  BY <1>1, <2>1
<1>4. CASE At(doc) = {}
  BY <1>3, <1>4 DEF ValueOf
<1>5. CASE At(doc) # {}
  <2>1. m \in At(doc)
    <3>1. At(doc) \in SUBSET (1..Len(doc))
      BY <1>1
    <3> HIDE DEF At
    <3>2. QED  BY <1>1, <1>5, <3>1, MaxIsGreatest
  <2>2. ValueOf(doc, name, key) = LastOf(doc[m].lines, key) /\ ValueOf(new, name, key) = LastOf(new[m].lines, key)
    BY <1>3, <1>5 DEF ValueOf
  <2>3. m \in DOMAIN doc /\ doc[m].name = name /\ Has(doc[m], key) /\ Has(new[m], key) /\ m \in DOMAIN new
    BY <1>3, <2>1
  <2> HIDE DEF m
  <2>4. LastIn(new[m].lines, OfKey(key)) = LastIn(doc[m].lines, OfKey(key))
    BY <2>3
  <2>5. \E x : LastIn(doc[m].lines, OfKey(key)) = {x} /\ LastOf(doc[m].lines, key) = x.value
    BY <1>2, <2>3, PartValue
  <2>6. \E x : LastIn(new[m].lines, OfKey(key)) = {x} /\ LastOf(new[m].lines, key) = x.value
    BY <1>2, <2>3, PartValue
  <2>7. QED  BY <2>2, <2>4, <2>5, <2>6
<1>6. QED  BY <1>4, <1>5

\* what one part says, when no other of its name says anything
OnlySaid(doc, i, key, y) ==
  /\ i \in DOMAIN doc /\ Said(doc, i, key) = {y}
  /\ \A j \in DOMAIN doc : j # i /\ doc[j].name = doc[i].name => Said(doc, j, key) = {}

LEMMA ThatValue ==
  ASSUME NEW doc \in Seq(PartSet), NEW key, NEW i, NEW y, OnlySaid(doc, i, key, y)
  PROVE  ValueOf(doc, doc[i].name, key) = y.value
<1> USE DEF OnlySaid, Said
<1> DEFINE at == {j \in DOMAIN doc : doc[j].name = doc[i].name /\ Has(doc[j], key)}
<1>1. \A j \in DOMAIN doc : doc[j] \in PartSet
  OBVIOUS
<1>2. \A j \in DOMAIN doc : doc[j].name = doc[i].name => (Has(doc[j], key) <=> j = i)
  BY <1>1, PartValue
<1>3. at = {i}
  BY <1>2
<1>4. Max(at) = i
  <2>1. Len(doc) \in Nat /\ {i} \in SUBSET (1..Len(doc)) /\ {i} # {}
    BY LenProperties
  <2>2. Max({i}) \in {i}
    BY <2>1, MaxIsGreatest
  <2>3. QED  BY <1>3, <2>2
<1>5. ValueOf(doc, doc[i].name, key) = LastOf(doc[i].lines, key)
  BY <1>3, <1>4 DEF ValueOf
<1>6. \E x : LastIn(doc[i].lines, OfKey(key)) = {x} /\ LastOf(doc[i].lines, key) = x.value
  BY <1>1, <1>2, PartValue
<1>7. QED  BY <1>5, <1>6

LEMMA NoValue ==
  ASSUME NEW doc \in Seq(PartSet), NEW name, NEW key,
         \A j \in DOMAIN doc : doc[j].name = name => LastIn(doc[j].lines, OfKey(key)) = {}
  PROVE  ValueOf(doc, name, key) = Unset
<1>1. \A j \in DOMAIN doc : doc[j] \in PartSet
  OBVIOUS
<1>2. {j \in DOMAIN doc : doc[j].name = name /\ Has(doc[j], key)} = {}
  BY <1>1, PartValue
<1>3. QED  BY <1>2 DEF ValueOf

\* a value is that of a line
LEMMA ValueIsOfLine ==
  ASSUME NEW doc \in Seq(PartSet), NEW name, NEW key, ValueOf(doc, name, key) # Unset
  PROVE  \E i \in DOMAIN doc : \E j \in DOMAIN doc[i].lines :
           /\ doc[i].name = name /\ doc[i].lines[j].key = key
           /\ ValueOf(doc, name, key) = doc[i].lines[j].value
<1> DEFINE at == {i \in DOMAIN doc : doc[i].name = name /\ Has(doc[i], key)}
           m == Max(at)
<1>1. at # {} /\ ValueOf(doc, name, key) = LastOf(doc[m].lines, key)
  BY DEF ValueOf
<1>2. m \in at
  <2>1. Len(doc) \in Nat /\ at \in SUBSET (1..Len(doc))
    BY LenProperties
  <2> HIDE DEF at
  <2>2. QED  BY <1>1, <2>1, MaxIsGreatest
<1>3. m \in DOMAIN doc /\ doc[m].name = name /\ Has(doc[m], key) /\ doc[m] \in PartSet
  BY <1>2
<1> HIDE DEF m
<1>4. QED  BY <1>1, <1>3, PartValue

LEMMA PlainValue ==
  ASSUME NEW lines \in Seq(Lines)
  PROVE  /\ LastIn(lines, Plain) = {} => PlainColor(lines) = DefaultColor
         /\ LastIn(lines, Plain) # {} =>
              \E x \in Plain : LastIn(lines, Plain) = {x} /\ PlainColor(lines) = x.value
<1> DEFINE J == {j \in DOMAIN lines : lines[j] \in Plain}
<1>1. J = {j \in DOMAIN lines : lines[j].key = "color" /\ lines[j].value # AutoColor}
  BY DEF Plain, OfKey
<1>2. J \in SUBSET (1..Len(lines)) /\ Len(lines) \in Nat
  OBVIOUS
<1>3. PlainColor(lines) = IF J = {} THEN DefaultColor ELSE lines[Max(J)].value
  BY <1>1 DEF PlainColor
<1>4. \A j \in J : lines[j] \in Plain
  OBVIOUS
<1>5. J = {j \in DOMAIN lines : lines[j] \in Plain}
  OBVIOUS
<1> HIDE DEF J
<1>6. /\ J = {} <=> LastIn(lines, Plain) = {}
      /\ J # {} => LastIn(lines, Plain) = {lines[Max(J)]}
  BY <1>5, LastIsMax
<1>7. J # {} => Max(J) \in J
  BY <1>2, MaxIsGreatest
<1>8. QED  BY <1>3, <1>4, <1>6, <1>7

\* the colour is that of a line, or the default
LEMMA PlainIsColor ==
  ASSUME NEW lines \in Seq(Lines)
  PROVE  PlainColor(lines) = DefaultColor \/
         \E j \in DOMAIN lines : /\ lines[j].key = "color" /\ lines[j].value # AutoColor
                                 /\ PlainColor(lines) = lines[j].value
<1> DEFINE J == {j \in DOMAIN lines : lines[j].key = "color" /\ lines[j].value # AutoColor}
<1>1. J \in SUBSET (1..Len(lines)) /\ Len(lines) \in Nat
  OBVIOUS
<1>2. PlainColor(lines) = IF J = {} THEN DefaultColor ELSE lines[Max(J)].value
  BY DEF PlainColor
<1>3. J # {} => Max(J) \in J
  <2> HIDE DEF J
  <2>1. QED  BY <1>1, MaxIsGreatest
<1>4. QED  BY <1>2, <1>3

-----------------------------------------------------------------------------
(* What an edit does to a text.                                            *)

\* the first part of a text, and no other, is the one above the sections
Text(doc) ==
  /\ doc \in Seq(PartSet) /\ doc # << >> /\ doc[1].name = Top
  /\ \A i \in 2..Len(doc) : doc[i].name # Top

Owed(doc, e, i) == e.value # Unset /\ i = Min(Targets(doc, e))

LEMMA TextFacts ==
  ASSUME NEW doc, Text(doc)
  PROVE  /\ Len(doc) \in Nat /\ Len(doc) >= 1 /\ DOMAIN doc = 1..Len(doc) /\ 1 \in DOMAIN doc
         /\ \A i \in DOMAIN doc : doc[i] \in PartSet
<1>1. PICK d \in Seq(PartSet) : d = doc /\ d # << >>
  BY DEF Text
<1>2. Len(d) \in Nat \ {0} /\ DOMAIN d = 1..Len(d) /\ \A i \in DOMAIN d : d[i] \in PartSet
  BY <1>1, EmptySeq
<1>3. QED  BY <1>1, <1>2

LEMMA PatchedText ==
  ASSUME NEW doc, Text(doc), NEW e \in EditSet, Targets(doc, e) # {},
         NEW new, new = Patch(doc, e)
  PROVE  /\ Text(new) /\ Len(new) = Len(doc) /\ DOMAIN new = DOMAIN doc
         /\ \A i \in DOMAIN doc :
              /\ i \in Targets(doc, e) => new[i] = PatchPart(doc[i], e, Owed(doc, e, i))
              /\ i \notin Targets(doc, e) => new[i] = doc[i]
              /\ new[i].name = doc[i].name
<1> DEFINE n == Len(doc)
<1>1. n \in Nat /\ n >= 1 /\ DOMAIN doc = 1..n /\ \A i \in 1..n : doc[i] \in PartSet
  BY TextFacts
<1>2. new = [i \in 1..n |-> IF i \in Targets(doc, e) THEN PatchPart(doc[i], e, Owed(doc, e, i)) ELSE doc[i]]
  BY <1>1 DEF Patch, Owed
<1> HIDE DEF n
<1>3. ASSUME NEW i \in 1..n
      PROVE  new[i] \in PartSet /\ new[i].name = doc[i].name
  <2>1. CASE i \in Targets(doc, e)
    <3>1. new[i] = PatchPart(doc[i], e, Owed(doc, e, i))
      BY <1>2, <2>1
    <3>2. PICK part \in PartSet, owed \in BOOLEAN : part = doc[i] /\ owed = Owed(doc, e, i)
      BY <1>1 DEF Owed
    <3>3. PatchPart(part, e, owed) \in PartSet /\ PatchPart(part, e, owed).name = part.name
      BY PatchedPart DEF PartIsPatched
    <3>4. QED  BY <3>1, <3>2, <3>3
  <2>2. CASE i \notin Targets(doc, e)
    BY <1>1, <1>2, <2>2
  <2>3. QED  BY <2>1, <2>2
<1>4. new \in Seq(PartSet) /\ Len(new) = n /\ DOMAIN new = 1..n
  <2>1. new \in [1..n -> PartSet]
    BY <1>2, <1>3
  <2>2. QED  BY <1>1, <2>1
<1>5. new # << >>
  BY <1>1, <1>4
<1>6. Text(new)
  <2>1. new[1].name = Top /\ \A i \in 2..n : new[i].name # Top
    BY <1>1, <1>3 DEF Text, n
  <2>2. QED  BY <1>4, <1>5, <2>1 DEF Text
<1>7. QED  BY <1>1, <1>2, <1>3, <1>4, <1>6 DEF n

SectionIsAdded(new, doc, e) ==
  /\ Text(new) /\ Len(new) = Len(doc) + 1
  /\ new[Len(doc) + 1] = Part(e.part, <<Pair(e.key, e.value)>>)
  /\ \A i \in DOMAIN doc :
       /\ new[i].name = doc[i].name
       /\ new[i].lines = doc[i].lines \/ new[i].lines = Append(doc[i].lines, Other)

LEMMA SectionAdded ==
  ASSUME NEW doc, Text(doc), NEW e \in EditSet, Targets(doc, e) = {}, e.value # Unset
  PROVE  SectionIsAdded(Patch(doc, e), doc, e)
<1> DEFINE new == Patch(doc, e)
           y == Pair(e.key, e.value)
           n == Len(doc)
           above == IF doc = Missing THEN doc
                    ELSE [doc EXCEPT ![n].lines = Append(@, Other), ![n].ended = TRUE]
           part == Part(e.part, <<y>>)
<1>1. n \in Nat /\ n >= 1 /\ DOMAIN doc = 1..n /\ \A i \in 1..n : doc[i] \in PartSet
  BY TextFacts
<1>2. e.part # Top /\ e.part \in Names
  <2>1. 1 \in DOMAIN doc /\ doc[1].name = Top
    BY <1>1 DEF Text
  <2>2. 1 \notin Targets(doc, e)
    OBVIOUS
  <2>3. QED  BY <2>1, <2>2 DEF Targets, EditSet, Parts
<1>3. new = Append(above, part)
  BY DEF Patch, AddSection
<1>4. ASSUME NEW i \in 1..n
      PROVE  /\ above[i] \in PartSet
             /\ above[i].name = doc[i].name
             /\ above[i].lines = doc[i].lines \/ above[i].lines = Append(doc[i].lines, Other)
  <2>1. CASE doc = Missing \/ i # n
    BY <1>1, <2>1
  <2>2. CASE doc # Missing /\ i = n
    <3>1. PICK p \in PartSet : p = doc[n]
      BY <1>1
    <3>2. above[n] = [p EXCEPT !.lines = Append(@, Other), !.ended = TRUE]
      BY <1>1, <2>2, <3>1
    <3>3. /\ above[n].lines = Append(p.lines, Other)
          /\ above[n] = [name |-> p.name, ended |-> TRUE, lines |-> Append(p.lines, Other)]
      BY <3>2 DEF PartSet
    <3> HIDE DEF above
    <3>4. Append(p.lines, Other) \in Seq(Lines)
      <4>1. p.lines \in Seq(Lines) /\ Other \in Lines
        BY DEF PartSet, Lines
      <4>2. QED  BY <4>1
    <3>5. QED  BY <2>2, <3>1, <3>3, <3>4 DEF PartSet
  <2>3. QED  BY <2>1, <2>2
<1>5. above \in Seq(PartSet) /\ Len(above) = n
  <2>1. above \in [1..n -> PartSet]
    <3>1. DOMAIN above = 1..n /\ above = [i \in 1..n |-> above[i]]
      <4>1. PICK d \in Seq(PartSet) : d = doc
        BY DEF Text
      <4>2. d = [i \in 1..n |-> d[i]]
        BY <1>1, <4>1
      <4>3. QED  BY <1>1, <4>1, <4>2
    <3> HIDE DEF above, n
    <3>2. QED  BY <1>4, <3>1
  <2> HIDE DEF above
  <2>2. QED  BY <1>1, <2>1
<1>6. part \in PartSet /\ part.name = e.part
  <2>1. y \in Lines
    BY DEF EditSet, Lines, Pair
  <2>2. <<y>> \in Seq(Lines)
    BY <2>1
  <2>3. QED  BY <2>2 DEF Part, PartSet, EditSet
<1> HIDE DEF above, part
<1>7. /\ new \in Seq(PartSet) /\ Len(new) = n + 1 /\ new # << >>
      /\ new[n + 1] = part /\ \A i \in 1..n : new[i] = above[i]
  BY <1>3, <1>5, <1>6, AppendProperties
<1>8. Text(new)
  <2>1. new[1].name = Top
    BY <1>1, <1>4, <1>7 DEF Text
  <2>2. ASSUME NEW i \in 2..Len(new) PROVE new[i].name # Top
    <3>1. CASE i = n + 1
      BY <1>2, <1>6, <1>7, <3>1
    <3>2. CASE i # n + 1
      <4>1. i \in 1..n /\ i \in 2..Len(doc)
        BY <1>1, <1>7, <3>2
      <4>2. QED  BY <1>4, <1>7, <4>1 DEF Text
    <3>3. QED  BY <3>1, <3>2
  <2>3. QED  BY <1>7, <2>1, <2>2 DEF Text
<1>9. QED  BY <1>1, <1>4, <1>7, <1>8 DEF part, SectionIsAdded

\* an edit of a text makes a text
THEOREM PatchKeepsText ==
  ASSUME NEW doc, Text(doc), NEW e \in EditSet
  PROVE  Text(Patch(doc, e))
<1>1. CASE Targets(doc, e) # {}
  BY <1>1, PatchedText
<1>2. CASE Targets(doc, e) = {} /\ e.value = Unset
  BY <1>2 DEF Patch
<1>3. CASE Targets(doc, e) = {} /\ e.value # Unset
  BY <1>3, SectionAdded DEF SectionIsAdded
<1>4. QED  BY <1>1, <1>2, <1>3

\* a value is that of the edit where the edit is about it, and what it was
\* elsewhere: comments, other keys and other sections say what they said
THEOREM PatchedValue ==
  ASSUME NEW doc, Text(doc), NEW e \in EditSet, NEW name \in Parts, NEW key \in Keys
  PROVE  ValueOf(Patch(doc, e), name, key) =
           IF key = e.key /\ (name = e.part \/ (e.part = Top /\ e.value = Unset))
           THEN e.value ELSE ValueOf(doc, name, key)
<1> DEFINE new == Patch(doc, e)
           y == Pair(e.key, e.value)
           at == Targets(doc, e)
           about == key = e.key /\ (name = e.part \/ (e.part = Top /\ e.value = Unset))
<1>1. Text(new)
  BY PatchKeepsText
<1>2. /\ doc \in Seq(PartSet) /\ new \in Seq(PartSet)
      /\ Len(doc) \in Nat /\ DOMAIN doc = 1..Len(doc)
      /\ Len(new) \in Nat /\ DOMAIN new = 1..Len(new)
      /\ \A i \in DOMAIN doc : doc[i] \in PartSet
  BY <1>1, TextFacts DEF Text
<1>3. key = e.key => OfKey(key) \subseteq OfKey(e.key) /\ y \in OfKey(key)
  BY DEF OfKey, EditSet, Lines, Pair
<1>4. key # e.key => OfKey(key) \cap OfKey(e.key) = {} /\ y \notin OfKey(key)
  BY DEF OfKey, Pair
<1>5. Other \notin OfKey(key) /\ y.value = e.value
  BY DEF OfKey, Other, Pair, Keys
<1>6. at = {i \in DOMAIN doc : doc[i].name = e.part \/ (e.part = Top /\ e.value = Unset)}
  BY DEF Targets
<1>7. CASE at # {}
  <2>1. /\ Len(new) = Len(doc) /\ DOMAIN new = DOMAIN doc
        /\ \A i \in DOMAIN doc :
             /\ i \in at => new[i] = PatchPart(doc[i], e, Owed(doc, e, i))
             /\ i \notin at => new[i] = doc[i]
             /\ new[i].name = doc[i].name
    BY <1>7, PatchedText
  <2> HIDE DEF new, at, y
  <2>2. ASSUME NEW i \in DOMAIN doc
        PROVE  Said(new, i, key) = IF i \in at /\ key = e.key
                              THEN IF Owed(doc, e, i) THEN {y} ELSE {}
                              ELSE Said(doc, i, key)
    <3>1. CASE i \in at
      <4>1. PICK part \in PartSet, owed \in BOOLEAN : part = doc[i] /\ owed = Owed(doc, e, i)
        BY <1>2 DEF Owed
      <4> DEFINE made == PatchPart(part, e, owed)
      <4>2. new[i] = made
        BY <2>1, <3>1, <4>1
      <4>3. /\ \A K : K \subseteq OfKey(e.key) =>
                 LastIn(made.lines, K) = IF owed /\ y \in K THEN {y} ELSE {}
            /\ \A K : K \cap OfKey(e.key) = {} => LastIn(made.lines, K) = LastIn(part.lines, K)
        <5>1. PartIsPatched(made, part, e, owed)
          BY PatchedPart
        <5> HIDE DEF made
        <5>2. QED  BY <5>1 DEF y, PartIsPatched
      <4> HIDE DEF made
      <4>4. CASE key = e.key
        <5>1. LastIn(made.lines, OfKey(key)) = IF owed THEN {y} ELSE {}
          BY <1>3, <4>3, <4>4
        <5>2. QED  BY <3>1, <4>1, <4>2, <4>4, <5>1 DEF Said
      <4>5. CASE key # e.key
        <5>1. LastIn(made.lines, OfKey(key)) = LastIn(part.lines, OfKey(key))
          BY <1>4, <4>3, <4>5
        <5>2. QED  BY <4>1, <4>2, <4>5, <5>1 DEF Said
      <4>6. QED  BY <4>4, <4>5
    <3>2. CASE i \notin at
      BY <2>1, <3>2 DEF Said
    <3>3. QED  BY <3>1, <3>2
  <2>3. CASE ~about
    <3>1. \A i \in DOMAIN doc : doc[i].name = name => Said(new, i, key) = Said(doc, i, key)
      BY <1>6, <2>2, <2>3
    <3>2. ValueOf(new, name, key) = ValueOf(doc, name, key)
      <4>1. SayTheSame(doc, new, name, key)
        BY <1>2, <2>1, <3>1 DEF SayTheSame
      <4>2. QED  BY <1>2, <4>1, SameValue
    <3>3. QED  BY <2>3, <3>2 DEF new
  <2>4. CASE about /\ e.value = Unset
    <3>1. \A i \in DOMAIN new : new[i].name = name => Said(new, i, key) = {}
      BY <1>6, <2>1, <2>2, <2>4 DEF Owed
    <3>2. ValueOf(new, name, key) = Unset
      BY <1>2, <3>1, NoValue DEF Said
    <3>3. QED  BY <2>4, <3>2 DEF new
  <2>5. CASE about /\ e.value # Unset
    <3> DEFINE m == Min(at)
    <3>1. m \in at
      <4>1. at \in SUBSET (1..Len(doc))
        BY <1>2, <1>6
      <4>2. QED  BY <1>2, <1>7, <4>1, MinIsLeast
    <3>2. m \in DOMAIN new /\ new[m].name = name
      BY <1>6, <2>1, <2>5, <3>1
    <3>3. \A i \in DOMAIN doc : Owed(doc, e, i) <=> i = m
      BY <2>5 DEF Owed, at
    <3> HIDE DEF m
    <3>4. Said(new, m, key) = {y}
      BY <2>1, <2>2, <2>5, <3>1, <3>2, <3>3
    <3>5. \A i \in DOMAIN new : i # m /\ new[i].name = new[m].name => Said(new, i, key) = {}
      BY <1>6, <2>1, <2>2, <2>5, <3>2, <3>3
    <3>6. ValueOf(new, new[m].name, key) = y.value
      <4>1. OnlySaid(new, m, key, y)
        BY <2>1, <3>2, <3>4, <3>5 DEF OnlySaid
      <4>2. QED  BY <1>2, <4>1, ThatValue
    <3>7. QED  BY <1>5, <2>5, <3>2, <3>6 DEF new
  <2>6. QED  BY <2>3, <2>4, <2>5
<1>8. CASE at = {} /\ e.value = Unset
  <2>1. new = doc
    BY <1>8 DEF Patch
  <2>2. about => ValueOf(doc, name, key) = Unset
    <3>1. about => \A i \in DOMAIN doc : doc[i].name # name
      BY <1>6, <1>8
    <3>2. QED  BY <1>2, <3>1, NoValue
  <2>3. QED  BY <1>8, <2>1, <2>2
<1>9. CASE at = {} /\ e.value # Unset
  <2> DEFINE n == Len(doc)
  <2>1. /\ Len(new) = n + 1 /\ new[n + 1] = Part(e.part, <<y>>)
        /\ \A i \in DOMAIN doc :
             /\ new[i].name = doc[i].name
             /\ new[i].lines = doc[i].lines \/ new[i].lines = Append(doc[i].lines, Other)
    BY <1>9, SectionAdded DEF SectionIsAdded
  <2> HIDE DEF new, y, n
  <2>2. new[n + 1].name = e.part /\ Said(new, n + 1, key) = IF y \in OfKey(key) THEN {y} ELSE {}
    <3> DEFINE one == <<y>>
    <3>1. new[n + 1].name = e.part /\ new[n + 1].lines = one
      BY <2>1 DEF Part
    <3>2. LastIn(one, OfKey(key)) = IF y \in OfKey(key) THEN {y} ELSE {}
      BY LastOfOne
    <3> HIDE DEF one
    <3>3. QED  BY <3>1, <3>2 DEF Said
  <2>3. ASSUME NEW i \in DOMAIN doc PROVE Said(new, i, key) = Said(doc, i, key)
    <3>1. PICK lines \in Seq(Lines) : lines = doc[i].lines
      BY <1>2 DEF PartSet
    <3>2. PICK x \in Lines : x = Other
      BY DEF Lines
    <3>3. LastIn(Append(lines, x), OfKey(key)) = LastIn(lines, OfKey(key))
      BY <1>5, <3>2, LastOfAppendLine
    <3>4. QED  BY <2>1, <3>1, <3>2, <3>3 DEF Said
  <2>4. /\ n \in Nat /\ DOMAIN doc = 1..n /\ DOMAIN new = 1..n + 1
        /\ \A i \in DOMAIN new : i \in DOMAIN doc \/ i = n + 1
    BY <1>2, <2>1 DEF n
  <2>5. CASE ~about
    <3>1. Len(doc) <= Len(new)
      BY <2>1, <2>4 DEF n
    <3>2. \A i \in DOMAIN new : i \notin DOMAIN doc /\ new[i].name = name => Said(new, i, key) = {}
      BY <1>4, <1>9, <2>2, <2>4, <2>5
    <3>3. ValueOf(new, name, key) = ValueOf(doc, name, key)
      <4>1. SayTheSame(doc, new, name, key)
        BY <2>1, <2>3, <3>1, <3>2 DEF SayTheSame
      <4>2. QED  BY <1>2, <4>1, SameValue
    <3>4. QED  BY <2>5, <3>3 DEF new
  <2>6. CASE about
    <3> DEFINE k == n + 1
    <3>1. k \in DOMAIN new /\ new[k].name = name /\ Said(new, k, key) = {y}
      BY <1>3, <1>9, <2>2, <2>4, <2>6
    <3>2. \A i \in DOMAIN new : i # k /\ new[i].name = new[k].name => Said(new, i, key) = {}
      BY <1>6, <1>9, <2>1, <2>4, <2>6, <3>1
    <3> HIDE DEF k
    <3>3. ValueOf(new, new[k].name, key) = y.value
      <4>1. OnlySaid(new, k, key, y)
        BY <3>1, <3>2 DEF OnlySaid
      <4>2. QED  BY <1>2, <4>1, ThatValue
    <3>4. QED  BY <1>5, <2>6, <3>1, <3>3 DEF new
  <2>7. QED  BY <2>5, <2>6
<1>10. QED  BY <1>7, <1>8, <1>9

SavedEdit(e) ==
  /\ e \in EditSet
  /\ e.key = "image" => e.value \in Paths \cup {Blank, Unset}
  /\ \/ e.key # "color" /\ e.value = Unset
     \/ Legal(e.part, Pair(e.key, e.value))

LEMMA SavedColor ==
  ASSUME NEW e, SavedEdit(e), e.key = "color"
  PROVE  e.part = Top /\ e.value \in Colors \cup {AutoColor} /\ e.value # Unset
BY DataAssumption DEF SavedEdit, Legal, Pair, Other, AutoColor, Unset

\* and so is the colour above the sections, which `auto` leaves at the default
THEOREM PatchedColor ==
  ASSUME NEW doc, Text(doc), NEW e, SavedEdit(e)
  PROVE  PlainColor(Patch(doc, e)[1].lines) =
           IF e.key # "color" THEN PlainColor(doc[1].lines)
           ELSE IF e.value = AutoColor THEN DefaultColor ELSE e.value
<1> DEFINE new == Patch(doc, e)
           y == Pair(e.key, e.value)
           at == Targets(doc, e)
<1>1. e \in EditSet
  BY DEF SavedEdit
<1>2. Text(new)
  BY <1>1, PatchKeepsText
<1>3. PICK p \in PartSet, q \in PartSet : p = doc[1] /\ q = new[1]
  BY <1>2, TextFacts
<1>4. 1 \in DOMAIN doc /\ Len(doc) \in Nat /\ DOMAIN doc = 1..Len(doc) /\ doc[1].name = Top
  BY TextFacts DEF Text
<1>5. p.lines \in Seq(Lines) /\ q.lines \in Seq(Lines)
  BY DEF PartSet
<1>6. CASE e.key # "color"
  <2>1. Plain \cap OfKey(e.key) = {} /\ Other \notin Plain
    BY <1>6 DEF Plain, OfKey, Other, Pair
  <2>2. LastIn(q.lines, Plain) = LastIn(p.lines, Plain)
    <3>1. CASE at # {} /\ 1 \in at
      <4>1. PICK owed \in BOOLEAN : owed = Owed(doc, e, 1)
        BY DEF Owed
      <4>2. q = PatchPart(p, e, owed)
        BY <1>1, <1>3, <1>4, <3>1, <4>1, PatchedText
      <4>3. \A K : K \cap OfKey(e.key) = {} => LastIn(q.lines, K) = LastIn(p.lines, K)
        <5>1. PartIsPatched(q, p, e, owed)
          BY <1>1, <4>2, PatchedPart
        <5>2. QED  BY <5>1 DEF PartIsPatched
      <4>4. QED  BY <2>1, <4>2, <4>3
    <3>2. CASE at # {} /\ 1 \notin at
      BY <1>1, <1>3, <1>4, <3>2, PatchedText
    <3>3. CASE at = {} /\ e.value = Unset
      BY <1>3, <3>3 DEF Patch
    <3>4. CASE at = {} /\ e.value # Unset
      <4>1. q.lines = p.lines \/ q.lines = Append(p.lines, Other)
        BY <1>1, <1>3, <1>4, <3>4, SectionAdded DEF SectionIsAdded
      <4>2. PICK l \in Seq(Lines), x \in Lines : l = p.lines /\ x = Other
        BY <1>5 DEF Lines
      <4>3. LastIn(Append(l, x), Plain) = LastIn(l, Plain)
        BY <2>1, <4>2, LastOfAppendLine
      <4>4. QED  BY <4>1, <4>2, <4>3
    <3>5. QED  BY <3>1, <3>2, <3>3, <3>4
  <2>3. PICK k \in Seq(Lines), l \in Seq(Lines) : k = p.lines /\ l = q.lines
    BY <1>5
  <2>4. /\ LastIn(k, Plain) = {} => PlainColor(k) = DefaultColor
        /\ LastIn(k, Plain) # {} => \E x \in Plain : LastIn(k, Plain) = {x} /\ PlainColor(k) = x.value
    BY PlainValue
  <2>5. /\ LastIn(l, Plain) = {} => PlainColor(l) = DefaultColor
        /\ LastIn(l, Plain) # {} => \E x \in Plain : LastIn(l, Plain) = {x} /\ PlainColor(l) = x.value
    BY PlainValue
  <2>6. PlainColor(l) = PlainColor(k)
    BY <2>2, <2>3, <2>4, <2>5
  <2>7. QED  BY <1>3, <1>6, <2>3, <2>6
<1>7. CASE e.key = "color"
  <2>1. e.part = Top /\ e.value # Unset
    BY <1>7, SavedColor
  <2>2. 1 \in at /\ at # {} /\ at \in SUBSET (1..Len(doc))
    BY <1>4, <2>1 DEF Targets
  <2>3. Owed(doc, e, 1)
    <3>1. Min(at) \in at /\ \A i \in at : Min(at) <= i
      <4> HIDE DEF at
      <4>1. QED  BY <1>4, <2>2, MinIsLeast
    <3>2. Min(at) = 1
      <4>1. Min(at) \in 1..Len(doc) /\ Min(at) <= 1
        BY <2>2, <3>1
      <4>2. QED  BY <1>4, <4>1
    <3>3. QED  BY <2>1, <3>2 DEF Owed
  <2>4. PICK owed \in BOOLEAN : owed
    OBVIOUS
  <2>5. q = PatchPart(p, e, owed)
    <3>1. owed = Owed(doc, e, 1)
      BY <2>3, <2>4 DEF Owed
    <3>2. QED  BY <1>1, <1>3, <1>4, <2>2, <3>1, PatchedText
  <2>6. \A K : K \subseteq OfKey(e.key) => LastIn(q.lines, K) = IF owed /\ y \in K THEN {y} ELSE {}
    <3>1. PartIsPatched(q, p, e, owed)
      BY <1>1, <2>5, PatchedPart
    <3>2. QED  BY <3>1 DEF PartIsPatched
  <2>7. Plain \subseteq OfKey(e.key) /\ (y \in Plain <=> e.value # AutoColor) /\ y.value = e.value
    BY <1>1, <1>7 DEF Plain, OfKey, Pair, EditSet, Lines
  <2> HIDE DEF y
  <2>8. LastIn(q.lines, Plain) = IF e.value # AutoColor THEN {y} ELSE {}
    BY <2>4, <2>5, <2>6, <2>7
  <2>9. PICK l \in Seq(Lines) : l = q.lines
    BY <1>5
  <2>10. /\ LastIn(l, Plain) = {} => PlainColor(l) = DefaultColor
         /\ LastIn(l, Plain) # {} => \E x \in Plain : LastIn(l, Plain) = {x} /\ PlainColor(l) = x.value
    BY PlainValue
  <2>11. PlainColor(l) = IF e.value = AutoColor THEN DefaultColor ELSE e.value
    BY <2>7, <2>8, <2>9, <2>10
  <2>12. QED  BY <1>3, <1>7, <2>9, <2>11
<1>8. QED  BY <1>6, <1>7

-----------------------------------------------------------------------------
(* Texts that load, and what they load as.                                 *)

LegalLines(name) ==
  {line \in Lines : /\ Legal(name, line)
                    /\ line.key = "image" => line.value \in Paths \cup {Blank}}

LEMMA LegalLine ==
  ASSUME NEW name, NEW line \in LegalLines(name)
  PROVE  /\ line \in Lines /\ Legal(name, line)
         /\ line.key = "image" => line.value \in Paths \cup {Blank}
BY DEF LegalLines

GoodText(doc) == Text(doc) /\ \A i \in DOMAIN doc : doc[i].lines \in Seq(LegalLines(doc[i].name))

\* the sections of any text fit in the table
SectionsFit == Cardinality(Names) <= MaxSections

LEMMA GoodIsLoadable ==
  ASSUME SectionsFit, NEW doc, GoodText(doc)
  PROVE  Loadable(doc)
<1> DEFINE sections == {doc[i].name : i \in 2..Len(doc)}
<1>1. Text(doc) /\ Len(doc) \in Nat /\ DOMAIN doc = 1..Len(doc) /\ \A i \in DOMAIN doc : doc[i] \in PartSet
  BY TextFacts DEF GoodText
<1>2. doc # Torn
  BY <1>1 DEF Text, Torn, Part, Top
<1>3. Cardinality(sections) <= MaxSections
  <2>1. sections \subseteq Names
    BY <1>1 DEF Text, PartSet, Parts
  <2>2. /\ IsFiniteSet(sections) /\ Cardinality(sections) <= Cardinality(Names)
        /\ Cardinality(sections) \in Nat /\ Cardinality(Names) \in Nat
    BY <2>1, DataAssumption, FS_Subset, FS_CardinalityType
  <2>3. QED  BY <2>2, BoundAssumption DEF SectionsFit
<1>4. ASSUME NEW i \in DOMAIN doc, NEW j \in DOMAIN doc[i].lines
      PROVE  Legal(doc[i].name, doc[i].lines[j])
  <2>1. PICK lines \in Seq(LegalLines(doc[i].name)) : lines = doc[i].lines
    BY DEF GoodText
  <2>2. PICK line \in LegalLines(doc[i].name) : line = lines[j]
    BY <2>1
  <2>3. Legal(doc[i].name, line)
    BY LegalLine
  <2>4. QED  BY <2>1, <2>2, <2>3
<1>5. QED  BY <1>2, <1>3, <1>4 DEF Loadable

LEMMA EditedLineIsLegal ==
  ASSUME NEW e, SavedEdit(e), e.value # Unset
  PROVE  Pair(e.key, e.value) \in LegalLines(e.part) /\ Other \in LegalLines(e.part)
BY DEF SavedEdit, EditSet, LegalLines, Lines, Legal, Pair, Other

\* an edit of a text that loads makes one
THEOREM PatchKeepsGood ==
  ASSUME NEW doc, GoodText(doc), NEW e, SavedEdit(e)
  PROVE  GoodText(Patch(doc, e))
<1> DEFINE new == Patch(doc, e)
           y == Pair(e.key, e.value)
<1>1. /\ Text(doc) /\ e \in EditSet /\ Text(new)
      /\ Len(doc) \in Nat /\ DOMAIN doc = 1..Len(doc) /\ DOMAIN new = 1..Len(new)
      /\ \A i \in DOMAIN doc : doc[i] \in PartSet
  BY PatchKeepsText, TextFacts DEF GoodText, SavedEdit
<1>2. CASE Targets(doc, e) # {}
  <2>1. SUFFICES ASSUME NEW i \in DOMAIN doc
                 PROVE  new[i].lines \in Seq(LegalLines(new[i].name))
    BY <1>1, <1>2, PatchedText DEF GoodText
  <2>2. new[i].name = doc[i].name
    BY <1>1, <1>2, PatchedText
  <2>3. CASE i \notin Targets(doc, e)
    <3>1. new[i] = doc[i]
      BY <1>1, <1>2, <2>3, PatchedText
    <3>2. QED  BY <3>1 DEF GoodText
  <2>4. CASE i \in Targets(doc, e)
    <3>1. PICK part \in PartSet, owed \in BOOLEAN : part = doc[i] /\ owed = Owed(doc, e, i)
      BY <1>1 DEF Owed
    <3>2. new[i] = PatchPart(part, e, owed)
      BY <1>1, <1>2, <2>4, <3>1, PatchedText
    <3>3. PartIsPatched(new[i], part, e, owed)
      BY <1>1, <3>2, PatchedPart
    <3>4. part.lines \in Seq(LegalLines(part.name))
      BY <3>1 DEF GoodText
    <3>5. owed => y \in LegalLines(part.name)
      <4>1. owed => e.value # Unset /\ part.name = e.part
        BY <2>4, <3>1 DEF Owed, Targets
      <4>2. QED  BY <4>1, EditedLineIsLegal
    <3> HIDE DEF new, y
    <3>6. QED  BY <2>2, <3>1, <3>3, <3>4, <3>5 DEF PartIsPatched, y
  <2>5. QED  BY <2>3, <2>4
<1>3. CASE Targets(doc, e) = {} /\ e.value = Unset
  BY <1>3 DEF Patch
<1>4. CASE Targets(doc, e) = {} /\ e.value # Unset
  <2> DEFINE n == Len(doc)
  <2>1. /\ Len(new) = n + 1 /\ new[n + 1] = Part(e.part, <<y>>)
        /\ \A i \in DOMAIN doc :
             /\ new[i].name = doc[i].name
             /\ new[i].lines = doc[i].lines \/ new[i].lines = Append(doc[i].lines, Other)
    <3>1. SectionIsAdded(new, doc, e)
      BY <1>1, <1>4, SectionAdded
    <3> HIDE DEF new
    <3>2. QED  BY <3>1 DEF SectionIsAdded
  <2>2. y \in LegalLines(e.part)
    BY <1>4, EditedLineIsLegal
  <2> HIDE DEF new, y
  <2>3. ASSUME NEW i \in DOMAIN doc
        PROVE  new[i].lines \in Seq(LegalLines(new[i].name))
    <3>1. doc[i].lines \in Seq(LegalLines(doc[i].name))
      BY DEF GoodText
    <3>2. Other \in LegalLines(doc[i].name)
      BY DEF LegalLines, Legal, Lines, Other, Pair
    <3> HIDE DEF GoodText
    <3>3. Append(doc[i].lines, Other) \in Seq(LegalLines(doc[i].name))
      BY <3>1, <3>2
    <3>4. QED  BY <2>1, <3>1, <3>3
  <2>4. new[n + 1].lines \in Seq(LegalLines(new[n + 1].name))
    <3>1. new[n + 1].lines = <<y>> /\ new[n + 1].name = e.part
      BY <2>1 DEF Part
    <3>2. <<y>> \in Seq(LegalLines(e.part))
      BY <2>2
    <3>3. QED  BY <3>1, <3>2
  <2>5. \A i \in DOMAIN new : i \in DOMAIN doc \/ i = n + 1
    BY <1>1, <2>1
  <2>6. GoodText(new)
    BY <1>1, <2>3, <2>4, <2>5 DEF GoodText
  <2>7. QED  BY <2>6 DEF new
<1>5. QED  BY <1>2, <1>3, <1>4

\* the settings of a text that loads
THEOREM GoodParses ==
  ASSUME NEW doc, GoodText(doc)
  PROVE  Parse(doc) \in Saved!Settings
<1>1. Text(doc) /\ doc \in Seq(PartSet) /\ 1 \in DOMAIN doc /\ doc[1] \in PartSet /\ doc[1].name = Top
  BY TextFacts DEF GoodText, Text
<1>2. ASSUME NEW i \in DOMAIN doc, NEW j \in DOMAIN doc[i].lines
      PROVE  doc[i].lines[j] \in LegalLines(doc[i].name)
  <2>1. PICK lines \in Seq(LegalLines(doc[i].name)) : lines = doc[i].lines
    BY DEF GoodText
  <2>2. QED  BY <2>1
<1>3. ASSUME NEW name, NEW key \in {"image", "fit"}
      PROVE  /\ key = "image" => ValueOf(doc, name, key) \in Paths \cup {Blank, Unset}
             /\ key = "fit" => ValueOf(doc, name, key) \in Fits \cup {Unset}
  <2>1. CASE ValueOf(doc, name, key) = Unset
    BY <2>1
  <2>2. CASE ValueOf(doc, name, key) # Unset
    <3>1. PICK i \in DOMAIN doc : \E j \in DOMAIN doc[i].lines :
            /\ doc[i].name = name /\ doc[i].lines[j].key = key
            /\ ValueOf(doc, name, key) = doc[i].lines[j].value
      BY <1>1, <2>2, ValueIsOfLine
    <3>2. PICK j \in DOMAIN doc[i].lines :
            /\ doc[i].name = name /\ doc[i].lines[j].key = key
            /\ ValueOf(doc, name, key) = doc[i].lines[j].value
      BY <3>1
    <3>3. PICK line \in LegalLines(doc[i].name) : line = doc[i].lines[j]
      BY <1>2
    <3>4. key = "image" => line.value \in Paths \cup {Blank}
      BY <3>2, <3>3, LegalLine
    <3>5. key = "fit" => line.value \in Fits
      <4>1. line.key = key /\ Legal(doc[i].name, line)
        BY <3>2, <3>3, LegalLine
      <4>2. QED  BY <4>1 DEF Legal, Other, Pair
    <3>6. QED  BY <3>2, <3>3, <3>4, <3>5
  <2>3. QED  BY <2>1, <2>2
<1>4. PlainColor(doc[1].lines) \in Colors
  <2>1. PICK lines \in Seq(Lines) : lines = doc[1].lines
    BY <1>1 DEF PartSet
  <2>2. PlainColor(lines) = DefaultColor \/
          \E j \in DOMAIN lines : /\ lines[j].key = "color" /\ lines[j].value # AutoColor
                                  /\ PlainColor(lines) = lines[j].value
    BY PlainIsColor
  <2>3. ASSUME NEW j \in DOMAIN lines, lines[j].key = "color", lines[j].value # AutoColor
        PROVE  lines[j].value \in Colors
    <3>1. PICK line \in LegalLines(Top) : line = lines[j]
      BY <1>1, <1>2, <2>1
    <3>2. Legal(Top, line)
      BY LegalLine
    <3>3. QED  BY <2>3, <3>1, <3>2 DEF Legal, Other, Pair
  <2>4. QED  BY <2>1, <2>2, <2>3, DataAssumption
<1>5. QED
  <2>1. /\ ValueOf(doc, Top, "image") \in Paths \cup {Blank, Unset}
        /\ ValueOf(doc, Top, "fit") \in Fits \cup {Unset}
        /\ \A n \in Names : /\ ValueOf(doc, n, "image") \in Paths \cup {Blank, Unset}
                            /\ ValueOf(doc, n, "fit") \in Fits \cup {Unset}
    BY <1>3
  <2>2. (ValueOf(doc, Top, "color") = AutoColor) \in BOOLEAN
    OBVIOUS
  <2>3. QED  BY <1>4, <2>1, <2>2 DEF Parse, Saved!Settings, Saved!Images

LEMMA SetField ==
  ASSUME NEW r, NEW a, NEW b, NEW v, r = [image |-> a, fit |-> b]
  PROVE  /\ [r EXCEPT !.image = v] = [image |-> v, fit |-> b]
         /\ [r EXCEPT !.fit = v] = [image |-> a, fit |-> v]
OBVIOUS

\* What is loaded from an edited text is the edit of what was loaded from the
\* text: line by line, config_patch does what config_parse reads.
THEOREM LoadPatch ==
  ASSUME SectionsFit, NEW doc, GoodText(doc), NEW e, SavedEdit(e)
  PROVE  Load(Patch(doc, e)) = Saved!Edited(Load(doc), e)
<1> DEFINE new == Patch(doc, e)
           s == Parse(doc)
           t == Parse(new)
           top == e.part = Top /\ e.value = Unset
<1>1. /\ Text(doc) /\ e \in EditSet /\ GoodText(new)
      /\ Load(doc) = s /\ Load(new) = t
  BY GoodIsLoadable, PatchKeepsGood DEF GoodText, SavedEdit, Load
<1>2. ASSUME NEW name \in Parts, NEW key \in Keys
      PROVE  ValueOf(new, name, key) =
               IF key = e.key /\ (name = e.part \/ top) THEN e.value ELSE ValueOf(doc, name, key)
  BY <1>1, PatchedValue
<1>3. PlainColor(new[1].lines) =
        IF e.key # "color" THEN PlainColor(doc[1].lines)
        ELSE IF e.value = AutoColor THEN DefaultColor ELSE e.value
  BY <1>1, PatchedColor
<1>same. SUFFICES t = Saved!Edited(s, e)
  BY <1>1
<1> HIDE DEF new
<1>4. /\ t.image = IF e.key = "image" /\ e.part = Top THEN e.value ELSE s.image
      /\ t.fit = IF e.key = "fit" /\ e.part = Top THEN e.value ELSE s.fit
  BY <1>2 DEF Parse, Keys, Parts
<1>5. /\ e.key # "color" => t.color = s.color /\ t.auto = s.auto
      /\ e.key = "color" => /\ t.color = (IF e.value = AutoColor THEN DefaultColor ELSE e.value)
                            /\ t.auto = (e.value = AutoColor)
  <2>1. ValueOf(new, Top, "color") = IF e.key = "color" THEN e.value ELSE ValueOf(doc, Top, "color")
    BY <1>2, SavedColor DEF Keys, Parts
  <2>2. /\ t.color = PlainColor(new[1].lines) /\ s.color = PlainColor(doc[1].lines)
        /\ t.auto = (ValueOf(new, Top, "color") = AutoColor)
        /\ s.auto = (ValueOf(doc, Top, "color") = AutoColor)
    BY DEF Parse
  <2>3. QED  BY <1>3, <2>1, <2>2
<1>6. ASSUME NEW n \in Names
      PROVE  /\ t.over[n].image = IF e.key = "image" /\ (n = e.part \/ top) THEN e.value ELSE s.over[n].image
             /\ t.over[n].fit = IF e.key = "fit" /\ (n = e.part \/ top) THEN e.value ELSE s.over[n].fit
             /\ s.over[n] = [image |-> s.over[n].image, fit |-> s.over[n].fit]
             /\ t.over[n] = [image |-> t.over[n].image, fit |-> t.over[n].fit]
  BY <1>2 DEF Parse, Keys, Parts
<1>7. /\ s = [image |-> s.image, fit |-> s.fit, color |-> s.color, auto |-> s.auto, over |-> s.over]
      /\ t = [image |-> t.image, fit |-> t.fit, color |-> t.color, auto |-> t.auto, over |-> t.over]
      /\ s.over = [n \in Names |-> s.over[n]] /\ t.over = [n \in Names |-> t.over[n]]
  BY DEF Parse
<1> HIDE DEF s, t
<1>8. CASE e.key = "color"
  <2>1. e.part = Top /\ e.value # Unset
    BY <1>8, SavedColor
  <2>2. t.over = s.over
    <3>1. \A n \in Names : t.over[n] = s.over[n]
      BY <1>6, <1>8
    <3>2. QED  BY <1>7, <3>1
  <2>3. Saved!Edited(s, e) = [image |-> s.image, fit |-> s.fit, color |-> t.color, auto |-> t.auto, over |-> s.over]
    BY <1>5, <1>7, <1>8, <2>1 DEF Saved!Edited, Saved!EditedTop
  <2>4. QED  BY <1>1, <1>4, <1>7, <1>8, <2>2, <2>3
<1>9. CASE e.key = "image"
  <2>1. CASE e.part = Top /\ e.value # Unset
    <3>1. t.over = s.over
      <4>1. \A n \in Names : t.over[n] = s.over[n]
        BY <1>6, <1>9, <2>1, DataAssumption
      <4>2. QED  BY <1>7, <4>1
    <3>2. Saved!Edited(s, e) = [image |-> e.value, fit |-> s.fit, color |-> s.color, auto |-> s.auto, over |-> s.over]
      BY <1>7, <1>9, <2>1 DEF Saved!Edited, Saved!EditedTop
    <3>3. QED  BY <1>1, <1>4, <1>5, <1>7, <1>9, <2>1, <3>1, <3>2
  <2>2. CASE top
    <3> DEFINE over == [n \in Names |-> [s.over[n] EXCEPT !.image = Unset]]
    <3>1. t.over = over
      <4>1. \A n \in Names : t.over[n] = [s.over[n] EXCEPT !.image = Unset]
        BY <1>6, <1>9, <2>2
      <4>2. QED  BY <1>7, <4>1
    <3>2. Saved!Edited(s, e) = [image |-> Unset, fit |-> s.fit, color |-> s.color, auto |-> s.auto, over |-> over]
      BY <1>7, <1>9, <2>2 DEF Saved!Edited, Saved!EditedTop
    <3>3. QED  BY <1>1, <1>4, <1>5, <1>7, <1>9, <2>2, <3>1, <3>2
  <2>3. CASE e.part # Top
    <3>1. e.part \in Names
      BY <1>1, <2>3 DEF EditSet, Parts
    <3> DEFINE over == [s.over EXCEPT ![e.part].image = e.value]
    <3>2. t.over = over
      <4>1. ASSUME NEW n \in Names PROVE t.over[n] = over[n]
        <5>1. CASE n = e.part
          <6>1. over[n] = [s.over[n] EXCEPT !.image = e.value]
            BY <1>7, <3>1, <5>1
          <6>2. over[n] = [image |-> e.value, fit |-> s.over[n].fit]
            <7> HIDE DEF over
            <7>1. QED  BY <1>6, <6>1, SetField
          <6>3. t.over[n] = [image |-> e.value, fit |-> s.over[n].fit]
            BY <1>6, <1>9, <5>1
          <6>4. QED  BY <6>2, <6>3
        <5>2. CASE n # e.part
          <6>1. over[n] = s.over[n]
            BY <1>7, <3>1, <5>2
          <6>2. QED  BY <1>6, <1>9, <2>3, <5>2, <6>1
        <5>3. QED  BY <5>1, <5>2
      <4>2. over = [n \in Names |-> over[n]]
        BY <1>7
      <4> HIDE DEF over
      <4>3. QED  BY <1>7, <4>1, <4>2
    <3>3. Saved!Edited(s, e) = [image |-> s.image, fit |-> s.fit, color |-> s.color, auto |-> s.auto, over |-> over]
      BY <1>7, <1>9, <2>3 DEF Saved!Edited
    <3>4. QED  BY <1>1, <1>4, <1>5, <1>7, <1>9, <2>3, <3>2, <3>3
  <2>4. QED  BY <2>1, <2>2, <2>3
<1>10. CASE e.key = "fit"
  <2>1. CASE e.part = Top /\ e.value # Unset
    <3>1. t.over = s.over
      <4>1. \A n \in Names : t.over[n] = s.over[n]
        BY <1>6, <1>10, <2>1, DataAssumption
      <4>2. QED  BY <1>7, <4>1
    <3>2. Saved!Edited(s, e) = [image |-> s.image, fit |-> e.value, color |-> s.color, auto |-> s.auto, over |-> s.over]
      BY <1>7, <1>10, <2>1 DEF Saved!Edited, Saved!EditedTop
    <3>3. QED  BY <1>1, <1>4, <1>5, <1>7, <1>10, <2>1, <3>1, <3>2
  <2>2. CASE top
    <3> DEFINE over == [n \in Names |-> [s.over[n] EXCEPT !.fit = Unset]]
    <3>1. t.over = over
      <4>1. \A n \in Names : t.over[n] = [s.over[n] EXCEPT !.fit = Unset]
        BY <1>6, <1>10, <2>2
      <4>2. QED  BY <1>7, <4>1
    <3>2. Saved!Edited(s, e) = [image |-> s.image, fit |-> Unset, color |-> s.color, auto |-> s.auto, over |-> over]
      BY <1>7, <1>10, <2>2 DEF Saved!Edited, Saved!EditedTop
    <3>3. QED  BY <1>1, <1>4, <1>5, <1>7, <1>10, <2>2, <3>1, <3>2
  <2>3. CASE e.part # Top
    <3>1. e.part \in Names
      BY <1>1, <2>3 DEF EditSet, Parts
    <3> DEFINE over == [s.over EXCEPT ![e.part].fit = e.value]
    <3>2. t.over = over
      <4>1. ASSUME NEW n \in Names PROVE t.over[n] = over[n]
        <5>1. CASE n = e.part
          <6>1. over[n] = [s.over[n] EXCEPT !.fit = e.value]
            BY <1>7, <3>1, <5>1
          <6>2. over[n] = [image |-> s.over[n].image, fit |-> e.value]
            <7> HIDE DEF over
            <7>1. QED  BY <1>6, <6>1, SetField
          <6>3. t.over[n] = [image |-> s.over[n].image, fit |-> e.value]
            BY <1>6, <1>10, <5>1
          <6>4. QED  BY <6>2, <6>3
        <5>2. CASE n # e.part
          <6>1. over[n] = s.over[n]
            BY <1>7, <3>1, <5>2
          <6>2. QED  BY <1>6, <1>10, <2>3, <5>2, <6>1
        <5>3. QED  BY <5>1, <5>2
      <4>2. over = [n \in Names |-> over[n]]
        BY <1>7
      <4> HIDE DEF over
      <4>3. QED  BY <1>7, <4>1, <4>2
    <3>3. Saved!Edited(s, e) = [image |-> s.image, fit |-> s.fit, color |-> s.color, auto |-> s.auto, over |-> over]
      BY <1>7, <1>10, <2>3 DEF Saved!Edited
    <3>4. QED  BY <1>1, <1>4, <1>5, <1>7, <1>10, <2>3, <3>2, <3>3
  <2>4. QED  BY <2>1, <2>2, <2>3
<1>11. QED  BY <1>1, <1>8, <1>9, <1>10 DEF EditSet, Keys

-----------------------------------------------------------------------------
(* What a stage makes of the daemon, edit by edit.                         *)

\* f is what FoldLeft computes on the way, for the sets of the first m edits
Folds(f, d, edits, m) ==
  f = [s \in SUBSET (1..m) |->
         IF s = {} THEN d ELSE Change(f[s \ {Max(s)}], edits[Max(s)])]

LEMMA FoldExists ==
  ASSUME NEW d, NEW edits, NEW n \in Nat
  PROVE  \E f : Folds(f, d, edits, n)
<1> DEFINE T == {m \in Nat : \E f : Folds(f, d, edits, m)}
<1>1. 0 \in T
  <2> DEFINE f == [s \in SUBSET (1..0) |-> d]
  <2>1. 1..0 = {}
    OBVIOUS
  <2>2. Folds(f, d, edits, 0)
    BY <2>1 DEF Folds
  <2>3. QED  BY <2>2
<1>2. ASSUME NEW m \in T PROVE m + 1 \in T
  <2>1. PICK f : Folds(f, d, edits, m)
    OBVIOUS
  <2>2. m \in Nat
    OBVIOUS
  <2> DEFINE k == m + 1
             g == [s \in SUBSET (1..k) |-> IF k \in s THEN Change(f[s \ {k}], edits[k]) ELSE f[s]]
  <2>3. k \in Nat /\ SUBSET (1..m) \subseteq SUBSET (1..k) /\ {} \in SUBSET (1..m)
        /\ \A s \in SUBSET (1..k) : s \ {k} \in SUBSET (1..m) /\ (k \notin s => s \in SUBSET (1..m))
        /\ \A i \in 1..k : i <= k
    BY <2>2
  <2>out. k \notin 1..m
    BY <2>2
  <2> HIDE DEF T, k
  <2>4. \A s \in SUBSET (1..m) : g[s] = f[s]
    BY <2>3, <2>out
  <2>5. ASSUME NEW s \in SUBSET (1..k)
        PROVE  g[s] = IF s = {} THEN d ELSE Change(g[s \ {Max(s)}], edits[Max(s)])
    <3>1. CASE k \in s
      <4>1. Max(s) = k
        <5>1. Max(s) \in s /\ \A i \in s : i <= Max(s)
          BY <2>3, <3>1, MaxIsGreatest
        <5>2. Max(s) \in 1..k /\ k <= Max(s)
          BY <3>1, <5>1
        <5>3. QED  BY <2>3, <5>2
      <4>2. g[s] = Change(f[s \ {k}], edits[k])
        BY <3>1
      <4>3. g[s \ {k}] = f[s \ {k}]
        BY <2>3, <2>4
      <4> HIDE DEF g
      <4>4. QED  BY <3>1, <4>1, <4>2, <4>3
    <3>2. CASE k \notin s
      <4>1. s \in SUBSET (1..m) /\ s \ {Max(s)} \in SUBSET (1..m)
        BY <2>3, <3>2
      <4>2. f[s] = IF s = {} THEN d ELSE Change(f[s \ {Max(s)}], edits[Max(s)])
        BY <2>1, <4>1 DEF Folds
      <4>3. g[s] = f[s] /\ g[s \ {Max(s)}] = f[s \ {Max(s)}]
        BY <2>4, <4>1
      <4> HIDE DEF g
      <4>4. QED  BY <4>2, <4>3
    <3>3. QED  BY <3>1, <3>2
  <2>6. Folds(g, d, edits, k)
    BY <2>5 DEF Folds
  <2>7. QED  BY <2>3, <2>6 DEF T, k
<1>3. T = Nat
  <2>1. T \subseteq Nat
    OBVIOUS
  <2> HIDE DEF T
  <2>2. QED  BY <1>1, <1>2, <2>1, NatSubsets
<1>4. QED  BY <1>3

Folded(d, edits) == FoldLeft(Change, d, edits)

\* g has the results on the way
FoldsBy(g, d, edits) ==
  /\ Folded(d, edits) = g[Len(edits)] /\ g[0] = d
  /\ \A i \in 0..Len(edits) - 1 : g[i + 1] = Change(g[i], edits[i + 1])

LEMMA FoldSteps ==
  ASSUME NEW S, NEW edits \in Seq(S), NEW d
  PROVE  \E g : FoldsBy(g, d, edits)
<1> DEFINE n == Len(edits)
           iter == CHOOSE f : Folds(f, d, edits, n)
           g == [i \in 0..n |-> iter[1..i]]
<1>1. n \in Nat /\ DOMAIN edits = 1..n
  BY LenProperties
<1>2. Folds(iter, d, edits, n)
  <2> HIDE DEF n
  <2>1. QED  BY <1>1, FoldExists
<1>3. Folded(d, edits) = iter[1..n]
  BY <1>1 DEF Folded, FoldLeft, MapThenFoldSet, Folds
<1> HIDE DEF iter, n
<1>4. g[0] = d
  <2>1. 1..0 = {} /\ 0 \in 0..n
    BY <1>1
  <2>2. iter[{}] = d
    BY <1>2 DEF Folds
  <2>3. QED  BY <2>1, <2>2
<1>5. ASSUME NEW i \in 0..n - 1 PROVE g[i + 1] = Change(g[i], edits[i + 1])
  <2> DEFINE k == i + 1
  <2>1. /\ i \in 0..n /\ k \in 0..n /\ k \in 1..k /\ k \in Nat
        /\ 1..k \in SUBSET (1..n) /\ (1..k) \ {k} = 1..i /\ \A j \in 1..k : j <= k
    BY <1>1
  <2> HIDE DEF k
  <2>2. Max(1..k) = k
    <3>1. 1..k # {}
      BY <2>1
    <3>2. Max(1..k) \in 1..k /\ \A j \in 1..k : j <= Max(1..k)
      BY <2>1, <3>1, MaxIsGreatest
    <3>3. QED  BY <2>1, <3>2
  <2>3. iter[1..k] = IF 1..k = {} THEN d ELSE Change(iter[(1..k) \ {Max(1..k)}], edits[Max(1..k)])
    BY <1>2, <2>1 DEF Folds
  <2>4. iter[1..k] = Change(iter[1..i], edits[k])
    BY <2>1, <2>2, <2>3
  <2>5. g[k] = Change(g[i], edits[k])
    BY <2>1, <2>4
  <2>6. QED  BY <2>5 DEF k
<1>6. Folded(d, edits) = g[n]
  BY <1>1, <1>3
<1> HIDE DEF g
<1>7. FoldsBy(g, d, edits)
  BY <1>4, <1>5, <1>6 DEF n, FoldsBy
<1>8. QED  BY <1>7

\* the first edit may be made before the others
LEMMA FoldHead ==
  ASSUME NEW S, NEW edits \in Seq(S), edits # << >>, NEW d
  PROVE  Folded(d, edits) = Folded(Change(d, Head(edits)), Tail(edits))
<1> DEFINE n == Len(edits)
           rest == Tail(edits)
           first == Change(d, Head(edits))
<1>1. n \in Nat /\ n >= 1 /\ Head(edits) = edits[1]
  BY EmptySeq
<1>2. rest \in Seq(S) /\ Len(rest) = n - 1 /\ \A i \in 1..n - 1 : rest[i] = edits[i + 1]
  BY HeadTailProperties
<1>by. PICK g : FoldsBy(g, d, edits)
  BY FoldSteps
<1>3. /\ Folded(d, edits) = g[n] /\ g[0] = d
      /\ \A i \in 0..n - 1 : g[i + 1] = Change(g[i], edits[i + 1])
  BY <1>by DEF FoldsBy
<1>rest. PICK h : FoldsBy(h, first, rest)
  <2> HIDE DEF rest, first
  <2>1. QED  BY <1>2, FoldSteps
<1> HIDE DEF rest
<1>4. /\ Folded(first, rest) = h[Len(rest)] /\ h[0] = first
      /\ \A i \in 0..Len(rest) - 1 : h[i + 1] = Change(h[i], rest[i + 1])
  BY <1>rest DEF FoldsBy
<1> HIDE DEF n
<1> DEFINE T == {i \in Nat : i <= n - 1 => h[i] = g[i + 1]}
<1>5. 0 \in T
  BY <1>1, <1>3, <1>4
<1>6. ASSUME NEW i \in T PROVE i + 1 \in T
  <2>1. i \in Nat /\ (i <= n - 1 => h[i] = g[i + 1])
    OBVIOUS
  <2> HIDE DEF T
  <2> DEFINE k == i + 1
  <2>2. ASSUME k <= n - 1 PROVE h[k] = g[k + 1]
    <3>1. i \in 0..Len(rest) - 1 /\ k \in 0..n - 1 /\ k \in 1..n - 1 /\ i <= n - 1
      BY <1>1, <1>2, <2>1, <2>2
    <3>2. h[k] = Change(h[i], rest[k])
      BY <1>4, <3>1
    <3>3. g[k + 1] = Change(g[k], edits[k + 1])
      BY <1>3, <3>1
    <3>4. rest[k] = edits[k + 1]
      BY <1>2, <3>1
    <3>5. QED  BY <2>1, <3>1, <3>2, <3>3, <3>4
  <2>3. QED  BY <2>1, <2>2 DEF T
<1>7. T = Nat
  <2>1. T \subseteq Nat
    OBVIOUS
  <2> HIDE DEF T
  <2>2. QED  BY <1>5, <1>6, <2>1, NatSubsets
<1>8. n - 1 \in T /\ (n - 1) + 1 = n
  BY <1>1, <1>7
<1>9. QED  BY <1>2, <1>3, <1>4, <1>8 DEF rest

LEMMA FoldOfNone ==
  ASSUME NEW d PROVE  Folded(d, << >>) = d
<1> DEFINE none == << >>
<1>1. none \in Seq({}) /\ Len(none) = 0
  BY EmptySeq
<1> HIDE DEF none
<1>2. PICK g : FoldsBy(g, d, none)
  BY <1>1, FoldSteps
<1>3. QED  BY <1>1, <1>2 DEF none, FoldsBy

-----------------------------------------------------------------------------
(* Every text the runners and the disk hold is one of a set that edits      *)
(* never leave.                                                            *)

Stages == UNION {Range(cmd) : cmd \in Commands}

Busy == {"read", "write", "rename"}    \* saving an edit

RunnerSet(T) ==
  [pc : {"idle", "request"} \cup Busy, stages : Seq(Stages), saves : Seq(Edits),
   read : T, temp : [text : T, synced : BOOLEAN]]

RunnerOK(r) ==
  /\ r.pc # "idle" => r.stages # << >>
  /\ r.pc \in Busy => r.saves # << >>
  /\ r.pc = "rename" => r.temp = Written(Patch(r.read, Head(r.saves)))

PersistInv(T) ==
  /\ file \in T /\ stable \in T /\ synced = TRUE
  /\ proc \in [Runners -> RunnerSet(T)]
  /\ \A p \in Runners : RunnerOK(proc[p])

Closed(T) == Missing \in T /\ \A doc \in T, e \in Edits : Patch(doc, e) \in T

LEMMA StageEdits ==
  /\ \A cmd \in Commands : cmd \in Seq(Stages) /\ cmd # << >>
  /\ \A stage \in Stages : stage.edits \in Seq(Edits) /\ stage.edits # << >>
  /\ \A e \in Edits : SavedEdit(e)
<1> DEFINE StageSet == [part : Parts, edits : Seq(EditSet)]
<1>1. ASSUME NEW cmd \in Commands
      PROVE  /\ cmd \in Seq(StageSet) /\ cmd # << >>
             /\ \A i \in DOMAIN cmd :
                  /\ cmd[i].edits # << >>
                  /\ \A j \in DOMAIN cmd[i].edits : SavedEdit(cmd[i].edits[j])
  <2>1. cmd \in Seq(StageSet) /\ cmd # << >>
    BY CommandAssumption
  <2>2. ASSUME NEW i \in DOMAIN cmd
        PROVE  cmd[i].edits # << >> /\ \A j \in DOMAIN cmd[i].edits : SavedEdit(cmd[i].edits[j])
    <3>1. cmd[i] \in StageSet
      <4> HIDE DEF StageSet
      <4>1. QED  BY <2>1
    <3>2. ASSUME NEW j \in DOMAIN cmd[i].edits
          PROVE  SavedEdit(cmd[i].edits[j])
      <4>1. cmd[i].edits[j] \in EditSet
        <5>1. PICK edits \in Seq(EditSet) : edits = cmd[i].edits
          BY <3>1
        <5>2. QED  BY <5>1
      <4> DEFINE e == cmd[i].edits[j]
      <4>2. /\ e.key = "image" => e.value \in Paths \cup {Blank, Unset}
            /\ \/ e.key # "color" /\ e.value = Unset
               \/ Legal(e.part, Pair(e.key, e.value))
        BY CommandAssumption
      <4>3. QED  BY <4>1, <4>2 DEF SavedEdit
    <3>3. QED  BY <3>2, CommandAssumption
  <2>3. QED  BY <2>1, <2>2
<1>2. ASSUME NEW cmd \in Commands PROVE cmd \in Seq(Stages)
  <2>1. cmd \in Seq(Range(cmd))
    BY <1>1, SeqOfRange
  <2>2. Range(cmd) \subseteq Stages
    BY DEF Stages
  <2>3. QED  BY <2>1, <2>2, SeqMonotonic
<1>3. ASSUME NEW stage \in Stages
      PROVE  stage.edits \in Seq(Edits) /\ stage.edits # << >>
  <2>1. PICK cmd \in Commands : stage \in Range(cmd)
    BY DEF Stages
  <2>2. PICK i \in DOMAIN cmd : stage = cmd[i]
    BY <2>1 DEF Range
  <2>3. stage \in StageSet /\ stage.edits # << >>
    <3>1. cmd \in Seq(StageSet) /\ cmd[i].edits # << >>
      BY <1>1
    <3> HIDE DEF StageSet
    <3>2. QED  BY <2>2, <3>1
  <2>4. stage.edits \in Seq(Range(stage.edits))
    BY <2>3, SeqOfRange
  <2>5. Range(stage.edits) \subseteq Edits
    BY DEF Edits, Stages
  <2>6. QED  BY <2>3, <2>4, <2>5, SeqMonotonic
<1>4. ASSUME NEW e \in Edits PROVE SavedEdit(e)
  <2>1. PICK stage \in Stages : e \in Range(stage.edits)
    BY DEF Edits, Stages
  <2>2. PICK cmd \in Commands : stage \in Range(cmd)
    BY DEF Stages
  <2>3. PICK i \in DOMAIN cmd : stage = cmd[i]
    BY <2>2 DEF Range
  <2>4. PICK j \in DOMAIN cmd[i].edits : e = cmd[i].edits[j]
    BY <2>1, <2>3 DEF Range
  <2>5. QED  BY <1>1, <2>4
<1>5. QED  BY <1>1, <1>2, <1>3, <1>4

LEMMA TailOfLong ==
  ASSUME NEW S, NEW s \in Seq(S), Len(s) > 1
  PROVE  Tail(s) \in Seq(S) /\ Tail(s) # << >>
<1>1. s # << >>
  BY EmptySeq
<1>2. Tail(s) \in Seq(S) /\ Len(Tail(s)) = Len(s) - 1
  BY <1>1, HeadTailProperties
<1>3. Tail(s) # << >>
  <2>1. Len(Tail(s)) # 0
    BY <1>2
  <2> DEFINE t == Tail(s)
  <2> HIDE DEF t
  <2>2. Len(t) # 0 => t # << >>
    OBVIOUS
  <2>3. QED  BY <2>1, <2>2 DEF t
<1>4. QED  BY <1>2, <1>3

LEMMA IdleRunner ==
  ASSUME NEW T, Missing \in T
  PROVE  Idle \in RunnerSet(T) /\ RunnerOK(Idle) /\ Idle.pc = "idle"
BY DEF Idle, NoFile, RunnerSet, RunnerOK, Busy

LEMMA RequestRunner ==
  ASSUME NEW T, Missing \in T, NEW stages \in Seq(Stages), stages # << >>
  PROVE  LET r == [Idle EXCEPT !.pc = "request", !.stages = stages]
         IN r \in RunnerSet(T) /\ RunnerOK(r) /\ r.pc = "request"
<1> DEFINE r == [Idle EXCEPT !.pc = "request", !.stages = stages]
<1>1. PICK i \in RunnerSet(T) : i = Idle
  BY IdleRunner
<1>2. r = [i EXCEPT !.pc = "request", !.stages = stages]
  BY <1>1
<1> HIDE DEF r
<1>3. r \in RunnerSet(T) /\ r.pc = "request" /\ r.stages = stages
  BY <1>2 DEF RunnerSet
<1>4. QED  BY <1>3 DEF RunnerOK, Busy, r

LEMMA NextStageType ==
  ASSUME NEW T, Missing \in T, NEW r \in RunnerSet(T)
  PROVE  /\ Idle \in RunnerSet(T) /\ RunnerOK(Idle) /\ Idle.pc = "idle"
         /\ NextStage(r) \in RunnerSet(T) /\ RunnerOK(NextStage(r))
         /\ NextStage(r).pc \in {"idle", "request"}
<1>1. Idle \in RunnerSet(T) /\ RunnerOK(Idle) /\ Idle.pc = "idle"
  BY IdleRunner
<1>2. CASE Len(r.stages) > 1
  <2>1. r.stages \in Seq(Stages)
    BY DEF RunnerSet
  <2>2. PICK rest \in Seq(Stages) : rest = Tail(r.stages) /\ rest # << >>
    BY <1>2, <2>1, TailOfLong
  <2>3. NextStage(r) = [Idle EXCEPT !.pc = "request", !.stages = rest]
    BY <1>2, <2>2 DEF NextStage
  <2>4. LET r2 == [Idle EXCEPT !.pc = "request", !.stages = rest]
        IN r2 \in RunnerSet(T) /\ RunnerOK(r2) /\ r2.pc = "request"
    BY <2>2, RequestRunner
  <2>5. QED  BY <1>1, <2>3, <2>4
<1>3. CASE ~(Len(r.stages) > 1)
  BY <1>1, <1>3 DEF NextStage
<1>4. QED  BY <1>1, <1>2, <1>3

LEMMA NextSaveType ==
  ASSUME NEW T, Missing \in T, NEW r \in RunnerSet(T), r.pc \in Busy, RunnerOK(r)
  PROVE  /\ NextSave(r) \in RunnerSet(T) /\ RunnerOK(NextSave(r))
         /\ NextSave(r).pc \in {"idle", "request", "read"}
<1>1. CASE Len(r.saves) > 1
  <2>1. r.saves \in Seq(Edits)
    BY DEF RunnerSet
  <2>2. PICK rest \in Seq(Edits) : rest = Tail(r.saves) /\ rest # << >>
    BY <1>1, <2>1, TailOfLong
  <2>3. NextSave(r) = [r EXCEPT !.pc = "read", !.saves = rest, !.read = Missing, !.temp = NoFile]
    BY <1>1, <2>2 DEF NextSave
  <2>4. NoFile \in [text : T, synced : BOOLEAN]
    BY DEF NoFile
  <2>5. /\ NextSave(r) \in RunnerSet(T) /\ NextSave(r).pc = "read"
        /\ NextSave(r).saves = rest /\ NextSave(r).stages = r.stages
    BY <2>3, <2>4 DEF RunnerSet, Busy
  <2>6. r.stages # << >>
    BY DEF RunnerOK, Busy
  <2>7. QED  BY <2>2, <2>5, <2>6 DEF RunnerOK
<1>2. CASE ~(Len(r.saves) > 1)
  BY <1>2, NextStageType DEF NextSave
<1>3. QED  BY <1>1, <1>2

\* one runner moves and the disk stays as it is
LEMMA RunnerMoves ==
  ASSUME NEW T, NEW p \in Runners, NEW r \in RunnerSet(T), RunnerOK(r), PersistInv(T),
         proc' = [proc EXCEPT ![p] = r], file' \in T, stable' \in T, synced' = TRUE
  PROVE  PersistInv(T)'
BY DEF PersistInv

LEMMA PersistInvStep ==
  ASSUME NEW T, Closed(T), PersistInv(T), [Next]_vars
  PROVE  PersistInv(T)'
<1>1. /\ Missing \in T /\ file \in T /\ stable \in T /\ synced = TRUE
      /\ proc \in [Runners -> RunnerSet(T)]
      /\ \A p \in Runners : proc[p] \in RunnerSet(T) /\ RunnerOK(proc[p])
  BY DEF Closed, PersistInv
<1>2. ASSUME NEW p \in Runners, NEW cmd \in Commands, Type(p, cmd) PROVE PersistInv(T)'
  <2> DEFINE r == [Idle EXCEPT !.pc = "request", !.stages = cmd]
  <2>1. cmd \in Seq(Stages) /\ cmd # << >>
    BY StageEdits
  <2>2. r \in RunnerSet(T) /\ RunnerOK(r)
    BY <1>1, <2>1, RequestRunner
  <2>3. proc' = [proc EXCEPT ![p] = r] /\ UNCHANGED <<file, synced, stable>>
    BY <1>2 DEF Type
  <2> HIDE DEF r
  <2>4. QED  BY <1>1, <2>2, <2>3, RunnerMoves
<1>3. ASSUME NEW p \in Runners, Request(p) PROVE PersistInv(T)'
  <2> DEFINE old == proc[p]
             saves == Head(old.stages).edits
             r == [old EXCEPT !.pc = "read", !.saves = saves]
  <2>1. old \in RunnerSet(T) /\ RunnerOK(old) /\ old.pc = "request"
    BY <1>1, <1>3 DEF Request
  <2>2. proc' = [proc EXCEPT ![p] = r] /\ UNCHANGED <<file, synced, stable>>
    BY <1>3 DEF Request
  <2> HIDE DEF old
  <2>3. old.stages \in Seq(Stages) /\ old.stages # << >>
    BY <2>1 DEF RunnerSet, RunnerOK
  <2>4. Head(old.stages) \in Stages
    BY <2>3
  <2>5. saves \in Seq(Edits) /\ saves # << >>
    BY <2>4, StageEdits
  <2> HIDE DEF saves
  <2>6. r \in RunnerSet(T) /\ r.pc = "read" /\ r.stages = old.stages /\ r.saves = saves
    BY <2>1, <2>5 DEF RunnerSet, Busy
  <2>7. RunnerOK(r)
    BY <2>3, <2>5, <2>6 DEF RunnerOK
  <2> HIDE DEF r
  <2>8. QED  BY <1>1, <2>2, <2>6, <2>7, RunnerMoves
<1>4. ASSUME NEW p \in Runners, RequestFails(p) \/ Fail(p) PROVE PersistInv(T)'
  <2>1. NextStage(proc[p]) \in RunnerSet(T) /\ RunnerOK(NextStage(proc[p]))
    BY <1>1, NextStageType
  <2>2. proc' = [proc EXCEPT ![p] = NextStage(proc[p])] /\ UNCHANGED <<file, synced, stable>>
    BY <1>4 DEF RequestFails, Fail
  <2>3. QED  BY <1>1, <2>1, <2>2, RunnerMoves
<1>5. ASSUME NEW p \in Runners, Read(p) PROVE PersistInv(T)'
  <2> DEFINE old == proc[p]
             r == [old EXCEPT !.pc = "write", !.read = file]
  <2>1. old \in RunnerSet(T) /\ RunnerOK(old) /\ old.pc = "read"
    BY <1>1, <1>5 DEF Read
  <2>2. proc' = [proc EXCEPT ![p] = r] /\ UNCHANGED <<file, synced, stable>>
    BY <1>5 DEF Read
  <2> HIDE DEF old
  <2>3. r \in RunnerSet(T) /\ r.pc = "write" /\ r.stages = old.stages /\ r.saves = old.saves
    BY <1>1, <2>1 DEF RunnerSet, Busy
  <2>4. RunnerOK(r)
    BY <2>1, <2>3 DEF RunnerOK, Busy
  <2> HIDE DEF r
  <2>5. QED  BY <1>1, <2>2, <2>3, <2>4, RunnerMoves
<1>6. ASSUME NEW p \in Runners, Write(p) PROVE PersistInv(T)'
  <2> DEFINE old == proc[p]
             text == Patch(old.read, Head(old.saves))
             r == [old EXCEPT !.pc = "rename", !.temp = Written(text)]
  <2>1. old \in RunnerSet(T) /\ RunnerOK(old) /\ old.pc = "write"
    BY <1>1, <1>6 DEF Write
  <2>2. proc' = [proc EXCEPT ![p] = r] /\ UNCHANGED <<file, synced, stable>>
    BY <1>6 DEF Write
  <2> HIDE DEF old
  <2>3. old.read \in T /\ old.saves \in Seq(Edits) /\ old.saves # << >> /\ old.stages # << >>
    BY <2>1 DEF RunnerSet, RunnerOK, Busy
  <2>4. text \in T
    <3>1. Head(old.saves) \in Edits
      BY <2>3
    <3>2. QED  BY <2>3, <3>1 DEF Closed
  <2> HIDE DEF text
  <2>5. Written(text) \in [text : T, synced : BOOLEAN]
    BY <2>4 DEF Written
  <2>6. /\ r \in RunnerSet(T) /\ r.pc = "rename" /\ r.stages = old.stages /\ r.saves = old.saves
        /\ r.read = old.read /\ r.temp = Written(text)
    BY <2>1, <2>5 DEF RunnerSet, Busy
  <2>7. RunnerOK(r)
    BY <2>3, <2>6 DEF RunnerOK, text
  <2> HIDE DEF r
  <2>8. QED  BY <1>1, <2>2, <2>6, <2>7, RunnerMoves
<1>7. ASSUME NEW p \in Runners, Rename(p) PROVE PersistInv(T)'
  <2> DEFINE old == proc[p]
  <2>1. /\ old \in RunnerSet(T) /\ RunnerOK(old) /\ old.pc = "rename"
        /\ proc' = [proc EXCEPT ![p] = NextSave(old)]
        /\ file' = old.temp.text /\ synced' = old.temp.synced /\ stable' = stable
    BY <1>1, <1>7 DEF Rename
  <2> HIDE DEF old
  <2>2. NextSave(old) \in RunnerSet(T) /\ RunnerOK(NextSave(old))
    BY <1>1, <2>1, NextSaveType DEF Busy
  <2>3. file' \in T
    BY <2>1 DEF RunnerSet
  <2>4. synced' = TRUE
    BY <2>1 DEF RunnerOK, Written
  <2>5. QED  BY <1>1, <2>1, <2>2, <2>3, <2>4, RunnerMoves
<1>8. ASSUME NEW p \in Runners, Kill(p) PROVE PersistInv(T)'
  <2>1. Idle \in RunnerSet(T) /\ RunnerOK(Idle)
    BY <1>1, NextStageType
  <2>2. proc' = [proc EXCEPT ![p] = Idle] /\ UNCHANGED <<file, synced, stable>>
    BY <1>8 DEF Kill
  <2>3. QED  BY <1>1, <2>1, <2>2, RunnerMoves
<1>9. CASE WriteBack
  BY <1>1, <1>9 DEF WriteBack, PersistInv
<1>10. CASE PowerLoss
  <2>1. ASSUME NEW p \in Runners PROVE Idle \in RunnerSet(T) /\ RunnerOK(Idle)
    BY <1>1, NextStageType
  <2>2. proc' = [p \in Runners |-> Idle] /\ file' = stable /\ stable' = stable /\ synced' = TRUE
    BY <1>10 DEF PowerLoss
  <2> HIDE DEF Idle
  <2>3. QED  BY <1>1, <2>1, <2>2 DEF PersistInv
<1>11. CASE UNCHANGED vars
  BY <1>11 DEF vars, PersistInv
<1>12. QED
  BY <1>2, <1>3, <1>4, <1>5, <1>6, <1>7, <1>8, <1>9, <1>10, <1>11 DEF Next

LEMMA PersistInvInit ==
  ASSUME NEW T, Missing \in T, StartDocs \subseteq T, Init
  PROVE  PersistInv(T)
<1>1. Idle \in RunnerSet(T) /\ RunnerOK(Idle)
  BY IdleRunner
<1>2. QED  BY <1>1 DEF Init, PersistInv

Texts == {doc \in Seq(PartSet) : Text(doc)}

LEMMA TextsAre == \A doc : doc \in Texts <=> Text(doc)
BY DEF Texts, Text

LEMMA TextsClosed == Closed(Texts)
<1>1. Missing \in Texts
  <2>1. Part(Top, << >>) \in PartSet
    BY DEF Part, PartSet, Parts
  <2>2. Missing \in Seq(PartSet) /\ Missing # << >> /\ Len(Missing) = 1 /\ Missing[1].name = Top
    BY <2>1 DEF Missing, Part
  <2>3. Text(Missing)
    BY <2>2 DEF Text
  <2>4. QED  BY <2>3, TextsAre
<1>2. ASSUME NEW doc \in Texts, NEW e \in Edits PROVE Patch(doc, e) \in Texts
  <2>1. Text(doc) /\ e \in EditSet
    BY StageEdits, TextsAre DEF SavedEdit
  <2>2. Text(Patch(doc, e))
    BY <2>1, PatchKeepsText
  <2>3. QED  BY <2>2, TextsAre
<1>3. QED  BY <1>1, <1>2 DEF Closed

\* At no point, whichever runners fail, are killed or lose power where, is
\* there anything at the path but a text that was there at first or an edit of
\* a whole one: for any runners, commands and texts, loadable or not.
THEOREM FileIsAlwaysWhole == Spec => []FileIsWhole
<1>1. Init => PersistInv(Texts)
  <2>1. StartDocs \subseteq Texts
    BY TextAssumption DEF Texts, Text, PartSet
  <2>2. QED  BY <2>1, TextsClosed, PersistInvInit DEF Closed
<1>2. PersistInv(Texts) /\ [Next]_vars => PersistInv(Texts)'
  BY TextsClosed, PersistInvStep
<1>3. PersistInv(Texts) => FileIsWhole
  <2>1. Torn[1].name # Top
    BY DEF Torn, Part, Top
  <2>2. Torn \notin Texts
    BY <2>1 DEF Texts, Text
  <2>3. QED  BY <2>2 DEF PersistInv, FileIsWhole
<1>4. QED  BY <1>1, <1>2, <1>3, PTL DEF Spec

-----------------------------------------------------------------------------
(* What a request makes of the daemon's settings, and saving it of those   *)
(* that load.                                                              *)

Agree(s, d) ==
  /\ s.image = d.image /\ FitOf(s) = FitOf(d) /\ SameColor(s, d)
  /\ \A n \in Names, key \in {"image", "fit"} :
       d.over[n][key] # Unset => s.over[n][key] = d.over[n][key]

LEMMA SettingsFields ==
  ASSUME NEW s \in Saved!Settings
  PROVE  /\ s.image \in Saved!Images /\ s.fit \in Fits \cup {Unset}
         /\ s.color \in Colors /\ s.auto \in BOOLEAN
         /\ s.over \in [Names -> [image : Saved!Images, fit : Fits \cup {Unset}]]
BY DEF Saved!Settings

\* what a request makes of the daemon
LEMMA ChangedFields ==
  ASSUME NEW d \in Saved!Settings, NEW e, SavedEdit(e), NEW new, new = Change(d, e)
  PROVE  /\ new \in Saved!Settings
         /\ new.image = IF e.key = "image" /\ e.part = Top THEN e.value ELSE d.image
         /\ new.fit = IF e.key = "fit" /\ e.part = Top THEN e.value ELSE d.fit
         /\ e.key # "color" => new.color = d.color /\ new.auto = d.auto
         /\ e.key = "color" => /\ new.auto = (e.value = AutoColor)
                               /\ e.value # AutoColor => new.color = e.value
         /\ \A n \in Names, key \in {"image", "fit"} :
              new.over[n][key] = IF key = e.key /\ e.part = Top THEN Unset
                                 ELSE IF key = e.key /\ e.part = n THEN e.value
                                 ELSE d.over[n][key]
<1> DEFINE Over == [image : Saved!Images, fit : Fits \cup {Unset}]
<1>1. /\ e.key \in Keys /\ e.part \in Parts
      /\ e.key = "image" => e.value \in Saved!Images
      /\ e.key = "fit" => e.value \in Fits \cup {Unset}
  BY DEF SavedEdit, EditSet, Saved!Images, Legal, Pair, Other
<1>2. /\ d.over \in [Names -> Over]
      /\ \A n \in Names : d.over[n] = [image |-> d.over[n].image, fit |-> d.over[n].fit]
  BY SettingsFields
<1>3. CASE e.key = "color"
  <2>1. e.part = Top /\ e.value \in Colors \cup {AutoColor}
    BY <1>3, SavedColor
  <2>2. new = [d EXCEPT !.auto = (e.value = AutoColor), !.color = IF e.value = AutoColor THEN @ ELSE e.value]
    BY <1>3, <2>1 DEF Change, ChangeTop
  <2>3. new \in Saved!Settings
    BY <2>1, <2>2 DEF Saved!Settings
  <2>4. /\ new.image = d.image /\ new.fit = d.fit /\ new.over = d.over
        /\ new.auto = (e.value = AutoColor) /\ (e.value # AutoColor => new.color = e.value)
    BY <2>2 DEF Saved!Settings
  <2>5. QED  BY <1>3, <2>3, <2>4
<1>4. CASE e.key \in {"image", "fit"} /\ e.part = Top
  <2> DEFINE over == [n \in Names |-> [d.over[n] EXCEPT ![e.key] = Unset]]
  <2>1. new = [d EXCEPT ![e.key] = e.value, !.over = over]
    BY <1>4 DEF Change, ChangeTop
  <2>2. over \in [Names -> Over]
    BY <1>2, <1>4 DEF Saved!Images
  <2>3. \A n \in Names, key \in {"image", "fit"} :
          over[n][key] = IF key = e.key THEN Unset ELSE d.over[n][key]
    BY <1>2, <1>4
  <2> HIDE DEF over
  <2>4. new \in Saved!Settings
    BY <1>1, <1>4, <2>1, <2>2 DEF Saved!Settings
  <2>5. /\ new.image = IF e.key = "image" THEN e.value ELSE d.image
        /\ new.fit = IF e.key = "fit" THEN e.value ELSE d.fit
        /\ new.color = d.color /\ new.auto = d.auto /\ new.over = over
    BY <1>4, <2>1 DEF Saved!Settings
  <2>6. QED  BY <1>4, <2>3, <2>4, <2>5
<1>5. CASE e.key \in {"image", "fit"} /\ e.part # Top
  <2> DEFINE over == [d.over EXCEPT ![e.part][e.key] = e.value]
  <2>1. new = [d EXCEPT !.over = over]
    BY <1>5 DEF Change
  <2>2. over \in [Names -> Over]
    BY <1>1, <1>2, <1>5
  <2>3. \A n \in Names, key \in {"image", "fit"} :
          over[n][key] = IF key = e.key /\ e.part = n THEN e.value ELSE d.over[n][key]
    BY <1>1, <1>2, <1>5 DEF Parts
  <2> HIDE DEF over
  <2>4. new \in Saved!Settings
    BY <2>1, <2>2 DEF Saved!Settings
  <2>5. /\ new.image = d.image /\ new.fit = d.fit
        /\ new.color = d.color /\ new.auto = d.auto /\ new.over = over
    BY <2>1 DEF Saved!Settings
  <2>6. QED  BY <1>5, <2>3, <2>4, <2>5
<1>6. QED  BY <1>1, <1>3, <1>4, <1>5 DEF Keys

\* ... and what saving it makes of the settings
LEMMA EditedFields ==
  ASSUME NEW s \in Saved!Settings, NEW e, SavedEdit(e), NEW new, new = Saved!Edited(s, e)
  PROVE  /\ new.image = IF e.key = "image" /\ e.part = Top THEN e.value ELSE s.image
         /\ new.fit = IF e.key = "fit" /\ e.part = Top THEN e.value ELSE s.fit
         /\ e.key # "color" => new.color = s.color /\ new.auto = s.auto
         /\ e.key = "color" => /\ new.auto = (e.value = AutoColor)
                               /\ e.value # AutoColor => new.color = e.value
         /\ \A n \in Names, key \in {"image", "fit"} :
              /\ key # e.key => new.over[n][key] = s.over[n][key]
              /\ key = e.key /\ e.part = n => new.over[n][key] = e.value
              /\ key = e.key /\ e.part # Top /\ e.part # n => new.over[n][key] = s.over[n][key]
<1> DEFINE Over == [image : Saved!Images, fit : Fits \cup {Unset}]
<1>1. e.key \in Keys /\ e.part \in Parts
  BY DEF SavedEdit, EditSet
<1>2. s.over \in [Names -> Over]
  BY SettingsFields
<1>3. CASE e.key = "color"
  <2>1. e.part = Top
    BY <1>3, SavedColor
  <2>2. new = [s EXCEPT !.auto = (e.value = AutoColor), !.color = IF e.value = AutoColor THEN DefaultColor ELSE e.value]
    BY <1>3, <2>1 DEF Saved!Edited, Saved!EditedTop
  <2>3. /\ new.image = s.image /\ new.fit = s.fit /\ new.over = s.over
        /\ new.auto = (e.value = AutoColor) /\ (e.value # AutoColor => new.color = e.value)
    BY <2>2 DEF Saved!Settings
  <2>4. \A n \in Names : e.part # n
    BY <2>1, DataAssumption
  <2>5. QED  BY <1>3, <2>1, <2>3, <2>4
<1>4. CASE e.key \in {"image", "fit"} /\ e.part = Top
  <2> DEFINE over == [n \in Names |-> [s.over[n] EXCEPT ![e.key] = Unset]]
  <2>1. new = IF e.value # Unset THEN [s EXCEPT ![e.key] = e.value]
              ELSE [s EXCEPT ![e.key] = Unset, !.over = over]
    BY <1>4 DEF Saved!Edited, Saved!EditedTop
  <2>2. \A n \in Names, key \in {"image", "fit"} : key # e.key => over[n][key] = s.over[n][key]
    BY <1>2, <1>4
  <2> HIDE DEF over
  <2>3. /\ new.image = IF e.key = "image" THEN e.value ELSE s.image
        /\ new.fit = IF e.key = "fit" THEN e.value ELSE s.fit
        /\ new.color = s.color /\ new.auto = s.auto /\ new.over \in {s.over, over}
    BY <1>4, <2>1 DEF Saved!Settings
  <2>4. \A n \in Names : e.part # n
    BY <1>4, DataAssumption
  <2>5. QED  BY <1>4, <2>2, <2>3, <2>4
<1>5. CASE e.key \in {"image", "fit"} /\ e.part # Top
  <2> DEFINE over == [s.over EXCEPT ![e.part][e.key] = e.value]
  <2>1. new = [s EXCEPT !.over = over]
    BY <1>5 DEF Saved!Edited
  <2>2. \A n \in Names, key \in {"image", "fit"} :
          over[n][key] = IF key = e.key /\ e.part = n THEN e.value ELSE s.over[n][key]
    BY <1>1, <1>2, <1>5 DEF Parts
  <2> HIDE DEF over
  <2>3. /\ new.image = s.image /\ new.fit = s.fit
        /\ new.color = s.color /\ new.auto = s.auto /\ new.over = over
    BY <2>1 DEF Saved!Settings
  <2>4. QED  BY <1>5, <2>2, <2>3
<1>6. QED  BY <1>1, <1>3, <1>4, <1>5 DEF Keys

LEMMA ChangeAgrees ==
  ASSUME NEW s \in Saved!Settings, NEW d \in Saved!Settings, Agree(s, d), NEW e, SavedEdit(e)
  PROVE  Change(d, e) \in Saved!Settings /\ Agree(Saved!Edited(s, e), Change(d, e))
<1> DEFINE t == Saved!Edited(s, e)
           c == Change(d, e)
<1>1. /\ c \in Saved!Settings
      /\ c.image = IF e.key = "image" /\ e.part = Top THEN e.value ELSE d.image
      /\ c.fit = IF e.key = "fit" /\ e.part = Top THEN e.value ELSE d.fit
      /\ e.key # "color" => c.color = d.color /\ c.auto = d.auto
      /\ e.key = "color" => c.auto = (e.value = AutoColor) /\ (e.value # AutoColor => c.color = e.value)
      /\ \A n \in Names, key \in {"image", "fit"} :
           c.over[n][key] = IF key = e.key /\ e.part = Top THEN Unset
                            ELSE IF key = e.key /\ e.part = n THEN e.value
                            ELSE d.over[n][key]
  BY ChangedFields
<1>2. /\ t.image = IF e.key = "image" /\ e.part = Top THEN e.value ELSE s.image
      /\ t.fit = IF e.key = "fit" /\ e.part = Top THEN e.value ELSE s.fit
      /\ e.key # "color" => t.color = s.color /\ t.auto = s.auto
      /\ e.key = "color" => t.auto = (e.value = AutoColor) /\ (e.value # AutoColor => t.color = e.value)
      /\ \A n \in Names, key \in {"image", "fit"} :
           /\ key # e.key => t.over[n][key] = s.over[n][key]
           /\ key = e.key /\ e.part = n => t.over[n][key] = e.value
           /\ key = e.key /\ e.part # Top /\ e.part # n => t.over[n][key] = s.over[n][key]
  BY EditedFields
<1> HIDE DEF t, c
<1>3. t.image = c.image /\ FitOf(t) = FitOf(c)
  BY <1>1, <1>2 DEF Agree, FitOf
<1>4. SameColor(t, c)
  BY <1>1, <1>2 DEF Agree, SameColor
<1>5. ASSUME NEW n \in Names, NEW key \in {"image", "fit"}, c.over[n][key] # Unset
      PROVE  t.over[n][key] = c.over[n][key]
  BY <1>1, <1>2, <1>5 DEF Agree
<1>6. QED  BY <1>1, <1>3, <1>4, <1>5 DEF Agree, t, c

-----------------------------------------------------------------------------
(* The runners at work as the savers of SavedSettings.                     *)

GoodTexts == {doc \in Seq(PartSet) : GoodText(doc)}

\* every text the file may start with loads
FilesLoad == \A doc \in StartDocs : Loadable(doc)

LEMMA GoodTextsAre == \A doc : doc \in GoodTexts <=> GoodText(doc)
BY DEF GoodTexts, GoodText, Text

LEMMA GoodClosed == Closed(GoodTexts)
<1>1. Missing \in GoodTexts
  <2>1. Part(Top, << >>) \in PartSet
    BY DEF Part, PartSet, Parts
  <2>2. /\ Missing \in Seq(PartSet) /\ Missing # << >> /\ Len(Missing) = 1 /\ Missing[1].name = Top
        /\ \A i \in DOMAIN Missing : Missing[i].lines = << >>
    BY <2>1 DEF Missing, Part
  <2>3. Text(Missing)
    BY <2>2 DEF Text
  <2>4. GoodText(Missing)
    BY <2>2, <2>3, EmptySeq DEF GoodText
  <2>5. QED  BY <2>4, GoodTextsAre
<1>2. ASSUME NEW doc \in GoodTexts, NEW e \in Edits PROVE Patch(doc, e) \in GoodTexts
  <2>1. GoodText(Patch(doc, e))
    BY StageEdits, PatchKeepsGood, GoodTextsAre
  <2>2. QED  BY <2>1, GoodTextsAre
<1>3. QED  BY <1>1, <1>2 DEF Closed

LEMMA FilesAreGood == ASSUME FilesLoad PROVE StartDocs \subseteq GoodTexts
<1>1. ASSUME NEW doc \in StartDocs PROVE GoodText(doc)
  <2>1. Text(doc)
    BY TextAssumption DEF Text, PartSet
  <2>2. ASSUME NEW i \in DOMAIN doc PROVE doc[i].lines \in Seq(LegalLines(doc[i].name))
    <3>1. PICK part \in PartSet : part = doc[i]
      BY <2>1, TextFacts
    <3>2. PICK lines \in Seq(Lines) : lines = part.lines
      BY <3>1 DEF PartSet
    <3>3. ASSUME NEW j \in DOMAIN lines PROVE lines[j] \in LegalLines(part.name)
      <4>1. Legal(part.name, lines[j])
        BY <3>1, <3>2 DEF FilesLoad, Loadable
      <4>2. lines[j].key = "image" => lines[j].value \in Paths \cup {Blank}
        BY <3>1, <3>2, TextAssumption
      <4>3. QED  BY <3>2, <4>1, <4>2 DEF LegalLines
    <3>4. lines \in Seq(Range(lines)) /\ Range(lines) \subseteq LegalLines(part.name)
      BY <3>3, SeqOfRange DEF Range
    <3>5. lines \in Seq(LegalLines(part.name))
      BY <3>4, SeqMonotonic
    <3>6. QED  BY <3>1, <3>2, <3>5
  <2>3. QED  BY <2>1, <2>2 DEF GoodText
<1>2. QED  BY <1>1, GoodTextsAre

Saves(r) == r.pc \in {"write", "rename"}
Saver(p, r) == [who |-> p, from |-> Load(r.read), edit |-> Head(r.saves)]

\* a move of one runner disturbs its own saver only
LEMMA BaseMoves ==
  ASSUME NEW S, proc \in [Runners -> S], NEW p \in Runners, NEW r \in S,
         proc' = [proc EXCEPT ![p] = r]
  PROVE  /\ ~Saves(proc[p]) /\ ~Saves(r) => Base' = Base
         /\ ~Saves(proc[p]) /\ Saves(r) =>
              /\ Base' = Base \cup {Saver(p, r)} /\ Saver(p, r) \notin Base
              /\ p \in Runners \ {c.who : c \in Base}
         /\ Saves(proc[p]) /\ ~Saves(r) =>
              Base' = Base \ {Saver(p, proc[p])} /\ Saver(p, proc[p]) \in Base
         /\ Saves(proc[p]) /\ Saves(r) /\ Saver(p, r) = Saver(p, proc[p]) => Base' = Base
<1>1. \A q \in Runners : proc'[q] = IF q = p THEN r ELSE proc[q]
  OBVIOUS
<1>2. \A q1, q2, r1, r2 : Saver(q1, r1) = Saver(q2, r2) => q1 = q2
  BY DEF Saver
<1>3. \A q1, r1 : Saver(q1, r1).who = q1
  BY DEF Saver
<1>4. \A b : /\ b \in Base <=> \E q \in Runners : Saves(proc[q]) /\ b = Saver(q, proc[q])
             /\ b \in Base' <=> \E q \in Runners : Saves(proc'[q]) /\ b = Saver(q, proc'[q])
  BY DEF Base, Saving, Saves, Saver
<1>5. CASE ~Saves(proc[p]) /\ ~Saves(r)
  BY <1>1, <1>4, <1>5
<1>6. CASE ~Saves(proc[p]) /\ Saves(r)
  <2>1. Base' = Base \cup {Saver(p, r)}
    BY <1>1, <1>4, <1>6
  <2>2. \A c \in Base : c.who # p
    BY <1>3, <1>4, <1>6
  <2>3. QED  BY <1>3, <1>6, <2>1, <2>2
<1>7. CASE Saves(proc[p]) /\ ~Saves(r)
  <2>1. Base' = Base \ {Saver(p, proc[p])}
    BY <1>1, <1>2, <1>4, <1>7
  <2>2. QED  BY <1>4, <1>7, <2>1
<1>8. CASE Saves(proc[p]) /\ Saves(r) /\ Saver(p, r) = Saver(p, proc[p])
  BY <1>1, <1>4, <1>8
<1>9. QED  BY <1>5, <1>6, <1>7, <1>8

LEMMA GoodLoads ==
  ASSUME SectionsFit, NEW doc \in GoodTexts
  PROVE  Load(doc) = Parse(doc) /\ Load(doc) \in Saved!Settings
<1>1. GoodText(doc)
  BY GoodTextsAre
<1>2. QED  BY <1>1, GoodIsLoadable, GoodParses DEF Load

LEMMA SavesInit ==
  ASSUME SectionsFit, FilesLoad, Init
  PROVE  Saved!Init
<1>1. Load(file) \in Saved!Settings
  BY FilesAreGood, GoodLoads DEF Init
<1>2. Base = {}
  BY DEF Init, Base, Saving, Idle
<1>3. QED  BY <1>1, <1>2 DEF Saved!Init, Init

\* a runner moves and leaves the file alone: nothing happens, or it gives up
LEMMA SaverGivesUp ==
  ASSUME PersistInv(GoodTexts), UNCHANGED <<file, stable>>,
         NEW p \in Runners, NEW r \in RunnerSet(GoodTexts), ~Saves(r),
         proc' = [proc EXCEPT ![p] = r]
  PROVE  [Saved!Next]_Saved!vars
<1>1. proc \in [Runners -> RunnerSet(GoodTexts)]
  BY DEF PersistInv
<1>2. CASE Saves(proc[p])
  <2>1. Base' = Base \ {Saver(p, proc[p])} /\ Saver(p, proc[p]) \in Base
    BY <1>1, <1>2, BaseMoves
  <2>2. Saved!GiveUp(Saver(p, proc[p]))
    BY <2>1 DEF Saved!GiveUp
  <2>3. QED  BY <2>1, <2>2 DEF Saved!Next
<1>3. CASE ~Saves(proc[p])
  <2>1. Base' = Base
    BY <1>1, <1>3, BaseMoves
  <2>2. QED  BY <2>1 DEF Saved!vars
<1>4. QED  BY <1>2, <1>3

LEMMA SavesStep ==
  ASSUME SectionsFit, PersistInv(GoodTexts), [Next]_vars
  PROVE  [Saved!Next]_Saved!vars
<1> DEFINE T == GoodTexts
<1>inv. /\ proc \in [Runners -> RunnerSet(T)] /\ Missing \in T
        /\ \A p \in Runners : proc[p] \in RunnerSet(T) /\ RunnerOK(proc[p])
        /\ file \in T /\ stable \in T /\ synced = TRUE
  BY GoodClosed DEF PersistInv, Closed
<1> HIDE DEF T
<1>1. ASSUME NEW p \in Runners, NEW cmd \in Commands, Type(p, cmd) PROVE [Saved!Next]_Saved!vars
  <2> DEFINE r == [Idle EXCEPT !.pc = "request", !.stages = cmd]
  <2>1. proc' = [proc EXCEPT ![p] = r] /\ UNCHANGED <<file, stable>>
    BY <1>1 DEF Type
  <2>2. PICK stages \in Seq(Stages) : stages = cmd /\ stages # << >>
    BY StageEdits
  <2>3. r \in RunnerSet(T) /\ r.pc = "request"
    BY <1>inv, <2>2, RequestRunner
  <2> HIDE DEF r
  <2>4. QED  BY <2>1, <2>3, SaverGivesUp DEF Saves, T
<1>2. ASSUME NEW p \in Runners, Request(p) PROVE [Saved!Next]_Saved!vars
  <2>1. PICK old \in RunnerSet(T) : old = proc[p]
    BY <1>inv
  <2>2. PICK edits \in Seq(Edits) : edits = Head(proc[p].stages).edits
    <3>1. old.stages \in Seq(Stages) /\ old.stages # << >>
      BY <1>inv, <1>2, <2>1 DEF RunnerSet, RunnerOK, Request
    <3>2. Head(old.stages) \in Stages
      BY <3>1
    <3>3. QED  BY <2>1, <3>2, StageEdits
  <2> DEFINE r == [old EXCEPT !.pc = "read", !.saves = edits]
  <2>3. proc' = [proc EXCEPT ![p] = r] /\ UNCHANGED <<file, stable>>
    BY <1>2, <2>1, <2>2 DEF Request
  <2>4. r \in RunnerSet(T) /\ r.pc = "read"
    BY DEF RunnerSet, Busy
  <2> HIDE DEF r
  <2>5. QED  BY <2>3, <2>4, SaverGivesUp DEF Saves, T
<1>3. ASSUME NEW p \in Runners, RequestFails(p) \/ Fail(p) PROVE [Saved!Next]_Saved!vars
  <2>1. proc' = [proc EXCEPT ![p] = NextStage(proc[p])] /\ UNCHANGED <<file, stable>>
    BY <1>3 DEF RequestFails, Fail
  <2>2. NextStage(proc[p]) \in RunnerSet(T) /\ NextStage(proc[p]).pc \in {"idle", "request"}
    BY <1>inv, NextStageType
  <2>3. QED  BY <2>1, <2>2, SaverGivesUp DEF Saves, T
<1>4. ASSUME NEW p \in Runners, Kill(p) PROVE [Saved!Next]_Saved!vars
  <2>1. proc' = [proc EXCEPT ![p] = Idle] /\ UNCHANGED <<file, stable>>
    BY <1>4 DEF Kill
  <2>2. Idle \in RunnerSet(T) /\ Idle.pc = "idle"
    BY <1>inv, IdleRunner
  <2>3. QED  BY <2>1, <2>2, SaverGivesUp DEF Saves, T
<1>5. ASSUME NEW p \in Runners, Read(p) PROVE [Saved!Next]_Saved!vars
  <2>1. PICK old \in RunnerSet(T) : old = proc[p]
    BY <1>inv
  <2> DEFINE r == [old EXCEPT !.pc = "write", !.read = file]
  <2>2. proc' = [proc EXCEPT ![p] = r] /\ UNCHANGED <<file, stable>> /\ ~Saves(proc[p])
    BY <1>5, <2>1 DEF Read, Saves
  <2>3. r \in RunnerSet(T) /\ Saves(r) /\ r.read = file /\ r.saves = old.saves
    BY <1>inv DEF RunnerSet, Busy, Saves
  <2>4. Head(old.saves) \in Edits
    <3>1. old.saves \in Seq(Edits) /\ old.saves # << >>
      BY <1>inv, <1>5, <2>1 DEF RunnerSet, RunnerOK, Busy, Read
    <3>2. QED  BY <3>1
  <2> HIDE DEF r
  <2> DEFINE b == Saver(p, r)
  <2>5. /\ Base' = Base \cup {b} /\ b \notin Base
        /\ p \in Runners \ {c.who : c \in Base}
    BY <1>inv, <2>2, <2>3, BaseMoves
  <2>6. b.who = p /\ b.from = Load(file) /\ b.edit \in Edits
    BY <2>3, <2>4 DEF Saver
  <2> HIDE DEF b
  <2>7. b \in Base' \ Base
    BY <2>5
  <2>8. Saved!Begin
    BY <2>2, <2>5, <2>6, <2>7 DEF Saved!Begin
  <2>9. QED  BY <2>8 DEF Saved!Next
<1>6. ASSUME NEW p \in Runners, Write(p) PROVE [Saved!Next]_Saved!vars
  <2>1. PersistInv(T)'
    BY GoodClosed, PersistInvStep, <1>6 DEF Next, T
  <2>2. PICK r \in RunnerSet(T) : r = proc'[p]
    BY <2>1 DEF PersistInv
  <2>3. /\ proc' = [proc EXCEPT ![p] = r] /\ UNCHANGED <<file, stable>>
        /\ Saves(proc[p]) /\ Saves(r) /\ r.read = proc[p].read /\ r.saves = proc[p].saves
    BY <1>inv, <1>6, <2>2 DEF Write, Saves, RunnerSet
  <2>4. Base' = Base
    BY <1>inv, <2>3, BaseMoves DEF Saver
  <2>5. QED  BY <2>3, <2>4 DEF Saved!vars
<1>7. ASSUME NEW p \in Runners, Rename(p) PROVE [Saved!Next]_Saved!vars
  <2>1. PICK old \in RunnerSet(T) : old = proc[p] /\ RunnerOK(old)
    BY <1>inv
  <2>2. /\ old.pc = "rename" /\ proc' = [proc EXCEPT ![p] = NextSave(old)]
        /\ file' = old.temp.text /\ UNCHANGED stable
    BY <1>7, <2>1 DEF Rename
  <2>3. NextSave(old) \in RunnerSet(T) /\ ~Saves(NextSave(old)) /\ Saves(old)
    BY <1>inv, <2>1, <2>2, NextSaveType DEF Busy, Saves
  <2> DEFINE b == Saver(p, old)
  <2>4. Base' = Base \ {b} /\ b \in Base
    BY <1>inv, <2>1, <2>2, <2>3, BaseMoves
  <2>5. Load(file') = Saved!Edited(b.from, b.edit)
    <3>1. file' = Patch(old.read, Head(old.saves))
      BY <2>1, <2>2 DEF RunnerOK, Written
    <3>2. old.read \in T /\ old.saves \in Seq(Edits) /\ old.saves # << >>
      BY <2>1, <2>2 DEF RunnerSet, RunnerOK, Busy
    <3>3. GoodText(old.read) /\ SavedEdit(Head(old.saves))
      <4>1. Head(old.saves) \in Edits
        BY <3>2
      <4>2. QED  BY <3>2, <4>1, GoodTextsAre, StageEdits DEF T
    <3>4. Load(file') = Saved!Edited(Load(old.read), Head(old.saves))
      BY <3>1, <3>3, LoadPatch
    <3>5. QED  BY <3>4 DEF Saver
  <2> HIDE DEF b
  <2>6. Saved!Save(b)
    BY <2>2, <2>4, <2>5 DEF Saved!Save
  <2>7. QED  BY <2>4, <2>6 DEF Saved!Next
<1>8. CASE WriteBack
  <2>1. stable' = file /\ UNCHANGED <<file, proc>>
    BY <1>inv, <1>8 DEF WriteBack
  <2>2. Base' = Base
    BY <2>1 DEF Base, Saving
  <2>3. Saved!Keep
    BY <2>1, <2>2 DEF Saved!Keep
  <2>4. QED  BY <2>3 DEF Saved!Next
<1>9. CASE PowerLoss
  <2>1. file' = stable /\ stable' = stable /\ proc' = [p \in Runners |-> Idle]
    BY <1>9 DEF PowerLoss
  <2>2. Base' = {}
    BY <2>1 DEF Base, Saving, Idle
  <2>3. Saved!Lose
    BY <2>1, <2>2 DEF Saved!Lose
  <2>4. QED  BY <2>3 DEF Saved!Next
<1>10. CASE UNCHANGED vars
  <2>1. UNCHANGED <<file, stable, proc>>
    BY <1>10 DEF vars
  <2>2. Base' = Base
    BY <2>1 DEF Base, Saving
  <2>3. QED  BY <2>1, <2>2 DEF Saved!vars
<1>11. QED
  BY <1>1, <1>2, <1>3, <1>4, <1>5, <1>6, <1>7, <1>8, <1>9, <1>10 DEF Next

\* With files that load and room for every section, reading, patching,
\* writing and renaming lines is one step for a reader of the settings, which
\* makes the edit that was asked for in what was read; failures, kills and
\* power losses included, for any runners, commands and texts.
THEOREM PersistSavesSettings ==
  ASSUME SectionsFit, FilesLoad
  PROVE  Spec => SavesSettings
<1>1. Init => PersistInv(GoodTexts)
  BY GoodClosed, FilesAreGood, PersistInvInit DEF Closed
<1>2. PersistInv(GoodTexts) /\ [Next]_vars => PersistInv(GoodTexts)'
  BY GoodClosed, PersistInvStep
<1>3. Init => Saved!Init
  BY SavesInit
<1>4. PersistInv(GoodTexts) /\ [Next]_vars => [Saved!Next]_Saved!vars
  BY SavesStep
<1>5. QED  BY <1>1, <1>2, <1>3, <1>4, PTL DEF Spec, SavesSettings, Saved!Spec

-----------------------------------------------------------------------------
(* Commands that are all saved, one after the other.                       *)

\* what is left to save, made of settings that agree with the file, gives
\* what the daemon has
InStep(r) ==
  /\ \E d \in Saved!Settings : Agree(Load(file), d) /\ daemon = Folded(d, r.saves)
  /\ Saves(r) => r.read = file

Settled == daemon \in Saved!Settings /\ Agree(Load(file), daemon)

CleanInv ==
  clean =>
    /\ \A p, q \in Runners : proc[p].pc # "idle" /\ proc[q].pc # "idle" => p = q
    /\ (\A p \in Runners : proc[p].pc \notin Busy) => Settled
    /\ \A p \in Runners : proc[p].pc \in Busy => InStep(proc[p])

LEMMA AgreeWithItself == \A s : Agree(s, s)
BY DEF Agree, SameColor

\* the only runner that is not idle moves
LEMMA OneMoves ==
  ASSUME NEW S, proc \in [Runners -> S], NEW p \in Runners, NEW r \in S,
         proc' = [proc EXCEPT ![p] = r],
         \A q \in Runners : proc[q].pc # "idle" => q = p,
         r.pc \notin Busy => Settled',
         r.pc \in Busy => /\ \E d \in Saved!Settings : Agree(Load(file'), d) /\ daemon' = Folded(d, r.saves)
                          /\ Saves(r) => r.read = file'
  PROVE  CleanInv'
<1>1. \A q \in Runners : proc'[q] = IF q = p THEN r ELSE proc[q]
  OBVIOUS
<1>2. \A q \in Runners : proc'[q].pc # "idle" => q = p
  BY <1>1
<1>3. (\A q \in Runners : proc'[q].pc \notin Busy) => Settled'
  BY <1>1
<1>4. ASSUME NEW q \in Runners, proc'[q].pc \in Busy PROVE InStep(proc[q])'
  <2>1. q = p /\ proc'[q] = r
    BY <1>1, <1>2, <1>4 DEF Busy
  <2>2. QED  BY <1>4, <2>1 DEF InStep
<1>5. QED  BY <1>2, <1>3, <1>4 DEF CleanInv

LEMMA CleanStep ==
  ASSUME SectionsFit, PersistInv(GoodTexts), PersistInv(GoodTexts)', CleanInv, [Next]_vars
  PROVE  CleanInv'
<1> DEFINE T == GoodTexts
<1>inv. /\ proc \in [Runners -> RunnerSet(T)] /\ Missing \in T /\ file \in T /\ stable \in T
        /\ \A p \in Runners : proc[p] \in RunnerSet(T) /\ RunnerOK(proc[p])
        /\ proc' \in [Runners -> RunnerSet(T)]
        /\ \A p \in Runners : proc'[p] \in RunnerSet(T)
  BY GoodClosed DEF PersistInv, Closed
<1> HIDE DEF T
<1>1. CASE ~clean'
  BY <1>1 DEF CleanInv
<1>2. ASSUME NEW p \in Runners, NEW cmd \in Commands, Type(p, cmd), clean' PROVE CleanInv'
  <2>1. /\ clean /\ \A q \in Runners : proc[q].pc = "idle"
        /\ proc' = [proc EXCEPT ![p] = [Idle EXCEPT !.pc = "request", !.stages = cmd]]
        /\ UNCHANGED <<file, daemon>>
    BY <1>2 DEF Type, AllIdle
  <2>2. PICK r \in RunnerSet(T) : r = proc'[p]
    BY <1>inv
  <2>3. r.pc = "request" /\ proc' = [proc EXCEPT ![p] = r]
    BY <1>inv, <2>1, <2>2 DEF Idle
  <2>4. Settled'
    BY <2>1 DEF CleanInv, Settled, Busy
  <2>5. QED  BY <1>inv, <2>1, <2>3, <2>4, OneMoves DEF Busy
<1>3. ASSUME NEW p \in Runners, proc[p].pc # "idle", clean
      PROVE  /\ \A q \in Runners : proc[q].pc # "idle" => q = p
             /\ proc[p].pc \notin Busy => Settled
             /\ proc[p].pc \in Busy => InStep(proc[p])
  <2>1. \A q \in Runners : proc[q].pc # "idle" => q = p
    BY <1>3 DEF CleanInv
  <2>2. QED  BY <1>3, <2>1 DEF CleanInv, Busy
<1>4. ASSUME NEW p \in Runners, Request(p), clean' PROVE CleanInv'
  <2>1. /\ clean /\ proc[p].pc = "request" /\ UNCHANGED file
        /\ daemon' = Changed(daemon, Head(proc[p].stages))
        /\ proc' = [proc EXCEPT ![p].pc = "read", ![p].saves = Head(proc[p].stages).edits]
    BY <1>4 DEF Request
  <2>2. PICK r \in RunnerSet(T) : r = proc'[p]
    BY <1>inv
  <2>3. PICK old \in RunnerSet(T) : old = proc[p]
    BY <1>inv
  <2>4. r.pc = "read" /\ r.saves = Head(proc[p].stages).edits /\ proc' = [proc EXCEPT ![p] = r]
    BY <1>inv, <2>1, <2>2, <2>3 DEF RunnerSet
  <2>5. daemon' = Folded(daemon, r.saves)
    BY <2>1, <2>4 DEF Changed, Folded
  <2>6. Settled /\ \A q \in Runners : proc[q].pc # "idle" => q = p
    BY <1>3, <2>1 DEF Busy
  <2>7. \E d \in Saved!Settings : Agree(Load(file'), d) /\ daemon' = Folded(d, r.saves)
    BY <2>1, <2>5, <2>6 DEF Settled
  <2>8. ~Saves(r) /\ r.pc \in Busy
    BY <2>4 DEF Saves, Busy
  <2>9. QED  BY <1>inv, <2>4, <2>6, <2>7, <2>8, OneMoves
<1>5. ASSUME NEW p \in Runners, RequestFails(p), clean' PROVE CleanInv'
  <2>1. /\ clean /\ proc[p].pc = "request" /\ UNCHANGED <<file, daemon>>
        /\ proc' = [proc EXCEPT ![p] = NextStage(proc[p])]
    BY <1>5 DEF RequestFails
  <2>2. PICK r \in RunnerSet(T) : r = NextStage(proc[p]) /\ r.pc \in {"idle", "request"}
    BY <1>inv, NextStageType
  <2>3. Settled /\ \A q \in Runners : proc[q].pc # "idle" => q = p
    BY <1>3, <2>1 DEF Busy
  <2>4. Settled' /\ r.pc \notin Busy
    BY <2>1, <2>2, <2>3 DEF Settled, Busy
  <2>5. QED  BY <1>inv, <2>1, <2>2, <2>3, <2>4, OneMoves
<1>6. ASSUME NEW p \in Runners, Read(p) \/ Write(p), clean' PROVE CleanInv'
  <2>1. /\ clean /\ proc[p].pc \in {"read", "write"} /\ UNCHANGED <<file, daemon>>
    BY <1>6 DEF Read, Write
  <2>2. PICK r \in RunnerSet(T) : r = proc'[p]
    BY <1>inv
  <2>3. PICK old \in RunnerSet(T) : old = proc[p]
    BY <1>inv
  <2>4. InStep(old) /\ \A q \in Runners : proc[q].pc # "idle" => q = p
    BY <1>3, <2>1, <2>3 DEF Busy
  <2>5. /\ proc' = [proc EXCEPT ![p] = r] /\ r.saves = old.saves
        /\ r.pc \in Busy /\ r.read = file
    <3>1. CASE Read(p)
      BY <1>inv, <2>1, <2>2, <2>3, <3>1 DEF Read, RunnerSet, Busy
    <3>2. CASE Write(p)
      <4>1. old.read = file
        BY <2>3, <2>4, <3>2 DEF InStep, Saves, Write
      <4>2. QED  BY <1>inv, <2>1, <2>2, <2>3, <3>2, <4>1 DEF Write, RunnerSet, Busy
    <3>3. QED  BY <1>6, <3>1, <3>2
  <2>6. \E d \in Saved!Settings : Agree(Load(file'), d) /\ daemon' = Folded(d, r.saves)
    BY <2>1, <2>4, <2>5 DEF InStep
  <2>7. QED  BY <1>inv, <2>1, <2>4, <2>5, <2>6, OneMoves
<1>7. ASSUME NEW p \in Runners, Rename(p), clean' PROVE CleanInv'
  <2>1. PICK old \in RunnerSet(T) : old = proc[p] /\ RunnerOK(old)
    BY <1>inv
  <2>2. /\ clean /\ old.pc = "rename" /\ daemon' = daemon
        /\ file' = old.temp.text /\ proc' = [proc EXCEPT ![p] = NextSave(old)]
    BY <1>7, <2>1 DEF Rename
  <2>3. InStep(old) /\ \A q \in Runners : proc[q].pc # "idle" => q = p
    BY <1>3, <2>1, <2>2 DEF Busy
  <2> DEFINE e == Head(old.saves)
             rest == Tail(old.saves)
  <2>4. /\ old.saves \in Seq(Edits) /\ old.saves # << >> /\ SavedEdit(e)
        /\ file' = Patch(file, e)
    <3>1. old.saves \in Seq(Edits) /\ old.saves # << >>
      BY <2>1, <2>2 DEF RunnerSet, RunnerOK, Busy
    <3>2. e \in Edits
      BY <3>1
    <3>3. file' = Patch(old.read, e) /\ old.read = file
      BY <2>1, <2>2, <2>3 DEF RunnerOK, Written, InStep, Saves
    <3>4. QED  BY <3>1, <3>2, <3>3, StageEdits
  <2> HIDE DEF e, rest
  <2>5. PICK d \in Saved!Settings : Agree(Load(file), d) /\ daemon = Folded(d, old.saves)
    BY <2>3 DEF InStep
  <2> DEFINE d1 == Change(d, e)
  <2>6. d1 \in Saved!Settings /\ Agree(Load(file'), d1)
    <3>1. Load(file) \in Saved!Settings /\ GoodText(file)
      BY <1>inv, GoodLoads, GoodTextsAre DEF T
    <3>2. Load(file') = Saved!Edited(Load(file), e)
      BY <2>4, <3>1, LoadPatch
    <3>3. QED  BY <2>4, <2>5, <3>1, <3>2, ChangeAgrees
  <2>7. daemon = Folded(d1, rest)
    <3>1. Folded(d, old.saves) = Folded(Change(d, Head(old.saves)), Tail(old.saves))
      BY <2>4, FoldHead
    <3>2. QED  BY <2>5, <3>1 DEF e, rest
  <2> HIDE DEF d1
  <2>8. PICK r \in RunnerSet(T) : r = NextSave(old) /\ r.pc \in {"idle", "request", "read"}
    BY <1>inv, <2>1, <2>2, NextSaveType DEF Busy
  <2>9. CASE Len(old.saves) > 1
    <3>1. r = [old EXCEPT !.pc = "read", !.saves = rest, !.read = Missing, !.temp = NoFile]
      BY <2>8, <2>9 DEF NextSave, rest
    <3>2. r.pc = "read" /\ r.saves = rest
      BY <3>1 DEF RunnerSet
    <3>3. r.pc \in Busy /\ ~Saves(r)
      BY <3>2 DEF Busy, Saves
    <3>4. \E d2 \in Saved!Settings : Agree(Load(file'), d2) /\ daemon' = Folded(d2, r.saves)
      BY <2>2, <2>6, <2>7, <3>2
    <3>5. QED  BY <1>inv, <2>2, <2>3, <2>8, <3>3, <3>4, OneMoves
  <2>10. CASE ~(Len(old.saves) > 1)
    <3>1. r = NextStage(old)
      BY <2>8, <2>10 DEF NextSave
    <3>2. r.pc \notin Busy
      BY <1>inv, <3>1, NextStageType DEF Busy
    <3>3. rest = << >>
      <4>1. PICK saves \in Seq(Edits) : saves = old.saves /\ saves # << >>
        BY <2>4
      <4>2. Tail(saves) \in Seq(Edits) /\ Len(Tail(saves)) = Len(saves) - 1
        BY <4>1, HeadTailProperties
      <4>3. Len(saves) \in Nat /\ Len(saves) # 0 /\ ~(Len(saves) > 1)
        BY <2>10, <4>1, EmptySeq
      <4>4. \A n \in Nat : n # 0 /\ ~(n > 1) => n - 1 = 0
        OBVIOUS
      <4>5. rest = Tail(saves)
        BY <4>1 DEF rest
      <4>6. rest \in Seq(Edits) /\ Len(rest) = 0
        BY <4>2, <4>3, <4>4, <4>5, Zenon
      <4>7. QED  BY <4>6, EmptySeq
    <3>4. daemon = d1
      BY <2>7, <3>3, FoldOfNone
    <3>5. Settled'
      BY <2>2, <2>6, <3>4 DEF Settled
    <3>6. QED  BY <1>inv, <2>2, <2>3, <2>8, <3>2, <3>5, OneMoves
  <2>11. QED  BY <2>9, <2>10
<1>8. ASSUME NEW p \in Runners, Fail(p) \/ Kill(p) PROVE CleanInv'
  BY <1>8, <1>1 DEF Fail, Kill
<1>9. CASE WriteBack
  BY <1>9 DEF WriteBack, CleanInv, Settled, InStep, Saves
<1>10. CASE PowerLoss
  <2>1. file' = stable /\ daemon' = Load(stable) /\ proc' = [p \in Runners |-> Idle]
    BY <1>10 DEF PowerLoss
  <2>2. \A p \in Runners : proc'[p].pc = "idle"
    BY <2>1 DEF Idle
  <2>3. Settled'
    BY <1>inv, <2>1, GoodLoads, AgreeWithItself DEF Settled, T
  <2>4. QED  BY <2>2, <2>3 DEF CleanInv, Busy
<1>11. CASE UNCHANGED vars
  BY <1>11 DEF vars, CleanInv, Settled, InStep, Saves
<1>12. QED
  BY <1>1, <1>2, <1>4, <1>5, <1>6, <1>7, <1>8, <1>9, <1>10, <1>11 DEF Next

\* After commands that were all saved, one after the other, everything the
\* daemon was told is in the file: for any commands, outputs and texts.
THEOREM NothingSavedIsLost ==
  ASSUME SectionsFit, FilesLoad
  PROVE  Spec => []NothingLost
<1>1. Init => PersistInv(GoodTexts) /\ CleanInv
  <2>1. Init => PersistInv(GoodTexts)
    BY GoodClosed, FilesAreGood, PersistInvInit DEF Closed
  <2>2. ASSUME Init PROVE CleanInv
    <3>1. Settled
      BY <2>2, FilesAreGood, GoodLoads, AgreeWithItself DEF Init, Settled
    <3>2. \A p \in Runners : proc[p].pc = "idle"
      BY <2>2 DEF Init, Idle
    <3>3. QED  BY <3>1, <3>2 DEF CleanInv, Busy
  <2>3. QED  BY <2>1, <2>2
<1>2. PersistInv(GoodTexts) /\ CleanInv /\ [Next]_vars => (PersistInv(GoodTexts) /\ CleanInv)'
  BY GoodClosed, PersistInvStep, CleanStep
<1>3. CleanInv => NothingLost
  BY DEF CleanInv, NothingLost, AllIdle, Busy, Settled, Agree
<1>4. QED  BY <1>1, <1>2, <1>3, PTL DEF Spec
=============================================================================
