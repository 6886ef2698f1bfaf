----------------------------- MODULE FiniteFacts -----------------------------
(***************************************************************************)
(* Facts about sets of numbers, folds over sequences, what is retained of  *)
(* one and sequences in order that the proofs about the components share.  *)
(* Induction is by the least counterexample.                               *)
(***************************************************************************)
EXTENDS Vectors, SequencesExt, WellFoundedInduction, SequenceTheorems, FiniteSetTheorems, TLAPS

\* A set of naturals that is not empty has a least member.
LEMMA Least ==
  ASSUME NEW S \in SUBSET Nat, S # {}
  PROVE  Min(S) \in S /\ \A k \in S : Min(S) <= k
<1>1. \A x, y \in Nat : x < y => <<x, y>> \in OpToRel(<, Nat)
  BY DEF OpToRel
<1>2. PICK m \in S : \A k \in S : ~(<<k, m>> \in OpToRel(<, Nat))
  BY NatLessThanWellFounded, WFMin
<1>3. \A k \in S : ~(k < m)
  BY <1>1, <1>2
<1>4. \A k \in S : m <= k
  BY <1>3
<1> QED BY <1>4 DEF Min

\* One that is bounded has a greatest member.
LEMMA Greatest ==
  ASSUME NEW n \in Nat, NEW S \in SUBSET (0 .. n), S # {}
  PROVE  Max(S) \in S /\ \A k \in S : k <= Max(S)
<1> DEFINE T == {n - k : k \in S}
<1>1. T \in SUBSET Nat /\ T # {}
  OBVIOUS
<1>2. Min(T) \in T /\ \A k \in T : Min(T) <= k
  BY <1>1, Least
<1>3. PICK m \in S : Min(T) = n - m
  BY <1>2
<1>4. ASSUME NEW k \in S PROVE m >= k
  <2>1. n - k \in T
    OBVIOUS
  <2>2. n - m <= n - k /\ m \in 0 .. n /\ k \in 0 .. n
    BY <1>2, <1>3, <2>1
  <2> QED BY <2>2
<1> QED BY <1>4 DEF Max

\* Induction, for a set instead of a predicate.
LEMMA Everything ==
  ASSUME NEW S, 0 \in S, \A n \in Nat : n \in S => n + 1 \in S
  PROVE  Nat \subseteq S
<1> SUFFICES ASSUME Nat \ S # {} PROVE FALSE
  OBVIOUS
<1> DEFINE m == Min(Nat \ S)
<1>1. m \in Nat \ S /\ \A k \in Nat \ S : m <= k
  BY Least
<1> HIDE DEF m
<1>2. m - 1 \in Nat /\ m - 1 \notin Nat \ S
  BY <1>1
<1> QED BY <1>1, <1>2

\* A finite set of naturals has a bound.
LEMMA Bounded ==
  ASSUME NEW S \in SUBSET Nat, IsFiniteSet(S)
  PROVE  \E n \in Nat : S \subseteq 0 .. n
<1>1. PICK q \in Seq(S) : \A s \in S : \E i \in 1 .. Len(q) : q[i] = s
  BY DEF IsFiniteSet
<1> DEFINE I == {n \in Nat : \E b \in Nat : \A i \in 1 .. Len(q) : i <= n => q[i] <= b}
<1>2. Len(q) \in Nat /\ \A i \in 1 .. Len(q) : q[i] \in Nat
  <2>1. Len(q) \in Nat /\ \A i \in 1 .. Len(q) : q[i] \in S
    OBVIOUS
  <2>2. \A s \in S : s \in Nat
    OBVIOUS
  <2> QED BY <2>1, <2>2, Zenon
<1>3. 0 \in I
  BY <1>2
<1>4. ASSUME NEW n \in Nat, n \in I PROVE n + 1 \in I
  <2>1. PICK b \in Nat : \A i \in 1 .. Len(q) : i <= n => q[i] <= b
    BY <1>4
  <2> DEFINE c == IF n + 1 \in 1 .. Len(q) THEN b + q[n + 1] ELSE b
  <2>2. c \in Nat /\ b <= c /\ (n + 1 \in 1 .. Len(q) => q[n + 1] <= c)
    <3>1. CASE n + 1 \in 1 .. Len(q)
      <4>1. q[n + 1] \in Nat
        BY <1>2, <3>1
      <4> QED BY <3>1, <4>1
    <3>2. CASE n + 1 \notin 1 .. Len(q)
      BY <3>2
    <3> QED BY <3>1, <3>2
  <2> HIDE DEF c
  <2>3. ASSUME NEW i \in 1 .. Len(q), i <= n + 1 PROVE q[i] <= c
    <3>1. q[i] \in Nat /\ i \in Nat
      BY <1>2
    <3>2. CASE i <= n
      <4>1. q[i] <= b
        BY <2>1, <3>2
      <4> QED BY <2>2, <3>1, <4>1
    <3>3. CASE i = n + 1
      BY <2>2, <3>3
    <3> QED BY <2>3, <3>1, <3>2, <3>3
  <2>4. n + 1 \in Nat /\ \A i \in 1 .. Len(q) : i <= n + 1 => q[i] <= c
    BY <2>3
  <2> QED BY <2>2, <2>4, Zenon
<1>5. Len(q) \in I
  <2> HIDE DEF I
  <2> QED BY <1>2, <1>3, <1>4, Everything
<1>6. PICK b \in Nat : \A i \in 1 .. Len(q) : q[i] <= b
  <2>1. PICK b \in Nat : \A i \in 1 .. Len(q) : i <= Len(q) => q[i] <= b
    BY <1>5
  <2>2. \A i \in 1 .. Len(q) : i <= Len(q)
    BY <1>2
  <2> QED BY <2>1, <2>2, Zenon
<1>7. ASSUME NEW s \in S PROVE s \in 0 .. b
  <2>1. s \in Nat
    OBVIOUS
  <2>2. s <= b
    BY <1>1, <1>6
  <2> QED BY <2>1, <2>2
<1> QED BY <1>7

-----------------------------------------------------------------------------
(* Folds *)

\* f is the table that a fold of n members by the functions G fills.
IsTable(f, n, b, G) ==
  \A s \in SUBSET (1 .. n) : f[s] = IF s = {} THEN b ELSE G[Max(s)][f[s \ {Max(s)}]]

\* There is one.
LEMMA Table ==
  ASSUME NEW X, NEW b \in X, NEW N \in Nat, NEW G \in [1 .. N -> [X -> X]]
  PROVE  \E f \in [SUBSET (1 .. N) -> X] : IsTable(f, N, b, G)
<1> DEFINE Filled(n) == \E f \in [SUBSET (1 .. n) -> X] : IsTable(f, n, b, G)
           S         == {n \in Nat : n <= N => Filled(n)}
<1>1. Filled(0)
  <2> DEFINE f == [s \in SUBSET (1 .. 0) |-> b]
  <2>1. f \in [SUBSET (1 .. 0) -> X]
    OBVIOUS
  <2>2. IsTable(f, 0, b, G)
    BY DEF IsTable
  <2> QED BY <2>1, <2>2
<1>2. ASSUME NEW n \in Nat, Filled(n), n + 1 <= N PROVE Filled(n + 1)
  <2>1. PICK f \in [SUBSET (1 .. n) -> X] : IsTable(f, n, b, G)
    BY <1>2
  <2> DEFINE g == [s \in SUBSET (1 .. n + 1) |->
                     IF n + 1 \in s THEN G[n + 1][f[s \ {n + 1}]] ELSE f[s]]
  <2>2. ASSUME NEW s \in SUBSET (1 .. n + 1) PROVE s \ {n + 1} \in SUBSET (1 .. n)
    OBVIOUS
  <2>3. G[n + 1] \in [X -> X]
    BY <1>2
  <2>4. ASSUME NEW s \in SUBSET (1 .. n + 1) PROVE g[s] \in X
    <3>1. f[s \ {n + 1}] \in X
      BY <2>2
    <3>2. CASE n + 1 \in s
      BY <2>3, <3>1, <3>2
    <3>3. CASE n + 1 \notin s
      <4>1. s = s \ {n + 1}
        BY <3>3
      <4> QED BY <3>1, <3>3, <4>1
    <3> QED BY <3>2, <3>3
  <2>5. ASSUME NEW s \in SUBSET (1 .. n + 1), s # {}
        PROVE  g[s] = G[Max(s)][g[s \ {Max(s)}]]
    <3>1. CASE n + 1 \in s
      <4>1. Max(s) = n + 1
        <5>0. s \in SUBSET (0 .. n + 1) /\ n + 1 \in Nat
          OBVIOUS
        <5>1. Max(s) \in s /\ \A k \in s : k <= Max(s)
          BY <2>5, <5>0, Greatest
        <5>2. Max(s) \in 1 .. n + 1 /\ n + 1 <= Max(s)
          BY <5>1, <3>1
        <5> QED BY <5>2
      <4>2. g[s \ {n + 1}] = f[s \ {n + 1}]
        OBVIOUS
      <4>3. g[s] = G[n + 1][f[s \ {n + 1}]]
        BY <3>1
      <4> HIDE DEF g
      <4> QED BY <4>1, <4>2, <4>3
    <3>2. CASE n + 1 \notin s
      <4>1. s \in SUBSET (1 .. n) /\ s \ {Max(s)} \in SUBSET (1 .. n)
        BY <3>2, <2>2
      <4>2. f[s] = G[Max(s)][f[s \ {Max(s)}]]
        BY <2>1, <2>5, <4>1 DEF IsTable
      <4>3. g[s] = f[s] /\ g[s \ {Max(s)}] = f[s \ {Max(s)}]
        BY <3>2, <4>1
      <4> HIDE DEF g
      <4> QED BY <4>2, <4>3
    <3> QED BY <3>1, <3>2
  <2>6. g[{}] = b
    BY <2>1 DEF IsTable
  <2>7. g \in [SUBSET (1 .. n + 1) -> X]
    BY <2>4
  <2> HIDE DEF g
  <2>8. IsTable(g, n + 1, b, G)
    BY <2>5, <2>6 DEF IsTable
  <2> QED BY <2>7, <2>8
<1>3. Nat \subseteq S
  <2> HIDE DEF Filled
  <2>1. 0 \in S
    BY <1>1
  <2>2. ASSUME NEW n \in Nat, n \in S PROVE n + 1 \in S
    <3> SUFFICES ASSUME n + 1 <= N PROVE Filled(n + 1)
      OBVIOUS
    <3>1. Filled(n)
      BY <2>2
    <3> QED BY <1>2, <3>1
  <2> HIDE DEF S
  <2> QED BY <2>1, <2>2, Everything
<1>4. Filled(N)
  <2> HIDE DEF Filled
  <2> QED BY <1>3
<1> QED BY <1>4

\* The greatest of the first k numbers, and what is left without it.
LEMMA Topmost ==
  ASSUME NEW k \in Nat \ {0}
  PROVE  /\ Max(1 .. k) = k
         /\ (1 .. k) \ {k} = 1 .. k - 1
         /\ 1 .. k # {}
<1>1. 1 .. k \in SUBSET (0 .. k) /\ k \in 1 .. k
  OBVIOUS
<1>2. Max(1 .. k) \in 1 .. k /\ \A j \in 1 .. k : j <= Max(1 .. k)
  BY <1>1, Greatest
<1> QED BY <1>1, <1>2

\* Recursion over numbers: a function that is given at 0 and by the one before.
LEMMA Recursion ==
  ASSUME NEW X, NEW b \in X, NEW N \in Nat, NEW G \in [1 .. N -> [X -> X]]
  PROVE  \E h \in [0 .. N -> X] : h[0] = b /\ \A k \in 1 .. N : h[k] = G[k][h[k - 1]]
<1>1. PICK f \in [SUBSET (1 .. N) -> X] : IsTable(f, N, b, G)
  BY Table
<1> DEFINE h == [k \in 0 .. N |-> f[1 .. k]]
<1>2. ASSUME NEW k \in 0 .. N PROVE 1 .. k \in SUBSET (1 .. N)
  OBVIOUS
<1>3. h \in [0 .. N -> X]
  BY <1>2
<1>4. h[0] = b
  <2>1. 1 .. 0 = {} /\ 0 \in 0 .. N
    OBVIOUS
  <2>2. f[{}] = b
    BY <1>1 DEF IsTable
  <2> QED BY <2>1, <2>2
<1>5. ASSUME NEW k \in 1 .. N PROVE h[k] = G[k][h[k - 1]]
  <2>1. k \in Nat \ {0} /\ k \in 0 .. N /\ k - 1 \in 0 .. N
    OBVIOUS
  <2>2. Max(1 .. k) = k /\ (1 .. k) \ {k} = 1 .. k - 1 /\ 1 .. k # {}
    BY <2>1, Topmost
  <2>3. f[1 .. k] = G[Max(1 .. k)][f[(1 .. k) \ {Max(1 .. k)}]]
    BY <1>1, <1>2, <2>1, <2>2 DEF IsTable
  <2> QED BY <2>1, <2>2, <2>3
<1> HIDE DEF h
<1> QED BY <1>3, <1>4, <1>5

-----------------------------------------------------------------------------
(* What is retained of a sequence *)

\* The first n members have been gone through, and those in S retained, at these places.
TakenFrom(r, e, s, S, n) ==
  /\ e \in [1 .. Len(r) -> 1 .. n]
  /\ \A i, j \in 1 .. Len(r) : i < j => e[i] < e[j]
  /\ \A i \in 1 .. Len(r) : r[i] = s[e[i]]
  /\ \A k \in 1 .. n : s[k] \in S <=> \E i \in 1 .. Len(r) : e[i] = k

\* The recursion of Retain has a solution.
LEMMA RetainSteps ==
  ASSUME NEW T, NEW s \in Seq(T), NEW S
  PROVE  \E h : /\ h[0] = <<>>
                /\ \A n \in 1 .. Len(s) :
                     h[n] = IF s[n] \in S THEN Append(h[n - 1], s[n]) ELSE h[n - 1]
                /\ Retain(s, S) = h[Len(s)]
<1> DEFINE N     == Len(s)
           G     == [n \in 1 .. N |-> [q \in Seq(T) |-> IF s[n] \in S THEN Append(q, s[n]) ELSE q]]
           F(it) == [n \in 0 .. N |->
                       IF n = 0 THEN <<>>
                       ELSE IF s[n] \in S THEN Append(it[n - 1], s[n]) ELSE it[n - 1]]
           kept  == CHOOSE it : it = F(it)
<1>1. N \in Nat /\ \A n \in 1 .. N : s[n] \in T
  OBVIOUS
<1>2. G \in [1 .. N -> [Seq(T) -> Seq(T)]]
  BY <1>1
<1>3. <<>> \in Seq(T)
  OBVIOUS
<1>4. PICK f \in [0 .. N -> Seq(T)] : f[0] = <<>> /\ \A n \in 1 .. N : f[n] = G[n][f[n - 1]]
  <2> DEFINE X    == Seq(T)
             none == <<>>
  <2>1. none \in X /\ N \in Nat /\ G \in [1 .. N -> [X -> X]]
    BY <1>1, <1>2, <1>3
  <2> HIDE DEF N, G, F, kept, X, none
  <2>2. \E f \in [0 .. N -> X] : f[0] = none /\ \A n \in 1 .. N : f[n] = G[n][f[n - 1]]
    BY <2>1, Recursion
  <2> QED BY <2>2 DEF X, none
<1>5. f = F(f)
  <2>1. ASSUME NEW n \in 1 .. N
        PROVE  f[n] = IF s[n] \in S THEN Append(f[n - 1], s[n]) ELSE f[n - 1]
    <3>1. n - 1 \in 0 .. N
      BY <1>1
    <3>2. f[n - 1] \in Seq(T)
      BY <1>4, <3>1
    <3>3. f[n] = G[n][f[n - 1]]
      BY <1>4
    <3> HIDE DEF N
    <3> QED BY <3>2, <3>3
  <2>2. \A n \in 0 .. N : n = 0 \/ n \in 1 .. N
    BY <1>1
  <2> HIDE DEF N, G
  <2> QED BY <1>4, <2>1, <2>2
<1>6. kept = F(kept)
  <2> HIDE DEF F
  <2> QED BY <1>5
<1>7. Retain(s, S) = kept[N]
  BY DEF Retain
<1> HIDE DEF kept
<1>8. kept[0] = <<>>
  <2>1. 0 \in 0 .. N
    BY <1>1
  <2> QED BY <1>6, <2>1
<1>9. ASSUME NEW n \in 1 .. N
      PROVE  kept[n] = IF s[n] \in S THEN Append(kept[n - 1], s[n]) ELSE kept[n - 1]
  <2>1. n \in 0 .. N /\ n # 0
    BY <1>1
  <2> QED BY <1>6, <2>1
<1> QED BY <1>7, <1>8, <1>9

\* What is retained comes from places in the sequence, in the order of these, and from
\* every place with a member of S.
LEMMA Retained ==
  ASSUME NEW T, NEW s \in Seq(T), NEW S
  PROVE  /\ Retain(s, S) \in Seq(T)
         /\ \E e : TakenFrom(Retain(s, S), e, s, S, Len(s))
<1>1. PICK h : /\ h[0] = <<>>
               /\ \A n \in 1 .. Len(s) :
                    h[n] = IF s[n] \in S THEN Append(h[n - 1], s[n]) ELSE h[n - 1]
               /\ Retain(s, S) = h[Len(s)]
  BY RetainSteps
<1> DEFINE Good(n) == h[n] \in Seq(T) /\ \E e : TakenFrom(h[n], e, s, S, n)
           I       == {n \in Nat : n <= Len(s) => Good(n)}
<1>2. Good(0)
  <2>1. h[0] \in Seq(T) /\ Len(h[0]) = 0
    BY <1>1
  <2>2. TakenFrom(h[0], <<>>, s, S, 0)
    BY <2>1 DEF TakenFrom
  <2> QED BY <2>1, <2>2
<1>3. ASSUME NEW n \in Nat, Good(n), n + 1 <= Len(s) PROVE Good(n + 1)
  <2>1. n + 1 \in 1 .. Len(s) /\ (n + 1) - 1 = n
    BY <1>3
  <2>2. s[n + 1] \in T
    BY <2>1
  <2> DEFINE r == h[n]
  <2>3. PICK e : TakenFrom(r, e, s, S, n)
    BY <1>3
  <2>4. r \in Seq(T) /\ Len(r) \in Nat
    BY <1>3
  <2>5. h[n + 1] = IF s[n + 1] \in S THEN Append(r, s[n + 1]) ELSE r
    BY <1>1, <2>1
  <2> HIDE DEF r
  <2>6. CASE s[n + 1] \in S
    <3> DEFINE q == Append(r, s[n + 1])
               d == [i \in 1 .. Len(r) + 1 |-> IF i = Len(r) + 1 THEN n + 1 ELSE e[i]]
    <3>1. /\ q \in Seq(T) /\ Len(q) = Len(r) + 1
          /\ \A i \in 1 .. Len(r) : q[i] = r[i]
          /\ q[Len(r) + 1] = s[n + 1]
      BY <2>2, <2>4
    <3>2. /\ \A i \in 1 .. Len(r) : d[i] = e[i] /\ e[i] \in 1 .. n
          /\ d[Len(r) + 1] = n + 1
      BY <2>3, <2>4 DEF TakenFrom
    <3>3. \A i \in 1 .. Len(r) + 1 : i \in 1 .. Len(r) \/ i = Len(r) + 1
      BY <2>4
    <3> HIDE DEF q
    <3>a. \A i \in 1 .. Len(r) + 1 : d[i] \in 1 .. n + 1
      <4>1. \A i \in 1 .. Len(r) : d[i] \in 1 .. n + 1
        BY <3>2
      <4>2. d[Len(r) + 1] \in 1 .. n + 1
        BY <3>2
      <4> HIDE DEF d
      <4> QED BY <3>3, <4>1, <4>2
    <3>4. d \in [1 .. Len(q) -> 1 .. n + 1]
      BY <3>1, <3>a
    <3> HIDE DEF d
    <3>5. ASSUME NEW i \in 1 .. Len(q), NEW j \in 1 .. Len(q), i < j PROVE d[i] < d[j]
      <4>1. i \in 1 .. Len(r)
        BY <2>4, <3>1, <3>5
      <4>2. CASE j \in 1 .. Len(r)
        BY <2>3, <3>2, <3>5, <4>1, <4>2 DEF TakenFrom
      <4>3. CASE j = Len(r) + 1
        BY <3>2, <4>1, <4>3
      <4> QED BY <3>1, <3>3, <4>2, <4>3
    <3>6. ASSUME NEW i \in 1 .. Len(q) PROVE q[i] = s[d[i]]
      BY <2>3, <3>1, <3>2, <3>3 DEF TakenFrom
    <3>7. ASSUME NEW k \in 1 .. n + 1
          PROVE  s[k] \in S <=> \E i \in 1 .. Len(q) : d[i] = k
      <4>1. CASE k = n + 1
        <5>1. Len(r) + 1 \in 1 .. Len(q)
          BY <2>4, <3>1
        <5> QED BY <2>6, <3>2, <4>1, <5>1
      <4>2. CASE k \in 1 .. n
        <5>1. s[k] \in S <=> \E i \in 1 .. Len(r) : e[i] = k
          BY <2>3, <4>2 DEF TakenFrom
        <5>2. k # n + 1
          BY <4>2
        <5>3. \A i \in 1 .. Len(r) : i \in 1 .. Len(q)
          BY <2>4, <3>1
        <5> QED BY <3>1, <3>2, <3>3, <5>1, <5>2, <5>3
      <4> QED BY <4>1, <4>2
    <3>8. TakenFrom(q, d, s, S, n + 1)
      BY <3>4, <3>5, <3>6, <3>7 DEF TakenFrom
    <3>9. h[n + 1] = q
      BY <2>5, <2>6 DEF q
    <3> QED BY <3>1, <3>8, <3>9
  <2>7. CASE s[n + 1] \notin S
    <3>1. e \in [1 .. Len(r) -> 1 .. n + 1] /\ \A i \in 1 .. Len(r) : e[i] # n + 1
      BY <2>3 DEF TakenFrom
    <3>2. ASSUME NEW k \in 1 .. n + 1
          PROVE  s[k] \in S <=> \E i \in 1 .. Len(r) : e[i] = k
      <4>1. CASE k = n + 1
        BY <2>7, <3>1, <4>1
      <4>2. CASE k \in 1 .. n
        BY <2>3, <4>2 DEF TakenFrom
      <4> QED BY <4>1, <4>2
    <3>3. TakenFrom(r, e, s, S, n + 1)
      BY <2>3, <3>1, <3>2 DEF TakenFrom
    <3> QED BY <2>4, <2>5, <2>7, <3>3
  <2> QED BY <2>6, <2>7
<1>4. Nat \subseteq I
  <2> HIDE DEF Good
  <2>1. 0 \in I
    BY <1>2
  <2>2. ASSUME NEW n \in Nat, n \in I PROVE n + 1 \in I
    <3> SUFFICES ASSUME n + 1 <= Len(s) PROVE Good(n + 1)
      OBVIOUS
    <3>1. Good(n)
      BY <2>2
    <3> QED BY <1>3, <3>1
  <2> HIDE DEF I
  <2> QED BY <2>1, <2>2, Everything
<1>5. Good(Len(s))
  <2> HIDE DEF Good
  <2>1. Len(s) \in Nat
    OBVIOUS
  <2> QED BY <1>4, <2>1
<1> QED BY <1>1, <1>5

\* What is retained of a sequence with one more at its end.
LEMMA RetainAppend ==
  ASSUME NEW T, NEW s \in Seq(T), NEW x \in T, NEW S
  PROVE  Retain(Append(s, x), S) = IF x \in S THEN Append(Retain(s, S), x) ELSE Retain(s, S)
<1> DEFINE N == Len(s)
           u == Append(s, x)
<1>1. /\ N \in Nat /\ u \in Seq(T) /\ Len(u) = N + 1 /\ u[N + 1] = x
      /\ \A n \in 1 .. N : u[n] = s[n]
  OBVIOUS
<1>2. PICK g : /\ g[0] = <<>>
               /\ \A n \in 1 .. N : g[n] = IF s[n] \in S THEN Append(g[n - 1], s[n]) ELSE g[n - 1]
               /\ Retain(s, S) = g[N]
  BY RetainSteps
<1> HIDE DEF u
<1>3. PICK h : /\ h[0] = <<>>
               /\ \A n \in 1 .. Len(u) : h[n] = IF u[n] \in S THEN Append(h[n - 1], u[n])
                    ELSE h[n - 1]
               /\ Retain(u, S) = h[Len(u)]
  BY <1>1, RetainSteps
<1> DEFINE I == {n \in Nat : n <= N => h[n] = g[n]}
<1>4. Nat \subseteq I
  <2>1. 0 \in I
    BY <1>2, <1>3
  <2>2. ASSUME NEW n \in Nat, n \in I PROVE n + 1 \in I
    <3> SUFFICES ASSUME n + 1 <= N PROVE h[n + 1] = g[n + 1]
      OBVIOUS
    <3>1. n + 1 \in 1 .. N /\ n + 1 \in 1 .. Len(u) /\ (n + 1) - 1 = n /\ h[n] = g[n]
      BY <1>1, <2>2
    <3>2. u[n + 1] = s[n + 1]
      BY <1>1, <3>1
    <3> HIDE DEF N, I
    <3> QED BY <1>2, <1>3, <3>1, <3>2
  <2> HIDE DEF I
  <2> QED BY <2>1, <2>2, Everything
<1>5. h[N] = g[N]
  BY <1>1, <1>4
<1>6. N + 1 \in 1 .. Len(u) /\ (N + 1) - 1 = N
  BY <1>1
<1>7. h[N + 1] = IF x \in S THEN Append(h[N], x) ELSE h[N]
  <2> HIDE DEF N
  <2> QED BY <1>1, <1>3, <1>6
<1> HIDE DEF N
<1> QED BY <1>1, <1>2, <1>3, <1>5, <1>7 DEF u

-----------------------------------------------------------------------------
(* Numbers in order *)

Increasing(q) == \A i, j \in DOMAIN q : i < j => q[i] < q[j]

\* Nothing is dropped where all is kept.
LEMMA RetainAll ==
  ASSUME NEW T, NEW s \in Seq(T), NEW S, \A i \in 1 .. Len(s) : s[i] \in S
  PROVE  Retain(s, S) = s
<1>1. PICK h : /\ h[0] = <<>>
               /\ \A n \in 1 .. Len(s) :
                    h[n] = IF s[n] \in S THEN Append(h[n - 1], s[n]) ELSE h[n - 1]
               /\ Retain(s, S) = h[Len(s)]
  BY RetainSteps
<1> DEFINE Good(n) == h[n] \in Seq(T) /\ Len(h[n]) = n /\ \A i \in 1 .. n : h[n][i] = s[i]
           I       == {n \in Nat : n <= Len(s) => Good(n)}
<1>2. Good(0)
  BY <1>1
<1>3. ASSUME NEW n \in Nat, Good(n), n + 1 <= Len(s) PROVE Good(n + 1)
  <2>1. n + 1 \in 1 .. Len(s) /\ (n + 1) - 1 = n
    BY <1>3
  <2>2. s[n + 1] \in S /\ s[n + 1] \in T
    BY <2>1
  <2>3. h[n + 1] = Append(h[n], s[n + 1])
    BY <1>1, <2>1, <2>2
  <2> QED BY <1>3, <2>2, <2>3
<1>4. Len(s) \in I
  <2> HIDE DEF Good
  <2>1. 0 \in I
    BY <1>2
  <2>2. ASSUME NEW n \in Nat, n \in I PROVE n + 1 \in I
    BY <1>3, <2>2
  <2>3. Len(s) \in Nat
    OBVIOUS
  <2> HIDE DEF I
  <2> QED BY <2>1, <2>2, <2>3, Everything
<1>5. Good(Len(s))
  <2>1. Len(s) <= Len(s)
    OBVIOUS
  <2> HIDE DEF Good
  <2> QED BY <1>4, <2>1
<1> QED BY <1>1, <1>5, SeqEqual

\* What is retained of a sequence is what it has of S, once and in order if it was.
LEMMA RetainKeepsOrder ==
  ASSUME NEW s \in Seq(Nat), NEW S, NEW r, r = Retain(s, S)
  PROVE  /\ r \in Seq(Nat)
         /\ ToSet(r) = ToSet(s) \cap S
         /\ IsInjective(s) => IsInjective(r)
         /\ Increasing(s) => Increasing(r)
<1>1. r \in Seq(Nat) /\ \E e : TakenFrom(r, e, s, S, Len(s))
  BY Retained
<1>2. PICK e : TakenFrom(r, e, s, S, Len(s))
  BY <1>1
<1>3. DOMAIN r = 1 .. Len(r) /\ DOMAIN s = 1 .. Len(s)
  BY <1>1
<1>4. \A i \in DOMAIN r : e[i] \in DOMAIN s /\ r[i] = s[e[i]] /\ r[i] \in S
  <2>1. \A i \in DOMAIN r : e[i] \in DOMAIN s /\ r[i] = s[e[i]]
    BY <1>2, <1>3 DEF TakenFrom
  <2>2. \A i \in DOMAIN r : s[e[i]] \in S
    BY <1>2, <1>3, <2>1 DEF TakenFrom
  <2> QED BY <2>1, <2>2
<1>5. ASSUME NEW k \in DOMAIN s, s[k] \in S PROVE \E i \in DOMAIN r : r[i] = s[k]
  <2>1. \E i \in 1 .. Len(r) : e[i] = k
    BY <1>2, <1>3, <1>5 DEF TakenFrom
  <2> QED BY <1>3, <1>4, <2>1
<1>6. ToSet(r) = ToSet(s) \cap S
  BY <1>4, <1>5 DEF ToSet
<1>7. \A i, j \in DOMAIN r : i < j => e[i] < e[j]
  BY <1>2, <1>3 DEF TakenFrom
<1>8. ASSUME IsInjective(s) PROVE IsInjective(r)
  <2> SUFFICES ASSUME NEW i \in DOMAIN r, NEW j \in DOMAIN r, r[i] = r[j], i # j PROVE FALSE
    BY DEF IsInjective
  <2>1. e[i] = e[j]
    BY <1>4, <1>8 DEF IsInjective
  <2>2. i \in Nat /\ j \in Nat /\ e[i] \in Nat
    BY <1>3, <1>4
  <2>3. i < j \/ j < i
    BY <2>2
  <2> QED BY <1>7, <2>1, <2>2, <2>3
<1>9. ASSUME Increasing(s) PROVE Increasing(r)
  BY <1>4, <1>7, <1>9 DEF Increasing
<1> QED BY <1>1, <1>6, <1>8, <1>9

\* One sequence after another.
LEMMA JoinKeepsOrder ==
  ASSUME NEW p \in Seq(Nat), NEW q \in Seq(Nat), NEW w, w = p \o q
  PROVE  /\ w \in Seq(Nat) /\ Len(w) = Len(p) + Len(q)
         /\ ToSet(w) = ToSet(p) \cup ToSet(q)
         /\ IsInjective(p) /\ IsInjective(q) /\ ToSet(p) \cap ToSet(q) = {} => IsInjective(w)
         /\ Increasing(p) /\ Increasing(q) /\ (\A x \in ToSet(p), y \in ToSet(q) : x < y)
              => Increasing(w)
<1>1. w \in Seq(Nat) /\ Len(w) = Len(p) + Len(q) /\ Len(p) \in Nat /\ Len(q) \in Nat
  OBVIOUS
<1>2. /\ DOMAIN p = 1 .. Len(p) /\ DOMAIN q = 1 .. Len(q) /\ DOMAIN w = 1 .. Len(p) + Len(q)
  BY <1>1
<1>3. \A i \in DOMAIN p : i \in DOMAIN w /\ w[i] = p[i]
  BY <1>2
<1>4. \A i \in DOMAIN q : i + Len(p) \in DOMAIN w /\ w[i + Len(p)] = q[i]
  BY <1>2
<1>5. ASSUME NEW i \in DOMAIN w
      PROVE  \/ i \in DOMAIN p /\ w[i] = p[i]
             \/ i - Len(p) \in DOMAIN q /\ i > Len(p) /\ w[i] = q[i - Len(p)]
  <2>1. CASE i <= Len(p)
    BY <1>1, <1>2, <1>3, <2>1
  <2>2. CASE i > Len(p)
    <3>1. i - Len(p) \in DOMAIN q /\ (i - Len(p)) + Len(p) = i
      BY <1>1, <1>2, <2>2
    <3> QED BY <1>4, <2>2, <3>1
  <2> QED BY <1>1, <1>2, <2>1, <2>2
<1>6. ToSet(w) = ToSet(p) \cup ToSet(q)
  <2>1. \A i \in DOMAIN w : w[i] \in ToSet(p) \cup ToSet(q)
    BY <1>5 DEF ToSet
  <2>2. \A i \in DOMAIN p : p[i] \in ToSet(w)
    BY <1>3 DEF ToSet
  <2>3. \A i \in DOMAIN q : q[i] \in ToSet(w)
    BY <1>4 DEF ToSet
  <2> QED BY <2>1, <2>2, <2>3 DEF ToSet
<1>7. ASSUME IsInjective(p), IsInjective(q), ToSet(p) \cap ToSet(q) = {} PROVE IsInjective(w)
  <2> SUFFICES ASSUME NEW i \in DOMAIN w, NEW j \in DOMAIN w, w[i] = w[j] PROVE i = j
    BY DEF IsInjective
  <2>1. i \in Nat /\ j \in Nat
    BY <1>1, <1>2
  <2>2. \A a \in DOMAIN p, b \in DOMAIN q : p[a] # q[b]
    BY <1>7 DEF ToSet
  <2>3. CASE i \in DOMAIN p /\ w[i] = p[i] /\ j \in DOMAIN p /\ w[j] = p[j]
    BY <1>7, <2>3 DEF IsInjective
  <2>4. CASE /\ i - Len(p) \in DOMAIN q /\ w[i] = q[i - Len(p)]
             /\ j - Len(p) \in DOMAIN q /\ w[j] = q[j - Len(p)]
    <3>1. i - Len(p) = j - Len(p)
      BY <1>7, <2>4 DEF IsInjective
    <3> QED BY <1>1, <2>1, <3>1
  <2> QED BY <1>5, <2>2, <2>3, <2>4
<1>8. ASSUME Increasing(p), Increasing(q), \A x \in ToSet(p), y \in ToSet(q) : x < y
      PROVE  Increasing(w)
  <2> SUFFICES ASSUME NEW i \in DOMAIN w, NEW j \in DOMAIN w, i < j PROVE w[i] < w[j]
    BY DEF Increasing
  <2>1. i \in Nat /\ j \in Nat
    BY <1>1, <1>2
  <2>2. \A a \in DOMAIN p, b \in DOMAIN q : p[a] < q[b]
    BY <1>8 DEF ToSet
  <2>3. CASE j <= Len(p)
    <3>1. i \in DOMAIN p /\ j \in DOMAIN p
      BY <1>1, <1>2, <2>1, <2>3
    <3> QED BY <1>3, <1>8, <3>1 DEF Increasing
  <2>4. CASE i > Len(p)
    <3>1. /\ i - Len(p) \in DOMAIN q /\ j - Len(p) \in DOMAIN q /\ i - Len(p) < j - Len(p)
      BY <1>1, <1>2, <2>1, <2>4
    <3>2. q[i - Len(p)] < q[j - Len(p)]
      BY <1>8, <3>1 DEF Increasing
    <3>3. ~(i <= Len(p)) /\ ~(j <= Len(p))
      BY <1>1, <2>1, <2>4
    <3>4. w[i] = q[i - Len(p)] /\ w[j] = q[j - Len(p)]
      BY <1>2, <1>5, <3>3
    <3> QED BY <3>2, <3>4
  <2>5. CASE i <= Len(p) /\ j > Len(p)
    <3>1. i \in DOMAIN p /\ j \notin DOMAIN p
      BY <1>1, <1>2, <2>1, <2>5
    <3> QED BY <1>3, <1>5, <2>2, <3>1
  <2> QED BY <1>1, <2>1, <2>3, <2>4, <2>5
<1> QED BY <1>1, <1>6, <1>7, <1>8

\* A sequence in order has each of its members once.
LEMMA InOrderIsOnce ==
  ASSUME NEW q \in Seq(Nat), Increasing(q)
  PROVE  /\ IsInjective(q)
         /\ IsFiniteSet(ToSet(q)) /\ Cardinality(ToSet(q)) = Len(q)
<1>1. Len(q) \in Nat /\ DOMAIN q = 1 .. Len(q) /\ \A i \in DOMAIN q : q[i] \in Nat
  OBVIOUS
<1>2. IsInjective(q)
  <2> SUFFICES ASSUME NEW i \in DOMAIN q, NEW j \in DOMAIN q, q[i] = q[j], i # j PROVE FALSE
    BY DEF IsInjective
  <2>1. i \in Nat /\ j \in Nat /\ q[i] \in Nat
    BY <1>1
  <2>2. i < j \/ j < i
    BY <2>1
  <2>3. q[i] < q[j] \/ q[j] < q[i]
    BY <2>2 DEF Increasing
  <2> QED BY <2>1, <2>3
<1>3. q \in [1 .. Len(q) -> ToSet(q)] /\ \A x \in ToSet(q) : \E i \in 1 .. Len(q) : q[i] = x
  BY <1>1 DEF ToSet
<1>4. q \in Bijection(1 .. Len(q), ToSet(q))
  BY <1>2, <1>3 DEF Bijection, Injection, Surjection
<1>5. ExistsBijection(1 .. Len(q), ToSet(q))
  BY <1>4 DEF ExistsBijection
<1>6. Cardinality(ToSet(q)) = Len(q)
  BY <1>1, <1>5, FS_CountingElements
<1>7. IsFiniteSet(ToSet(q))
  BY <1>1, <1>5, FS_NatBijection
<1> QED BY <1>2, <1>6, <1>7

-----------------------------------------------------------------------------
(* A member put into a sequence, or taken out of it *)

\* r is q with x put in at k, or without the member at k.
IsInserted(r, q, k, x) ==
  /\ Len(r) = Len(q) + 1 /\ r[k] = x
  /\ \A i \in 1 .. k - 1 : r[i] = q[i]
  /\ \A i \in k + 1 .. Len(q) + 1 : r[i] = q[i - 1]

IsRemoved(r, q, k) ==
  /\ Len(r) = Len(q) - 1
  /\ \A i \in 1 .. k - 1 : r[i] = q[i]
  /\ \A i \in k .. Len(q) - 1 : r[i] = q[i + 1]

LEMMA InsertAtIs ==
  ASSUME NEW T, NEW q \in Seq(T), NEW x \in T, NEW k \in 1 .. Len(q) + 1
  PROVE  InsertAt(q, k, x) \in Seq(T) /\ IsInserted(InsertAt(q, k, x), q, k, x)
<1> DEFINE r == InsertAt(q, k, x)
           a == SubSeq(q, 1, k - 1)
           b == SubSeq(q, k, Len(q))
           o == <<x>>
<1>1. Len(q) \in Nat /\ k \in Nat /\ \A i \in 1 .. Len(q) : q[i] \in T
  OBVIOUS
<1>2. /\ a \in Seq(T) /\ Len(a) = k - 1
      /\ \A i \in 1 .. k - 1 : a[i] = q[i]
  BY <1>1, SubSeqProperties
<1>3. /\ b \in Seq(T) /\ Len(b) = Len(q) + 1 - k
      /\ \A i \in 1 .. Len(q) + 1 - k : b[i] = q[k + i - 1]
  <2>1. \A i \in k .. Len(q) : q[i] \in T
    BY <1>1
  <2>2. /\ b \in Seq(T) /\ Len(b) = (IF k <= Len(q) THEN Len(q) - k + 1 ELSE 0)
        /\ \A i \in 1 .. Len(q) - k + 1 : b[i] = q[k + i - 1]
    BY <1>1, <2>1, SubSeqProperties
  <2> HIDE DEF b
  <2> QED BY <1>1, <2>2
<1>4. o \in Seq(T) /\ Len(o) = 1 /\ o[1] = x
  OBVIOUS
<1>5. r = (a \o o) \o b
  BY DEF InsertAt
<1> HIDE DEF a, b, o, r
<1> DEFINE c == a \o o
<1>6. /\ c \in Seq(T) /\ Len(c) = k
      /\ \A i \in 1 .. k : c[i] = IF i < k THEN q[i] ELSE x
  <2>1. /\ c \in Seq(T) /\ Len(c) = Len(a) + Len(o)
        /\ \A i \in 1 .. Len(a) + Len(o) : c[i] = IF i <= Len(a) THEN a[i] ELSE o[i - Len(a)]
    BY <1>2, <1>4, ConcatProperties
  <2> HIDE DEF c
  <2>2. Len(c) = k
    BY <1>1, <1>2, <1>4, <2>1
  <2>3. ASSUME NEW i \in 1 .. k PROVE c[i] = IF i < k THEN q[i] ELSE x
    <3>1. CASE i < k
      BY <1>1, <1>2, <1>4, <2>1, <3>1
    <3>2. CASE i = k
      <4>1. ~(i <= Len(a)) /\ i - Len(a) = 1 /\ i \in 1 .. Len(a) + Len(o)
        BY <1>1, <1>2, <1>4, <3>2
      <4> QED BY <1>4, <2>1, <3>2, <4>1
    <3> QED BY <1>1, <3>1, <3>2
  <2> QED BY <2>1, <2>2, <2>3
<1>7. /\ r \in Seq(T) /\ Len(r) = Len(c) + Len(b)
      /\ \A i \in 1 .. Len(c) + Len(b) : r[i] = IF i <= Len(c) THEN c[i] ELSE b[i - Len(c)]
  <2> HIDE DEF c
  <2>1. r = c \o b
    BY <1>5 DEF c
  <2> QED BY <1>3, <1>6, <2>1, ConcatProperties
<1> HIDE DEF c
<1>8. Len(c) + Len(b) = Len(q) + 1
  BY <1>1, <1>3, <1>6
<1>9. ASSUME NEW i \in 1 .. Len(q) + 1
      PROVE  r[i] = IF i < k THEN q[i] ELSE IF i = k THEN x ELSE q[i - 1]
  <2>1. CASE i <= k
    BY <1>1, <1>6, <1>7, <1>8, <2>1
  <2>2. CASE i > k
    <3>1. ~(i <= Len(c)) /\ i - Len(c) \in 1 .. Len(q) + 1 - k /\ k + (i - Len(c)) - 1 = i - 1
      BY <1>1, <1>6, <2>2
    <3>2. b[i - Len(c)] = q[i - 1]
      BY <1>3, <3>1
    <3>3. r[i] = b[i - Len(c)]
      BY <1>7, <1>8, <3>1
    <3> QED BY <1>1, <2>2, <3>2, <3>3
  <2> QED BY <1>1, <2>1, <2>2
<1> HIDE DEF c
<1>10. /\ r[k] = x
       /\ \A i \in 1 .. k - 1 : r[i] = q[i]
       /\ \A i \in k + 1 .. Len(q) + 1 : r[i] = q[i - 1]
  BY <1>1, <1>9
<1>11. r \in Seq(T) /\ IsInserted(r, q, k, x)
  BY <1>7, <1>8, <1>10 DEF IsInserted
<1> QED BY <1>11 DEF r

LEMMA RemoveAtIs ==
  ASSUME NEW T, NEW q \in Seq(T), NEW k \in 1 .. Len(q)
  PROVE  RemoveAt(q, k) \in Seq(T) /\ IsRemoved(RemoveAt(q, k), q, k)
<1> DEFINE r == RemoveAt(q, k)
           a == SubSeq(q, 1, k - 1)
           b == SubSeq(q, k + 1, Len(q))
<1>1. Len(q) \in Nat /\ k \in Nat /\ \A i \in 1 .. Len(q) : q[i] \in T
  OBVIOUS
<1>2. /\ a \in Seq(T) /\ Len(a) = k - 1
      /\ \A i \in 1 .. k - 1 : a[i] = q[i]
  BY <1>1, SubSeqProperties
<1>3. /\ b \in Seq(T) /\ Len(b) = Len(q) - k
      /\ \A i \in 1 .. Len(q) - k : b[i] = q[k + i]
  <2>1. \A i \in k + 1 .. Len(q) : q[i] \in T
    BY <1>1
  <2>2. /\ b \in Seq(T) /\ Len(b) = (IF k + 1 <= Len(q) THEN Len(q) - (k + 1) + 1 ELSE 0)
        /\ \A i \in 1 .. Len(q) - (k + 1) + 1 : b[i] = q[(k + 1) + i - 1]
    BY <1>1, <2>1, SubSeqProperties
  <2> HIDE DEF b
  <2>3. \A i \in 1 .. Len(q) - k : (k + 1) + i - 1 = k + i /\ i \in 1 .. Len(q) - (k + 1) + 1
    BY <1>1
  <2> QED BY <1>1, <2>2, <2>3
<1>5. r = a \o b
  BY DEF RemoveAt
<1> HIDE DEF a, b, r
<1>7. /\ r \in Seq(T) /\ Len(r) = Len(a) + Len(b)
      /\ \A i \in 1 .. Len(a) + Len(b) : r[i] = IF i <= Len(a) THEN a[i] ELSE b[i - Len(a)]
  <2>1. a \in Seq(T) /\ b \in Seq(T)
    BY <1>2, <1>3
  <2> QED BY <1>5, <2>1, ConcatProperties
<1>8. Len(a) + Len(b) = Len(q) - 1
  BY <1>1, <1>2, <1>3
<1>9. ASSUME NEW i \in 1 .. Len(q) - 1 PROVE r[i] = IF i < k THEN q[i] ELSE q[i + 1]
  <2>1. CASE i < k
    BY <1>1, <1>2, <1>7, <1>8, <2>1
  <2>2. CASE i >= k
    <3>1. ~(i <= Len(a)) /\ i - Len(a) \in 1 .. Len(q) - k /\ k + (i - Len(a)) = i + 1
      BY <1>1, <1>2, <2>2
    <3> QED BY <1>1, <1>3, <1>7, <1>8, <2>2, <3>1
  <2> QED BY <1>1, <2>1, <2>2
<1>10. r \in Seq(T) /\ IsRemoved(r, q, k)
  <2>1. \A i \in 1 .. k - 1 : r[i] = q[i]
    BY <1>1, <1>9
  <2>2. \A i \in k .. Len(q) - 1 : r[i] = q[i + 1]
    BY <1>1, <1>9
  <2> QED BY <1>7, <1>8, <2>1, <2>2 DEF IsRemoved
<1> QED BY <1>10 DEF r

\* One member, and one more.
LEMMA Pair ==
  ASSUME NEW T, NEW x \in T, NEW y \in T
  PROVE  Append(<<x>>, y) = <<x, y>>
<1>1. <<x>> \in Seq(T) /\ Len(<<x>>) = 1 /\ <<x>>[1] = x
  OBVIOUS
<1>2. /\ Append(<<x>>, y) \in Seq(T) /\ Len(Append(<<x>>, y)) = 2
      /\ Append(<<x>>, y)[1] = x /\ Append(<<x>>, y)[2] = y
  BY <1>1, AppendProperties
<1>3. /\ <<x, y>> \in Seq(T) /\ Len(<<x, y>>) = 2 /\ <<x, y>>[1] = x /\ <<x, y>>[2] = y
  OBVIOUS
<1>4. \A i \in 1 .. 2 : Append(<<x>>, y)[i] = <<x, y>>[i]
  BY <1>2, <1>3
<1> QED BY <1>2, <1>3, <1>4, SeqEqual

\* What is put in is taken out again, what is taken out put back, and the last place is the end.
LEMMA InsertedRemoved ==
  ASSUME NEW T, NEW q \in Seq(T), NEW x \in T, NEW k \in 1 .. Len(q) + 1
  PROVE  RemoveAt(InsertAt(q, k, x), k) = q
<1> DEFINE r == InsertAt(q, k, x)
           s == RemoveAt(r, k)
<1>1. r \in Seq(T) /\ IsInserted(r, q, k, x)
  BY InsertAtIs
<1>2. Len(q) \in Nat /\ k \in Nat
  OBVIOUS
<1> HIDE DEF r
<1>3. /\ Len(r) = Len(q) + 1
      /\ \A i \in 1 .. k - 1 : r[i] = q[i]
      /\ \A i \in k + 1 .. Len(q) + 1 : r[i] = q[i - 1]
  BY <1>1 DEF IsInserted
<1>4. s \in Seq(T) /\ IsRemoved(s, r, k)
  <2>1. k \in 1 .. Len(r)
    BY <1>3
  <2> QED BY <1>1, <2>1, RemoveAtIs
<1> HIDE DEF s
<1>5. /\ Len(s) = Len(q)
      /\ \A i \in 1 .. k - 1 : s[i] = r[i]
      /\ \A i \in k .. Len(q) : s[i] = r[i + 1]
  BY <1>2, <1>3, <1>4 DEF IsRemoved
<1>6. ASSUME NEW i \in 1 .. Len(s) PROVE s[i] = q[i]
  <2>1. CASE i < k
    BY <1>2, <1>3, <1>5, <2>1
  <2>2. CASE i >= k
    <3>1. i \in k .. Len(q) /\ i + 1 \in k + 1 .. Len(q) + 1 /\ (i + 1) - 1 = i
      BY <1>2, <1>5, <2>2
    <3> QED BY <1>3, <1>5, <3>1
  <2> QED BY <1>2, <1>5, <2>1, <2>2
<1> QED BY <1>4, <1>5, <1>6, SeqEqual DEF r, s

LEMMA RemovedInserted ==
  ASSUME NEW T, NEW q \in Seq(T), NEW k \in 1 .. Len(q)
  PROVE  InsertAt(RemoveAt(q, k), k, q[k]) = q
<1> DEFINE r == RemoveAt(q, k)
           x == q[k]
           s == InsertAt(r, k, x)
<1>1. r \in Seq(T) /\ IsRemoved(r, q, k)
  BY RemoveAtIs
<1>2. Len(q) \in Nat /\ k \in Nat /\ x \in T
  OBVIOUS
<1> HIDE DEF r, x
<1>3. /\ Len(r) = Len(q) - 1
      /\ \A i \in 1 .. k - 1 : r[i] = q[i]
      /\ \A i \in k .. Len(q) - 1 : r[i] = q[i + 1]
  BY <1>1 DEF IsRemoved
<1>4. s \in Seq(T) /\ IsInserted(s, r, k, x)
  <2>1. k \in 1 .. Len(r) + 1
    BY <1>2, <1>3
  <2> QED BY <1>1, <1>2, <2>1, InsertAtIs
<1> HIDE DEF s
<1>5. /\ Len(s) = Len(q) /\ s[k] = x
      /\ \A i \in 1 .. k - 1 : s[i] = r[i]
      /\ \A i \in k + 1 .. Len(q) : s[i] = r[i - 1]
  BY <1>2, <1>3, <1>4 DEF IsInserted
<1>6. ASSUME NEW i \in 1 .. Len(s) PROVE s[i] = q[i]
  <2>1. CASE i < k
    BY <1>2, <1>3, <1>5, <2>1
  <2>2. CASE i > k
    <3>1. i \in k + 1 .. Len(q) /\ i - 1 \in k .. Len(q) - 1 /\ (i - 1) + 1 = i
      BY <1>2, <1>5, <2>2
    <3> QED BY <1>3, <1>5, <3>1
  <2>3. CASE i = k
    BY <1>5, <2>3 DEF x
  <2> QED BY <1>2, <1>5, <2>1, <2>2, <2>3
<1> QED BY <1>4, <1>5, <1>6, SeqEqual DEF r, s, x

LEMMA EndIsAppend ==
  ASSUME NEW T, NEW q \in Seq(T), NEW x \in T
  PROVE  InsertAt(q, Len(q) + 1, x) = Append(q, x) /\ RemoveAt(Append(q, x), Len(q) + 1) = q
<1> DEFINE r == InsertAt(q, Len(q) + 1, x)
<1>0. Len(q) \in Nat /\ Len(q) + 1 \in 1 .. Len(q) + 1
  OBVIOUS
<1>1. r \in Seq(T) /\ IsInserted(r, q, Len(q) + 1, x)
  BY <1>0, InsertAtIs
<1> HIDE DEF r
<1>2. Len(r) = Len(q) + 1 /\ r[Len(q) + 1] = x /\ \A i \in 1 .. Len(q) : r[i] = q[i]
  <2>1. (Len(q) + 1) - 1 = Len(q)
    BY <1>0
  <2> QED BY <1>1, <2>1 DEF IsInserted
<1>3. /\ Append(q, x) \in Seq(T) /\ Len(Append(q, x)) = Len(q) + 1
      /\ Append(q, x)[Len(q) + 1] = x /\ \A i \in 1 .. Len(q) : Append(q, x)[i] = q[i]
  BY AppendProperties
<1>4. \A i \in 1 .. Len(r) : i \in 1 .. Len(q) \/ i = Len(q) + 1
  BY <1>0, <1>2
<1>5. r = Append(q, x)
  <2>1. \A i \in 1 .. Len(r) : r[i] = Append(q, x)[i]
    BY <1>2, <1>3, <1>4
  <2> QED BY <1>1, <1>2, <1>3, <2>1, SeqEqual
<1>6. RemoveAt(r, Len(q) + 1) = q
  BY <1>0, InsertedRemoved DEF r
<1> QED BY <1>5, <1>6 DEF r

\* Two sequences in order that have the same members are the same.
LEMMA OrderIsUnique ==
  ASSUME NEW p \in Seq(Nat), NEW q \in Seq(Nat), Increasing(p), Increasing(q), ToSet(p) = ToSet(q)
  PROVE  p = q
<1>1. Len(p) = Len(q) /\ Len(p) \in Nat
  BY InOrderIsOnce
<1>2. DOMAIN p = 1 .. Len(p) /\ DOMAIN q = 1 .. Len(p)
  BY <1>1
<1> DEFINE D == {i \in 1 .. Len(p) : p[i] # q[i]}
<1>3. CASE D = {}
  BY <1>1, <1>3, SeqEqual
<1>4. ASSUME D # {} PROVE FALSE
  <2>1. D \in SUBSET Nat
    OBVIOUS
  <2> DEFINE m == Min(D)
  <2>2. m \in D /\ \A i \in D : m <= i
    BY <1>4, <2>1, Least
  <2> HIDE DEF m
  <2>3. /\ m \in 1 .. Len(p) /\ p[m] # q[m] /\ p[m] \in Nat /\ q[m] \in Nat
        /\ \A i \in 1 .. Len(p) : i < m => p[i] = q[i]
    BY <1>1, <2>2
  <2> HIDE DEF D
  <2>4. ASSUME p[m] < q[m] PROVE FALSE
    <3>1. PICK j \in 1 .. Len(p) : q[j] = p[m]
      BY <1>2, <2>3 DEF ToSet
    <3>2. CASE j < m
      <4>1. p[j] = p[m] /\ p[j] < p[m]
        BY <1>2, <2>3, <3>1, <3>2 DEF Increasing
      <4> QED BY <2>3, <4>1
    <3>3. CASE j >= m
      <4>1. j = m \/ m < j
        BY <1>1, <2>3, <3>3
      <4>2. j = m \/ q[m] < q[j]
        BY <1>2, <2>3, <4>1 DEF Increasing
      <4> QED BY <2>3, <2>4, <3>1, <4>2
    <3> QED BY <2>3, <3>2, <3>3
  <2>5. ASSUME q[m] < p[m] PROVE FALSE
    <3>1. PICK j \in 1 .. Len(p) : p[j] = q[m]
      BY <1>2, <2>3 DEF ToSet
    <3>2. CASE j < m
      <4>1. q[j] = q[m] /\ q[j] < q[m]
        BY <1>2, <2>3, <3>1, <3>2 DEF Increasing
      <4> QED BY <2>3, <4>1
    <3>3. CASE j >= m
      <4>1. j = m \/ m < j
        BY <1>1, <2>3, <3>3
      <4>2. j = m \/ p[m] < p[j]
        BY <1>2, <2>3, <4>1 DEF Increasing
      <4> QED BY <2>3, <2>5, <3>1, <4>2
    <3> QED BY <2>3, <3>2, <3>3
  <2> QED BY <2>3, <2>4, <2>5
<1> QED BY <1>3, <1>4

\* A number put where it belongs, and one taken out, leave the others in order.
LEMMA InsertKeepsOrder ==
  ASSUME NEW q \in Seq(Nat), Increasing(q), NEW p \in Nat, NEW k \in 1 .. Len(q) + 1,
         \A i \in DOMAIN q : IF i < k THEN q[i] < p ELSE p < q[i],
         NEW r, r = InsertAt(q, k, p)
  PROVE  r \in Seq(Nat) /\ Increasing(r) /\ ToSet(r) = ToSet(q) \cup {p}
<1> DEFINE P == ToSet(q)
<1>1. /\ q \in Seq(Nat) /\ Increasing(q) /\ ToSet(q) = P /\ Len(q) \in Nat /\ DOMAIN q = 1 .. Len(q)
  OBVIOUS
<1> HIDE DEF P
<1>2. /\ r \in Seq(Nat) /\ Len(r) = Len(q) + 1 /\ r[k] = p
      /\ \A i \in 1 .. k - 1 : r[i] = q[i]
      /\ \A i \in k + 1 .. Len(q) + 1 : r[i] = q[i - 1]
  <2>1. r \in Seq(Nat) /\ IsInserted(r, q, k, p)
    BY InsertAtIs
  <2> QED BY <2>1 DEF IsInserted
<1>3. \A i \in DOMAIN q : IF i < k THEN q[i] < p ELSE p < q[i]
  OBVIOUS
<1>4. DOMAIN r = 1 .. Len(q) + 1 /\ k \in 1 .. Len(q) + 1
  BY <1>1, <1>2
<1>5. Increasing(r)
  <2> SUFFICES ASSUME NEW i \in 1 .. Len(q) + 1, NEW j \in 1 .. Len(q) + 1, i < j
               PROVE  r[i] < r[j]
    BY <1>4 DEF Increasing
  <2>1. CASE j < k
    <3>1. i \in DOMAIN q /\ j \in DOMAIN q /\ r[i] = q[i] /\ r[j] = q[j]
      BY <1>1, <1>2, <1>4, <2>1
    <3> QED BY <1>1, <3>1 DEF Increasing
  <2>2. CASE j = k
    <3>1. i \in DOMAIN q /\ r[i] = q[i] /\ r[j] = p
      BY <1>1, <1>2, <1>4, <2>2
    <3> QED BY <1>3, <2>2, <3>1
  <2>3. CASE j > k /\ i < k
    <3>1. i \in DOMAIN q /\ j - 1 \in DOMAIN q /\ r[i] = q[i] /\ r[j] = q[j - 1] /\ i < j - 1
      BY <1>1, <1>2, <1>4, <2>3
    <3> QED BY <1>1, <3>1 DEF Increasing
  <2>4. CASE j > k /\ i = k
    <3>1. j - 1 \in DOMAIN q /\ r[i] = p /\ r[j] = q[j - 1] /\ ~(j - 1 < k)
      BY <1>1, <1>2, <1>4, <2>4
    <3> QED BY <1>3, <3>1
  <2>5. CASE j > k /\ i > k
    <3>1. /\ i - 1 \in DOMAIN q /\ j - 1 \in DOMAIN q /\ r[i] = q[i - 1] /\ r[j] = q[j - 1]
          /\ i - 1 < j - 1
      BY <1>1, <1>2, <1>4, <2>5
    <3> QED BY <1>1, <3>1 DEF Increasing
  <2> QED BY <1>4, <2>1, <2>2, <2>3, <2>4, <2>5
<1>6. ToSet(r) = P \cup {p}
  <2>1. ASSUME NEW i \in DOMAIN r PROVE r[i] \in P \cup {p}
    <3>1. CASE i < k
      <4>1. i \in DOMAIN q /\ r[i] = q[i]
        BY <1>1, <1>2, <1>4, <3>1
      <4> QED BY <1>1, <4>1 DEF ToSet
    <3>2. CASE i = k
      BY <1>2, <1>4, <3>2
    <3>3. CASE i > k
      <4>1. i - 1 \in DOMAIN q /\ r[i] = q[i - 1]
        BY <1>1, <1>2, <1>4, <3>3
      <4> QED BY <1>1, <4>1 DEF ToSet
    <3> QED BY <1>4, <3>1, <3>2, <3>3
  <2>2. \E i \in DOMAIN r : r[i] = p
    <3>1. k \in DOMAIN r /\ k \in 1 .. Len(q) + 1 /\ ~(k < k)
      BY <1>1, <1>4
    <3>2. r[k] = p
      BY <1>2, <3>1
    <3> QED BY <3>1, <3>2
  <2>3. ASSUME NEW j \in DOMAIN q PROVE \E i \in DOMAIN r : r[i] = q[j]
    <3>1. CASE j < k
      <4>1. j \in DOMAIN r /\ r[j] = q[j]
        BY <1>1, <1>2, <1>4, <3>1
      <4> QED BY <4>1
    <3>2. CASE j >= k
      <4>1. j + 1 \in DOMAIN r /\ r[j + 1] = q[j]
        BY <1>1, <1>2, <1>4, <3>2
      <4> QED BY <4>1
    <3> QED BY <1>1, <1>4, <3>1, <3>2
  <2>4. \A x \in P : \E i \in DOMAIN r : r[i] = x
    BY <1>1, <2>3 DEF ToSet
  <2> QED BY <2>1, <2>2, <2>4 DEF ToSet
<1> QED BY <1>2, <1>5, <1>6 DEF P

LEMMA RemoveKeepsOrder ==
  ASSUME NEW q \in Seq(Nat), Increasing(q), NEW k \in 1 .. Len(q), NEW r, r = RemoveAt(q, k)
  PROVE  r \in Seq(Nat) /\ Increasing(r) /\ ToSet(r) = ToSet(q) \ {q[k]}
<1> DEFINE P == ToSet(q)
           p == q[k]
<1>1. /\ q \in Seq(Nat) /\ Increasing(q) /\ ToSet(q) = P /\ Len(q) \in Nat /\ DOMAIN q = 1 .. Len(q)
  OBVIOUS
<1> HIDE DEF P
<1>2. /\ r \in Seq(Nat) /\ Len(r) = Len(q) - 1
      /\ \A i \in 1 .. Len(q) - 1 : r[i] = IF i < k THEN q[i] ELSE q[i + 1]
  <2>1. r \in Seq(Nat) /\ IsRemoved(r, q, k)
    BY RemoveAtIs
  <2> QED BY <1>1, <2>1 DEF IsRemoved
<1>4. k \in 1 .. Len(q) /\ k \in Nat
  BY <1>1
<1>3. DOMAIN r = 1 .. Len(q) - 1
  BY <1>1, <1>2, <1>4
<1>5. Increasing(r)
  <2> SUFFICES ASSUME NEW i \in 1 .. Len(q) - 1, NEW j \in 1 .. Len(q) - 1, i < j
               PROVE  r[i] < r[j]
    BY <1>3 DEF Increasing
  <2>1. CASE j < k
    <3>1. i < k /\ i \in DOMAIN q /\ j \in DOMAIN q
      BY <1>1, <1>4, <2>1
    <3>2. r[i] = q[i] /\ r[j] = q[j]
      BY <1>2, <2>1, <3>1
    <3> QED BY <1>1, <3>1, <3>2 DEF Increasing
  <2>2. CASE j >= k /\ i < k
    <3>1. i \in DOMAIN q /\ j + 1 \in DOMAIN q /\ r[i] = q[i] /\ r[j] = q[j + 1] /\ i < j + 1
      BY <1>1, <1>2, <1>4, <2>2
    <3> QED BY <1>1, <3>1 DEF Increasing
  <2>3. CASE i >= k
    <3>1. /\ i + 1 \in DOMAIN q /\ j + 1 \in DOMAIN q /\ r[i] = q[i + 1] /\ r[j] = q[j + 1]
          /\ i + 1 < j + 1
      BY <1>1, <1>2, <1>4, <2>3
    <3> QED BY <1>1, <3>1 DEF Increasing
  <2> QED BY <1>4, <2>1, <2>2, <2>3
<1>6. ToSet(r) = P \ {p}
  <2>0. IsInjective(q)
    BY <1>1, InOrderIsOnce
  <2>1. ASSUME NEW i \in DOMAIN r PROVE r[i] \in P \ {p}
    <3>1. CASE i < k
      <4>1. i \in DOMAIN q /\ r[i] = q[i] /\ i # k /\ k \in DOMAIN q
        BY <1>1, <1>2, <1>3, <1>4, <3>1
      <4>2. q[i] # q[k]
        BY <2>0, <4>1 DEF IsInjective
      <4> QED BY <1>1, <4>1, <4>2 DEF ToSet
    <3>2. CASE i >= k
      <4>1. i + 1 \in DOMAIN q /\ r[i] = q[i + 1] /\ i + 1 # k /\ k \in DOMAIN q
        BY <1>1, <1>2, <1>3, <1>4, <3>2
      <4>2. q[i + 1] # q[k]
        BY <2>0, <4>1 DEF IsInjective
      <4> QED BY <1>1, <4>1, <4>2 DEF ToSet
    <3> QED BY <1>3, <1>4, <3>1, <3>2
  <2>2. ASSUME NEW j \in DOMAIN q, q[j] # p PROVE \E i \in DOMAIN r : r[i] = q[j]
    <3>1. CASE j < k
      <4>1. j \in DOMAIN r /\ r[j] = q[j]
        BY <1>1, <1>2, <1>3, <1>4, <3>1
      <4> QED BY <4>1
    <3>2. CASE j > k
      <4>1. j - 1 \in DOMAIN r /\ r[j - 1] = q[j]
        BY <1>1, <1>2, <1>3, <1>4, <3>2
      <4> QED BY <4>1
    <3>3. j # k
      BY <2>2
    <3> QED BY <1>1, <1>4, <3>1, <3>2, <3>3
  <2>3. \A x \in P \ {p} : \E i \in DOMAIN r : r[i] = x
    BY <1>1, <2>2 DEF ToSet
  <2> QED BY <2>1, <2>3 DEF ToSet
<1> QED BY <1>2, <1>5, <1>6 DEF P
==============================================================================
