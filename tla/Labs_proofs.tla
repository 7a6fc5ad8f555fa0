------------------------------ MODULE Labs_proofs ------------------------------
(***************************************************************************)
(* The sorted lists of lab6.c, for any data, modulus and number of calls,  *)
(* and the word counter of lab8.c, for any words and number of threads.    *)
(***************************************************************************)
EXTENDS SortedList, WordCount, SequenceTheorems, FiniteSetTheorems, TLAPS

-----------------------------------------------------------------------------
(* Induction, for a set of numbers: a set that has 0 and with each number  *)
(* the next has them all, since otherwise adding 1 would be an injection   *)
(* of the part below a missing m into itself without 0.                    *)
LEMMA SetInduction ==
  ASSUME NEW S, 0 \in S, \A n \in Nat : n \in S => n + 1 \in S, NEW m \in Nat
  PROVE  m \in S
<1> SUFFICES ASSUME m \notin S PROVE FALSE
    OBVIOUS
<1> DEFINE F == S \cap (0..m)
           f == [n \in F |-> n + 1]
<1>1. IsFiniteSet(F)
      BY FS_Interval, FS_Subset, 0 \in Int, m \in Int
<1>2. f \in Injection(F, F \ {0})
      <2>1. \A n \in F : n + 1 \in F
            OBVIOUS
      <2>2. f \in [F -> F \ {0}]
            BY <2>1
      <2>3. IsInjective(f)
            BY DEF IsInjective
      <2> QED BY <2>2, <2>3 DEF Injection
<1>3. 0 \in F
      OBVIOUS
<1> HIDE DEF F, f
<1>4. IsFiniteSet(F \ {0}) /\ Cardinality(F \ {0}) = Cardinality(F) - 1 /\ Cardinality(F) \in Nat
      BY <1>1, <1>3, FS_RemoveElement, FS_CardinalityType
<1>5. Cardinality(F) <= Cardinality(F \ {0})
      BY <1>2, <1>4, FS_Injection
<1> QED BY <1>4, <1>5

(* Remainders.                                                             *)
LEMMA OneQuotient ==
  ASSUME NEW m \in Nat \ {0}, NEW q \in Nat, NEW r \in 0..(m - 1), NEW x \in Nat, x = m * q + r
  PROVE  x % m = r
<1> DEFINE p == x \div m
           s == x % m
<1>1. p \in Nat /\ s \in 0..(m - 1) /\ x = m * p + s
      OBVIOUS
<1> HIDE DEF p, s
<1>2. ASSUME NEW a \in Nat, NEW b \in Nat, a < b
      PROVE  m * a + m <= m * b /\ m * a \in Nat /\ m * b \in Nat
      <2>1. PICK e \in Nat : b = a + 1 + e
            BY <1>2, b - a - 1 \in Nat
      <2>2. m * b = m * a + m + m * e
            BY <2>1
      <2>3. m * a \in Nat /\ m * b \in Nat /\ m * e \in Nat
            OBVIOUS
      <2> QED BY <2>2, <2>3
<1>3. ~(p < q) /\ ~(q < p)
      <2>1. ASSUME p < q PROVE FALSE
            <3>1. m * p + m <= m * q /\ m * p \in Nat /\ m * q \in Nat
                  BY <1>1, <1>2, <2>1
            <3> QED BY <1>1, <3>1
      <2>2. ASSUME q < p PROVE FALSE
            <3>1. m * q + m <= m * p /\ m * p \in Nat /\ m * q \in Nat
                  BY <1>1, <1>2, <2>2
            <3> QED BY <1>1, <3>1
      <2> QED BY <2>1, <2>2
<1>4. p = q
      BY <1>1, <1>3
<1>5. m * q \in Nat
      OBVIOUS
<1>6. s = r
      BY <1>1, <1>4, <1>5
<1> QED BY <1>6 DEF s

LEMMA Remainder ==
  ASSUME NEW m \in Nat \ {0}, NEW x \in Nat, NEW y \in Nat
  PROVE  ((x % m) + y) % m = (x + y) % m
<1> DEFINE q == x \div m
           r == x % m
           u == (r + y) \div m
           v == (r + y) % m
<1>1. q \in Nat /\ r \in 0..(m - 1) /\ x = m * q + r
      OBVIOUS
<1>2. u \in Nat /\ v \in 0..(m - 1) /\ r + y = m * u + v
      BY <1>1
<1> HIDE DEF q, r, u, v
<1>3. x + y = m * (q + u) + v /\ q + u \in Nat
      BY <1>1, <1>2
<1>4. (x + y) % m = v
      <2> DEFINE z == q + u
      <2>1. x + y \in Nat /\ v \in 0..(m - 1) /\ z \in Nat /\ x + y = m * z + v
            BY <1>2, <1>3
      <2> DEFINE n == x + y
      <2> HIDE DEF z, n
      <2>2. n \in Nat /\ v \in 0..(m - 1) /\ z \in Nat /\ n = m * z + v
            BY <2>1 DEF n
      <2>3. n % m = v
            BY <2>2, OneQuotient
      <2> QED BY <2>3 DEF n
<1> QED BY <1>4 DEF v, r

Plus(x, y, m) == (x + y) % m

LEMMA AddInAnyOrder ==
  ASSUME NEW m \in Nat \ {0}, NEW a \in Nat, NEW b \in Nat, NEW d \in Nat
  PROVE  Plus(Plus(a, d, m), b, m) = Plus(Plus(a, b, m), d, m)
<1>1. (((a + d) % m) + b) % m = ((a + d) + b) % m
      BY Remainder, a + d \in Nat
<1>2. (((a + b) % m) + d) % m = ((a + b) + d) % m
      BY Remainder, a + b \in Nat
<1>3. (a + d) + b = (a + b) + d
      OBVIOUS
<1> QED BY <1>1, <1>2, <1>3 DEF Plus

-----------------------------------------------------------------------------
(* t is the sequence s with d put in at place k.                           *)
PutIn(s, k, d, t) ==
  /\ Len(t) = Len(s) + 1
  /\ \A j \in 1..Len(t) : t[j] = IF j < k THEN s[j] ELSE IF j = k THEN d ELSE s[j - 1]

LEMMA InsertAtIs ==
  ASSUME NEW X, NEW s \in Seq(X), NEW k \in 1..(Len(s) + 1), NEW d \in X
  PROVE  InsertAt(s, k, d) \in Seq(X) /\ PutIn(s, k, d, InsertAt(s, k, d))
<1> DEFINE u == SubSeq(s, 1, k - 1)
           v == SubSeq(s, k, Len(s))
           t == u \o <<d>> \o v
<1>1. Len(s) \in Nat /\ \A i \in 1..Len(s) : s[i] \in X
      BY LenProperties, ElementOfSeq
<1>2. u \in Seq(X) /\ Len(u) = k - 1 /\ \A i \in 1..(k - 1) : u[i] = s[i]
      <2>1. u = [i \in 1..(k - 1) |-> s[i]]
            BY <1>1 DEF u
      <2> QED BY <2>1, <1>1
<1>3. v \in Seq(X) /\ Len(v) = Len(s) + 1 - k /\ \A i \in 1..(Len(s) + 1 - k) : v[i] = s[i + k - 1]
      <2>1. v = [i \in 1..(Len(s) - k + 1) |-> s[i + k - 1]]
            BY <1>1 DEF v
      <2> DEFINE n == Len(s) + 1 - k
      <2>2. n \in Nat /\ Len(s) - k + 1 = n /\ \A i \in 1..n : s[i + k - 1] \in X
            BY <1>1
      <2> HIDE DEF n
      <2>3. v = [i \in 1..n |-> s[i + k - 1]]
            BY <2>1, <2>2
      <2> HIDE DEF v
      <2> QED BY <2>2, <2>3 DEF n
<1> HIDE DEF u, v
<1>4. /\ t \in Seq(X) /\ Len(t) = Len(s) + 1
      /\ \A j \in 1..Len(t) : t[j] = IF j < k THEN u[j] ELSE IF j = k THEN d ELSE v[j - k]
      <2> DEFINE w == u \o <<d>>
      <2>1. w \in Seq(X) /\ Len(w) = k /\ \A j \in 1..k : w[j] = IF j < k THEN u[j] ELSE d
            BY <1>1, <1>2
      <2> HIDE DEF w
      <2>2. w \o v \in Seq(X) /\ Len(w \o v) = Len(s) + 1
            <3>1. w \o v \in Seq(X) /\ Len(w \o v) = Len(w) + Len(v)
                  BY <1>3, <2>1, ConcatProperties
            <3> QED BY <3>1, <1>1, <1>3, <2>1
      <2>3. \A j \in 1..(Len(s) + 1) : (w \o v)[j] = IF j <= k THEN w[j] ELSE v[j - k]
            BY <1>1, <1>3, <2>1
      <2> QED BY <2>1, <2>2, <2>3 DEF w
<1>5. \A j \in 1..Len(t) : ~(j < k) /\ j # k =>
        j - k \in 1..(Len(s) + 1 - k) /\ (j - k) + k - 1 = j - 1
      BY <1>1, <1>4
<1>6. PutIn(s, k, d, t)
      <2> SUFFICES ASSUME NEW j \in 1..Len(t)
                   PROVE  t[j] = IF j < k THEN s[j] ELSE IF j = k THEN d ELSE s[j - 1]
          BY <1>4 DEF PutIn
      <2>1. CASE j < k
            BY <2>1, <1>2, <1>4, <1>1
      <2>2. CASE j = k
            BY <2>2, <1>4
      <2>3. CASE ~(j < k) /\ j # k
            BY <2>3, <1>3, <1>4, <1>5
      <2> QED BY <2>1, <2>2, <2>3
<1> QED BY <1>4, <1>6 DEF InsertAt, t, u, v

LEMMA AppendIs ==
  ASSUME NEW X, NEW s \in Seq(X), NEW d \in X
  PROVE  Append(s, d) \in Seq(X) /\ PutIn(s, Len(s) + 1, d, Append(s, d))
BY AppendProperties, LenProperties DEF PutIn

LEMMA InFrontIs ==
  ASSUME NEW X, NEW s \in Seq(X), NEW d \in X
  PROVE  <<d>> \o s \in Seq(X) /\ PutIn(s, 1, d, <<d>> \o s)
<1>1. Len(s) \in Nat /\ Len(<<d>>) = 1 /\ <<d>> \in Seq(X) /\ <<d>>[1] = d
      BY LenProperties
<1>2. <<d>> \o s \in Seq(X) /\ Len(<<d>> \o s) = Len(s) + 1
      BY <1>1
<1>3. \A j \in 1..(Len(s) + 1) : (<<d>> \o s)[j] = IF j = 1 THEN d ELSE s[j - 1]
      BY <1>1
<1> QED BY <1>1, <1>2, <1>3 DEF PutIn

(* The rest of the sequence is what it was, each element at its new place. *)
LEMMA PlacesOf ==
  ASSUME NEW X, NEW s \in Seq(X), NEW t \in Seq(X), NEW k \in 1..(Len(s) + 1), NEW d \in X,
         PutIn(s, k, d, t), NEW x
  PROVE  /\ NumberIn(s, x) \in Nat /\ NumberIn(t, x) \in Nat
         /\ NumberIn(t, x) = NumberIn(s, x) + (IF x = d THEN 1 ELSE 0)
<1> DEFINE S == {j \in 1..Len(s) : s[j] = x}
           T == {j \in 1..Len(t) : t[j] = x}
           f == [j \in S |-> IF j < k THEN j ELSE j + 1]
<1>1. /\ Len(s) \in Nat /\ Len(t) = Len(s) + 1
      /\ \A j \in 1..(Len(s) + 1) : t[j] = IF j < k THEN s[j] ELSE IF j = k THEN d ELSE s[j - 1]
      BY LenProperties DEF PutIn
<1>2. IsFiniteSet(S) /\ IsFiniteSet(T)
      <2>1. IsFiniteSet(1..Len(s)) /\ IsFiniteSet(1..Len(t))
            BY <1>1, FS_Interval
      <2> QED BY <2>1, FS_Subset
<1>3. f \in Bijection(S, T \ {k})
      <2>1. f \in [S -> T \ {k}]
            BY <1>1
      <2>2. IsInjective(f)
            BY DEF IsInjective
      <2>3. \A j \in T \ {k} : \E i \in S : f[i] = j
            <3> SUFFICES ASSUME NEW j \in T \ {k} PROVE \E i \in S : f[i] = j
                OBVIOUS
            <3>1. CASE j < k
                  <4>1. j \in 1..Len(s) /\ t[j] = s[j] /\ t[j] = x
                        BY <3>1, <1>1
                  <4>2. j \in S /\ f[j] = j
                        BY <3>1, <4>1
                  <4> QED BY <4>2
            <3>2. CASE k < j
                  <4>1. j - 1 \in S /\ ~(j - 1 < k)
                        BY <3>2, <1>1
                  <4>2. f[j - 1] = j
                        BY <4>1, <1>1
                  <4> QED BY <4>1, <4>2
            <3> QED BY <3>1, <3>2, <1>1
      <2> QED BY <2>1, <2>2, <2>3 DEF Bijection, Injection, Surjection
<1> HIDE DEF f
<1>4. ExistsBijection(S, T \ {k})
      BY <1>3 DEF ExistsBijection
<1>5. Cardinality(T \ {k}) = Cardinality(S) /\ Cardinality(S) \in Nat /\ Cardinality(T) \in Nat
      BY <1>2, <1>4, FS_Bijection, FS_CardinalityType
<1>6. Cardinality(T \ {k}) = IF k \in T THEN Cardinality(T) - 1 ELSE Cardinality(T)
      BY <1>2, FS_RemoveElement
<1>7. k \in T <=> x = d
      BY <1>1
<1> HIDE DEF S, T
<1>8. Cardinality(T) = Cardinality(S) + (IF x = d THEN 1 ELSE 0)
      BY <1>5, <1>6, <1>7
<1> QED BY <1>5, <1>8 DEF S, T, NumberIn

-----------------------------------------------------------------------------
(* The sum: p[k] is that of the first k elements.                          *)
UpTo(s, n, p) ==
  /\ p \in [0..n -> 0..(Modulus - 1)] /\ p[0] = 0
  /\ \A k \in 1..n : p[k] = (p[k - 1] + s[k]) % Modulus

Partial(s, p) == UpTo(s, Len(s), p)

SumTo(s, g) == g = [k \in 0..Len(s) |-> IF k = 0 THEN 0 ELSE (g[k - 1] + s[k]) % Modulus]

LEMMA Rest == ASSUME NEW x \in Nat PROVE x % Modulus \in 0..(Modulus - 1)
BY SortedListAssumption

(* What is defined by SumTo is there, and there is one.                    *)
LEMMA PartialIs ==
  ASSUME NEW s \in Seq(Nat)
  PROVE  \E p : Partial(s, p)
<1> DEFINE S == {n \in Nat : n <= Len(s) => \E p : UpTo(s, n, p)}
<1>1. Len(s) \in Nat /\ \A k \in 1..Len(s) : s[k] \in Nat
      BY LenProperties, ElementOfSeq
<1>2. 0 \in S
      <2> DEFINE p == [k \in 0..0 |-> 0]
      <2>1. p \in [0..0 -> 0..(Modulus - 1)] /\ p[0] = 0 /\ 1..0 = {}
            BY SortedListAssumption
      <2> QED BY <2>1 DEF UpTo
<1>3. ASSUME NEW n \in Nat, n \in S PROVE n + 1 \in S
      <2> SUFFICES ASSUME n + 1 <= Len(s)
                   PROVE  \E p : UpTo(s, n + 1, p)
          OBVIOUS
      <2>0. PICK p : UpTo(s, n, p)
            BY <1>1, <1>3
      <2>1. /\ p \in [0..n -> 0..(Modulus - 1)] /\ p[0] = 0
            /\ \A k \in 1..n : p[k] = (p[k - 1] + s[k]) % Modulus
            BY <2>0 DEF UpTo
      <2> DEFINE last == (p[n] + s[n + 1]) % Modulus
                 f == [k \in 0..(n + 1) |-> IF k = n + 1 THEN last ELSE p[k]]
      <2>2. last \in 0..(Modulus - 1)
            <3>1. p[n] \in 0..(Modulus - 1) /\ s[n + 1] \in Nat
                  BY <1>1, <2>1
            <3>2. p[n] + s[n + 1] \in Nat
                  BY <3>1, SortedListAssumption
            <3> QED BY <3>2, Rest
      <2>3. /\ f \in [0..(n + 1) -> 0..(Modulus - 1)]
            /\ f[n + 1] = last /\ \A k \in 0..n : f[k] = p[k]
            BY <2>1, <2>2
      <2> HIDE DEF f
      <2>4. ASSUME NEW k \in 1..(n + 1) PROVE f[k] = (f[k - 1] + s[k]) % Modulus
            <3>1. CASE k = n + 1
                  BY <2>3, <3>1
            <3>2. CASE k \in 1..n
                  <4>1. k - 1 \in 0..n /\ k \in 0..n
                        BY <3>2
                  <4> QED BY <2>1, <2>3, <3>2, <4>1
            <3> QED BY <3>1, <3>2
      <2>5. f[0] = 0
            BY <2>1, <2>3
      <2>6. UpTo(s, n + 1, f)
            BY <2>3, <2>4, <2>5 DEF UpTo
      <2> QED BY <2>6
<1> HIDE DEF S
<1>4. Len(s) \in S
      BY <1>1, <1>2, <1>3, SetInduction
<1> QED BY <1>1, <1>4 DEF S, Partial

LEMMA SumIs ==
  ASSUME nodes \in Seq(Nat), NEW p, Partial(nodes, p)
  PROVE  sum_list = p[Len(nodes)]
<1> DEFINE L == Len(nodes)
           g == CHOOSE h : SumTo(nodes, h)
<1>1. L \in Nat /\ \A k \in 1..L : nodes[k] \in Nat
      BY LenProperties, ElementOfSeq
<1>2. SumTo(nodes, p)
      BY DEF SumTo, Partial, UpTo
<1>3. SumTo(nodes, g)
      BY <1>2
<1>4. sum_list = g[L]
      BY DEF sum_list, SumTo
<1> HIDE DEF g
<1> DEFINE R == {n \in Nat : n <= L => g[n] = p[n]}
<1>5. 0 \in R
      <2>1. 0 \in 0..L
            BY <1>1
      <2> QED BY <1>3, <2>1 DEF SumTo, Partial, UpTo
<1>6. ASSUME NEW n \in Nat, n \in R PROVE n + 1 \in R
      <2> SUFFICES ASSUME n + 1 <= L PROVE g[n + 1] = p[n + 1]
          OBVIOUS
      <2>1. n + 1 \in 1..L /\ n + 1 \in 0..L /\ (n + 1) - 1 = n /\ n + 1 # 0
            BY <1>1
      <2>2. g[n] = p[n]
            BY <1>1, <1>6
      <2>3. g[n + 1] = (g[n] + nodes[n + 1]) % Modulus
            BY <1>3, <2>1 DEF SumTo
      <2>4. p[n + 1] = (p[n] + nodes[n + 1]) % Modulus
            BY <2>1 DEF Partial, UpTo
      <2> QED BY <2>2, <2>3, <2>4
<1>7. L \in R
      <2> HIDE DEF R
      <2> QED BY <1>1, <1>5, <1>6, SetInduction
<1> QED BY <1>1, <1>4, <1>7

(* Where an element is put in does not matter to the sum.                  *)
LEMMA PartialPutIn ==
  ASSUME NEW s \in Seq(Nat), NEW t \in Seq(Nat), NEW k \in 1..(Len(s) + 1), NEW d \in Nat,
         PutIn(s, k, d, t), NEW p, Partial(s, p)
  PROVE  \E q : Partial(t, q) /\ q[Len(t)] = (p[Len(s)] + d) % Modulus
<1> DEFINE q == [j \in 0..Len(t) |-> IF j < k THEN p[j] ELSE (p[j - 1] + d) % Modulus]
<1>1. /\ Len(s) \in Nat /\ Len(t) = Len(s) + 1
      /\ \A j \in 1..Len(s) : s[j] \in Nat
      BY LenProperties, ElementOfSeq DEF PutIn
<1>0. \A j \in 0..Len(s) : p[j] \in Nat
      <2>1. \A j \in 0..Len(s) : p[j] \in 0..(Modulus - 1)
            BY DEF Partial, UpTo
      <2> QED BY <2>1, SortedListAssumption
<1>2. \A j \in 0..Len(t) : q[j] \in 0..(Modulus - 1)
      <2> SUFFICES ASSUME NEW j \in 0..Len(t) PROVE q[j] \in 0..(Modulus - 1)
          OBVIOUS
      <2>1. CASE j < k
            <3>1. j \in 0..Len(s)
                  BY <1>1, <2>1
            <3> QED BY <2>1, <3>1 DEF Partial, UpTo
      <2>2. CASE ~(j < k)
            <3>1. j - 1 \in 0..Len(s)
                  BY <1>1, <2>2
            <3>2. p[j - 1] \in Nat
                  BY <1>0, <3>1
            <3>3. p[j - 1] + d \in Nat
                  BY <3>2
            <3> QED BY <2>2, <3>3, Rest
      <2> QED BY <2>1, <2>2
<1>3. q[0] = 0
      BY <1>1 DEF Partial, UpTo
<1>4. ASSUME NEW j \in 1..Len(t) PROVE q[j] = (q[j - 1] + t[j]) % Modulus
      <2>1. j - 1 \in 0..Len(t) /\ j \in 0..Len(t)
            BY <1>1
      <2>2. CASE j < k
            <3>1. j \in 1..Len(s) /\ j - 1 < k /\ t[j] = s[j]
                  BY <1>1, <2>2 DEF PutIn
            <3>2. p[j] = (p[j - 1] + s[j]) % Modulus
                  BY <3>1 DEF Partial, UpTo
            <3> QED BY <2>1, <2>2, <3>1, <3>2
      <2>3. CASE j = k
            <3>1. j - 1 < k /\ t[j] = d
                  BY <1>1, <2>3 DEF PutIn
            <3> QED BY <2>1, <2>3, <3>1
      <2>4. CASE k < j
            <3>1. /\ j - 1 \in 1..Len(s) /\ ~(j < k) /\ ~(j - 1 < k) /\ t[j] = s[j - 1]
                  /\ (j - 1) - 1 \in 0..Len(s)
                  BY <1>1, <2>4 DEF PutIn
            <3> DEFINE a == p[(j - 1) - 1]
                       b == s[j - 1]
            <3>2. p[j - 1] = (a + b) % Modulus
                  BY <3>1 DEF Partial, UpTo
            <3>3. q[j] = (((a + b) % Modulus) + d) % Modulus
                  BY <2>1, <3>1, <3>2
            <3>4. q[j - 1] = (a + d) % Modulus
                  BY <2>1, <3>1
            <3>5. a \in Nat /\ b \in Nat
                  BY <1>0, <1>1, <3>1
            <3>6. ((((a + d) % Modulus) + b) % Modulus) = ((((a + b) % Modulus) + d) % Modulus)
                  <4> DEFINE m == Modulus
                  <4>1. m \in Nat \ {0} /\ d \in Nat
                        BY SortedListAssumption
                  <4> HIDE DEF a, b, m
                  <4>2. Plus(Plus(a, d, m), b, m) = Plus(Plus(a, b, m), d, m)
                        BY <3>5, <4>1, AddInAnyOrder
                  <4> QED BY <4>2 DEF m, Plus
            <3> QED BY <3>1, <3>3, <3>4, <3>6
      <2> QED BY <2>2, <2>3, <2>4, <1>1
<1>5. q[Len(t)] = (p[Len(s)] + d) % Modulus
      BY <1>1
<1>6. q \in [0..Len(t) -> 0..(Modulus - 1)]
      BY <1>2
<1> HIDE DEF q
<1> QED BY <1>3, <1>4, <1>5, <1>6 DEF Partial, UpTo

-----------------------------------------------------------------------------
(* The lists.                                                              *)

(* Everything inserted is in the list and nothing else, and sum is kept.   *)
Exact ==
  /\ Len(nodes) = Len(inserted)
  /\ \A d \in Data : NumberIn(nodes, d) = NumberIn(inserted, d)
  /\ \E p : Partial(nodes, p) /\ sum = p[Len(nodes)]

Crashed ==
  /\ Len(inserted) > 1
  /\ inserted[Len(inserted)] \in {inserted[k] : k \in 1..(Len(inserted) - 1)}
  /\ \A k \in 1..Len(inserted) : inserted[Len(inserted)] <= inserted[k]

ListInv ==
  /\ nodes \in Seq(Data) /\ inserted \in Seq(Data)
  /\ Sorted
  /\ IF state = "crashed" THEN Crashed ELSE Exact

LEMMA InitListInv == ListInit => ListInv
<1> SUFFICES ASSUME ListInit PROVE ListInv
    OBVIOUS
<1>1. nodes = <<>> /\ inserted = <<>> /\ sum = 0 /\ state = "up"
      BY DEF ListInit
<1>2. \E p : Partial(<<>>, p) /\ 0 = p[Len(<<>>)]
      <2>0. <<>> \in Seq(Nat)
            OBVIOUS
      <2>1. PICK p : Partial(<<>>, p)
            BY <2>0, PartialIs
      <2> QED BY <2>1 DEF Partial, UpTo
<1>3. Exact
      BY <1>1, <1>2 DEF Exact
<1> QED BY <1>1, <1>3 DEF ListInv, Sorted

LEMMA DataSeq ==
  ASSUME NEW s \in Seq(Data)
  PROVE  /\ s \in Seq(Nat) /\ Len(s) \in Nat
         /\ \A k \in 1..Len(s) : s[k] \in Data /\ s[k] \in Nat
<1>1. Data \subseteq Nat
      BY SortedListAssumption
<1>2. Len(s) \in Nat /\ s \in [1..Len(s) -> Data]
      BY LenProperties
<1>3. s \in [1..Len(s) -> Nat]
      BY <1>1, <1>2
<1>4. s \in Seq(Nat)
      BY <1>2, <1>3, SeqDef
<1> QED BY <1>2, <1>3, <1>4

LEMMA ListTypes ==
  ASSUME ListInv
  PROVE  /\ nodes \in Seq(Nat) /\ inserted \in Seq(Nat)
         /\ Len(nodes) \in Nat /\ Len(inserted) \in Nat
         /\ \A k \in 1..Len(nodes) : nodes[k] \in Data /\ nodes[k] \in Nat
         /\ \A k \in 1..Len(inserted) : inserted[k] \in Data /\ inserted[k] \in Nat
BY DataSeq DEF ListInv

(* What is inserted somewhere is in the list, and the other way round.     *)
LEMMA SomeThere ==
  ASSUME NEW s \in Seq(Data), NEW d
  PROVE  NumberIn(s, d) # 0 <=> \E k \in 1..Len(s) : s[k] = d
<1> DEFINE S == {k \in 1..Len(s) : s[k] = d}
<1>1. IsFiniteSet(S)
      <2>1. IsFiniteSet(1..Len(s))
            BY LenProperties, FS_Interval
      <2> QED BY <2>1, FS_Subset
<1>2. Cardinality(S) = 0 <=> S = {}
      BY <1>1, FS_EmptySet
<1>3. NumberIn(s, d) = Cardinality(S)
      BY DEF NumberIn
<1> HIDE DEF S
<1>4. S # {} <=> \E k \in 1..Len(s) : s[k] = d
      BY DEF S
<1> QED BY <1>2, <1>3, <1>4

LEMMA SameData ==
  ASSUME ListInv, Exact, NEW d \in Data
  PROVE  (\E k \in 1..Len(nodes) : nodes[k] = d) <=> (\E k \in 1..Len(inserted) : inserted[k] = d)
<1>1. NumberIn(nodes, d) = NumberIn(inserted, d)
      BY DEF Exact
<1>2. nodes \in Seq(Data) /\ inserted \in Seq(Data)
      BY DEF ListInv
<1> QED BY <1>1, <1>2, SomeThere

LEMMA OneMore ==
  ASSUME NEW s \in Seq(Data), NEW d \in Data, NEW x
  PROVE  NumberIn(Append(s, d), x) = NumberIn(s, x) + (IF x = d THEN 1 ELSE 0)
<1> DEFINE k == Len(s) + 1
           t == Append(s, d)
<1>1. t \in Seq(Data) /\ PutIn(s, k, d, t) /\ k \in 1..(Len(s) + 1)
      BY AppendIs, LenProperties
<1> HIDE DEF k, t
<1>2. NumberIn(t, x) = NumberIn(s, x) + (IF x = d THEN 1 ELSE 0)
      BY <1>1, PlacesOf
<1> QED BY <1>2 DEF t

(* An insertion in front of the first node that is not below the datum.    *)
LEMMA PutInKeeps ==
  ASSUME ListInv, Exact, state' = "up", NEW data \in Data, NEW k \in 1..(Len(nodes) + 1),
         nodes' \in Seq(Data), PutIn(nodes, k, data, nodes'),
         \A j \in 1..(k - 1) : nodes[j] <= data, k <= Len(nodes) => data <= nodes[k],
         inserted' = Append(inserted, data), sum' = (sum + data) % Modulus
  PROVE  ListInv'
<1>1. /\ nodes \in Seq(Nat) /\ nodes' \in Seq(Nat) /\ data \in Nat /\ Len(nodes) \in Nat
      /\ \A j \in 1..Len(nodes) : nodes[j] \in Nat
      /\ inserted \in Seq(Data)
      BY ListTypes, DataSeq, SortedListAssumption DEF ListInv
<1>2. inserted' \in Seq(Data) /\ PutIn(inserted, Len(inserted) + 1, data, inserted')
      BY <1>1, AppendIs
<1>3. Sorted'
      <2>1. \A i, j \in 1..Len(nodes) : i <= j => nodes[i] <= nodes[j]
            BY DEF ListInv, Sorted
      <2>2. Len(nodes') = Len(nodes) + 1
            BY DEF PutIn
      <2>3. \A j \in 1..Len(nodes') :
              nodes'[j] = IF j < k THEN nodes[j] ELSE IF j = k THEN data ELSE nodes[j - 1]
            BY DEF PutIn
      <2>4. \A j \in 1..Len(nodes) : j >= k => data <= nodes[j]
            BY <1>1, <2>1
      <2> SUFFICES ASSUME NEW i \in 1..Len(nodes'), NEW j \in 1..Len(nodes'), i <= j
                   PROVE  nodes'[i] <= nodes'[j]
          BY DEF Sorted
      <2>5. CASE j < k
            <3>1. i \in 1..Len(nodes) /\ j \in 1..Len(nodes) /\ i < k
                  <4>1. /\ Len(nodes) \in Nat /\ k <= Len(nodes) + 1 /\ i \in Int /\ j \in Int
                        /\ 1 <= i /\ 1 <= j
                        BY <1>1
                  <4> QED BY <2>5, <4>1
            <3> QED BY <2>1, <2>3, <2>5, <3>1
      <2>6. CASE j = k
            <3>1. i < k => i \in 1..(k - 1)
                  BY <1>1, <2>6
            <3>2. nodes'[j] = data
                  BY <2>3, <2>6
            <3>3. CASE i < k
                  BY <2>3, <3>1, <3>2, <3>3
            <3>4. CASE i = k
                  BY <1>1, <2>6, <3>2, <3>4
            <3> QED BY <2>6, <3>3, <3>4, i \in Int, j \in Int
      <2>7. CASE k < j
            <3>1. j - 1 \in 1..Len(nodes) /\ nodes'[j] = nodes[j - 1]
                  BY <1>1, <2>2, <2>3, <2>7
            <3>2. CASE i < k
                  <4>1. i \in 1..Len(nodes) /\ i <= j - 1 /\ nodes'[i] = nodes[i]
                        BY <1>1, <2>3, <2>7, <3>2
                  <4> QED BY <2>1, <3>1, <4>1
            <3>3. CASE i = k
                  <4>1. nodes'[i] = data
                        BY <2>3, <3>3
                  <4>2. j - 1 >= k
                        BY <2>7
                  <4>3. data <= nodes[j - 1]
                        BY <2>4, <3>1, <4>2
                  <4> QED BY <3>1, <4>1, <4>3
            <3>4. CASE k < i
                  <4>1. i - 1 \in 1..Len(nodes) /\ nodes'[i] = nodes[i - 1] /\ i - 1 <= j - 1
                        BY <1>1, <2>2, <2>3, <3>4
                  <4> QED BY <2>1, <3>1, <4>1
            <3> QED BY <3>2, <3>3, <3>4
      <2> QED BY <2>5, <2>6, <2>7
<1>4. Len(nodes') = Len(inserted')
      BY <1>2 DEF PutIn, Exact
<1>5. ASSUME NEW d \in Data PROVE NumberIn(nodes', d) = NumberIn(inserted', d)
      <2>1. NumberIn(nodes', d) = NumberIn(nodes, d) + (IF d = data THEN 1 ELSE 0)
            BY PlacesOf DEF ListInv
      <2>2. NumberIn(inserted', d) = NumberIn(inserted, d) + (IF d = data THEN 1 ELSE 0)
            BY <1>1, OneMore
      <2> QED BY <2>1, <2>2 DEF Exact
<1>6. \E p : Partial(nodes', p) /\ sum' = p[Len(nodes')]
      <2>1. PICK p : Partial(nodes, p) /\ sum = p[Len(nodes)]
            BY DEF Exact
      <2>2. PICK q : Partial(nodes', q) /\ q[Len(nodes')] = (p[Len(nodes)] + data) % Modulus
            BY <1>1, <2>1, PartialPutIn
      <2> QED BY <2>1, <2>2
<1>7. Exact'
      BY <1>4, <1>5, <1>6 DEF Exact
<1> QED BY <1>2, <1>3, <1>7 DEF ListInv

(* insert_sorted(): in front, behind prev, or without one.                 *)
LEMMA InsertKeeps ==
  ASSUME ListInv, NEW data \in Data, insert_sorted(data)
  PROVE  ListInv'
<1>1. state = "up" /\ inserted' = Append(inserted, data)
      BY DEF insert_sorted
<1>2. Exact
      BY <1>1 DEF ListInv
<1>3. /\ nodes \in Seq(Data) /\ inserted \in Seq(Data) /\ Len(nodes) \in Nat /\ data \in Nat
      /\ \A j \in 1..Len(nodes) : nodes[j] \in Nat
      BY ListTypes, SortedListAssumption DEF ListInv
<1>4. \A j \in 1..Len(nodes) : nodes[1] <= nodes[j]
      BY <1>3 DEF ListInv, Sorted
<1>5. CASE /\ InFront(data) /\ nodes' = <<data>> \o nodes
           /\ sum' = (sum + data) % Modulus /\ UNCHANGED state
      <2>1. nodes' \in Seq(Data) /\ PutIn(nodes, 1, data, nodes')
            BY <1>3, <1>5, InFrontIs
      <2>2. 1 <= Len(nodes) => data <= nodes[1]
            BY <1>3, <1>5 DEF InFront
      <2> QED BY <1>1, <1>2, <1>3, <1>5, <2>1, <2>2, PutInKeeps
<1>6. ASSUME NEW k \in 1..(Len(nodes) + 1), IsCurr(k, data), nodes' = InsertAt(nodes, k, data),
             sum' = (sum + data) % Modulus, UNCHANGED state
      PROVE  ListInv'
      <2>1. nodes' \in Seq(Data) /\ PutIn(nodes, k, data, nodes')
            BY <1>3, <1>6, InsertAtIs
      <2>2. k <= Len(nodes) => data <= nodes[k]
            BY <1>3, <1>6 DEF IsCurr, AtOrPast
      <2>3. \A j \in 1..(k - 1) : nodes[j] <= data
            BY <1>3, <1>6 DEF IsCurr, AtOrPast
      <2> QED BY <1>1, <1>2, <1>6, <2>1, <2>2, <2>3, PutInKeeps
<1>7. ASSUME ~InFront(data), IsCurr(1, data), state' = "crashed", UNCHANGED <<nodes, sum>>
      PROVE  ListInv'
      <2>1. Len(nodes) >= 1 /\ nodes[1] <= data
            BY <1>3, <1>7 DEF InFront
      <2>2. data <= nodes[1]
            BY <1>3, <1>7, <2>1 DEF IsCurr, AtOrPast
      <2>3. nodes[1] = data
            BY <1>3, <2>1, <2>2
      <2>4. PICK i \in 1..Len(inserted) : inserted[i] = data
            BY <1>2, <1>3, <2>1, <2>3, SameData
      <2>5. \A j \in 1..Len(inserted) : data <= inserted[j]
            <3> SUFFICES ASSUME NEW j \in 1..Len(inserted) PROVE data <= inserted[j]
                OBVIOUS
            <3>1. inserted[j] \in Data
                  BY ListTypes
            <3>2. PICK m \in 1..Len(nodes) : nodes[m] = inserted[j]
                  BY <1>2, <3>1, SameData
            <3> QED BY <1>4, <2>3, <3>2
      <2>6. /\ Len(inserted') = Len(inserted) + 1 /\ inserted'[Len(inserted) + 1] = data
            /\ inserted' \in Seq(Data) /\ Len(inserted) \in Nat
            /\ \A j \in 1..Len(inserted) : inserted'[j] = inserted[j]
            BY <1>1, <1>3, AppendProperties, LenProperties
      <2>7. Crashed'
            <3>1. inserted'[Len(inserted')] = data /\ Len(inserted') - 1 = Len(inserted)
                  BY <2>6
            <3>2. data \in {inserted'[j] : j \in 1..Len(inserted)}
                  BY <2>4, <2>6
            <3>3. \A j \in 1..Len(inserted') : data <= inserted'[j]
                  BY <1>3, <2>5, <2>6
            <3>4. Len(inserted') > 1
                  BY <2>4, <2>6
            <3> QED BY <3>1, <3>2, <3>3, <3>4 DEF Crashed
      <2>8. Sorted'
            BY <1>7 DEF ListInv, Sorted
      <2> QED BY <1>3, <1>7, <2>6, <2>7, <2>8 DEF ListInv
<1> QED BY <1>5, <1>6, <1>7 DEF insert_sorted

LEMMA StepListInv == ListInv /\ [ListNext]_listVars => ListInv'
<1> SUFFICES ASSUME ListInv, [ListNext]_listVars PROVE ListInv'
    OBVIOUS
<1>1. ASSUME NEW data \in Data, insert_sorted(data) PROVE ListInv'
      BY <1>1, InsertKeeps
<1>2. CASE UNCHANGED <<nodes, sum, inserted>> /\ (state' = "crashed" <=> state = "crashed")
      BY <1>2 DEF ListInv, Sorted, Crashed, Exact
<1>3. CASE MallocFails
      BY <1>2, <1>3 DEF MallocFails
<1>4. CASE UNCHANGED listVars
      BY <1>2, <1>4 DEF listVars
<1> QED BY <1>1, <1>3, <1>4 DEF ListNext

(* The tests of both main(): where the data are all different, so many of  *)
(* them are below a datum as its index says.                               *)
LEMMA IndexIs ==
  ASSUME nodes \in Seq(Nat), NEW d, NEW k \in 1..Len(nodes),
         \A j \in 1..Len(nodes) : nodes[j] = d <=> j = k
  PROVE  index_of(d) = k - 1
<1> DEFINE At == {j \in 1..Len(nodes) : nodes[j] = d}
<1>1. At = {k}
      OBVIOUS
<1>2. index_of(d) = IF At = {} THEN -1 ELSE (CHOOSE j \in At : \A i \in At : j <= i) - 1
      BY DEF index_of
<1> HIDE DEF At
<1>3. (CHOOSE j \in At : \A i \in At : j <= i) = k
      BY <1>1
<1> QED BY <1>1, <1>2, <1>3

LEMMA TestsSucceed == ListInv /\ Exact => MainTests
<1> SUFFICES ASSUME ListInv, Exact PROVE MainTests
    OBVIOUS
<1>1. /\ nodes \in Seq(Nat) /\ Len(nodes) \in Nat /\ Len(nodes) = Len(inserted)
      /\ \A k \in 1..Len(nodes) : nodes[k] \in Nat
      /\ \A j, k \in 1..Len(nodes) : j <= k => nodes[j] <= nodes[k]
      BY ListTypes DEF ListInv, Sorted, Exact
<1>2. ASSUME NEW k \in 1..Len(inserted) PROVE \E j \in 1..Len(nodes) : nodes[j] = inserted[k]
      BY <1>2, ListTypes, SameData
<1>3. ASSUME NEW j \in 1..Len(nodes), NEW k \in 1..Len(nodes), nodes[j] < nodes[k] PROVE j < k
      BY <1>1, <1>3
<1>4. ASSUME inserted = <<1, 2, 5, 3>> PROVE index_of(3) = 2
      <2>1. Len(nodes) = 4
            BY <1>1, <1>4
      <2>2. PICK a \in 1..4 : nodes[a] = 1
            BY <1>2, <1>4, <2>1
      <2>3. PICK b \in 1..4 : nodes[b] = 2
            BY <1>2, <1>4, <2>1
      <2>4. PICK e \in 1..4 : nodes[e] = 5
            BY <1>2, <1>4, <2>1
      <2>5. \E c \in 1..4 : nodes[c] = 3
            BY <1>2, <1>4, <2>1
      <2>6. ASSUME NEW c \in 1..4, nodes[c] = 3 PROVE c = 3
            <3>1. a < b /\ b < c /\ c < e
                  BY <1>3, <2>1, <2>2, <2>3, <2>4, <2>6
            <3> QED BY <3>1
      <2>7. \A j \in 1..Len(nodes) : nodes[j] = 3 <=> j = 3
            BY <2>1, <2>5, <2>6
      <2> QED BY <1>1, <2>1, <2>7, IndexIs
<1>5. ASSUME inserted = <<1, 2, 5, 3, 0, 4>> PROVE index_of(4) = 4
      <2>1. Len(nodes) = 6
            BY <1>1, <1>5
      <2>2. PICK z \in 1..6 : nodes[z] = 0
            BY <1>2, <1>5, <2>1
      <2>3. PICK a \in 1..6 : nodes[a] = 1
            BY <1>2, <1>5, <2>1
      <2>4. PICK b \in 1..6 : nodes[b] = 2
            BY <1>2, <1>5, <2>1
      <2>5. PICK c \in 1..6 : nodes[c] = 3
            BY <1>2, <1>5, <2>1
      <2>6. PICK e \in 1..6 : nodes[e] = 5
            BY <1>2, <1>5, <2>1
      <2>7. \E d \in 1..6 : nodes[d] = 4
            BY <1>2, <1>5, <2>1
      <2>8. ASSUME NEW d \in 1..6, nodes[d] = 4 PROVE d = 5
            <3>1. z < a /\ a < b /\ b < c /\ c < d /\ d < e
                  BY <1>3, <2>1, <2>2, <2>3, <2>4, <2>5, <2>6, <2>8
            <3> QED BY <3>1
      <2>9. \A j \in 1..Len(nodes) : nodes[j] = 4 <=> j = 5
            BY <2>1, <2>7, <2>8
      <2> QED BY <1>1, <2>1, <2>9, IndexIs
<1>6. ASSUME inserted = <<1, 3, 5, 2>> PROVE index_of(2) = 1
      <2>1. Len(nodes) = 4
            BY <1>1, <1>6
      <2>2. PICK a \in 1..4 : nodes[a] = 1
            BY <1>2, <1>6, <2>1
      <2>3. PICK c \in 1..4 : nodes[c] = 3
            BY <1>2, <1>6, <2>1
      <2>4. PICK e \in 1..4 : nodes[e] = 5
            BY <1>2, <1>6, <2>1
      <2>5. \E b \in 1..4 : nodes[b] = 2
            BY <1>2, <1>6, <2>1
      <2>6. ASSUME NEW b \in 1..4, nodes[b] = 2 PROVE b = 2
            <3>1. a < b /\ b < c /\ c < e
                  BY <1>3, <2>1, <2>2, <2>3, <2>4, <2>6
            <3> QED BY <3>1
      <2>7. \A j \in 1..Len(nodes) : nodes[j] = 2 <=> j = 2
            BY <2>1, <2>5, <2>6
      <2> QED BY <1>1, <2>1, <2>7, IndexIs
<1>7. sum = sum_list
      BY <1>1, SumIs DEF Exact
<1> QED BY <1>4, <1>5, <1>6, <1>7 DEF MainTests

(* For any data and any number of calls of insert_sorted() (lab6.c 32-52,  *)
(* 126-149): the list is sorted and holds what was inserted, the sum that  *)
(* is kept along is that of the list, and only the least datum inserted    *)
(* once more crashes the program.                                          *)
THEOREM InsertsAreExact == ListSpec => []InsertsExact
<1>1. ListInv => InsertsExact
  <2> SUFFICES ASSUME ListInv PROVE InsertsExact
      OBVIOUS
  <2>1. ASSUME state # "crashed"
        PROVE  (\A d \in Data : NumberIn(nodes, d) = NumberIn(inserted, d)) /\ sum = sum_list /\ MainTests
        <3>1. Exact
              BY <2>1 DEF ListInv
        <3>2. sum = sum_list
              BY <3>1, ListTypes, SumIs DEF Exact
        <3> QED BY <3>1, <3>2, TestsSucceed DEF Exact
  <2>2. state = "crashed" => Crashed
        BY DEF ListInv
  <2> QED BY <2>1, <2>2 DEF InsertsExact, ListInv, Crashed
<1> QED BY InitListInv, StepListInv, <1>1, PTL DEF ListSpec

-----------------------------------------------------------------------------
(* The word counter: who counts what.                                      *)
Counters == Threads \cup {Main}
Start(t) == IF t = Main THEN 0 ELSE t * chunk_size

LEMMA CounterTypes ==
  /\ THREAD_COUNT \in Nat \ {0} /\ Threads \subseteq Nat
  /\ Main \notin Threads /\ Nobody \notin Threads /\ Main \in Int
BY WordCountAssumption DEF Threads, Main, Nobody

(* The chunks lie in the words.                                            *)
LEMMA ChunksFit ==
  ASSUME Len(words) \in Nat, NEW t \in Counters
  PROVE  Start(t) \in Nat /\ num_words(t) \in Nat /\ Start(t) + num_words(t) <= Len(words)
<1> DEFINE L == Len(words)
           c == chunk_size
           r == L % THREAD_COUNT
<1>1. c \in Nat /\ r \in Nat /\ L = THREAD_COUNT * c + r
      BY CounterTypes DEF chunk_size
<1>2. CASE t = Main
      BY <1>2 DEF Start, num_words
<1>3. CASE t # Main
      <2>1. t \in Nat /\ t < THREAD_COUNT
            BY <1>3, CounterTypes DEF Counters, Threads
      <2>2. PICK e \in Nat : THREAD_COUNT = t + 1 + e
            BY <2>1, CounterTypes, THREAD_COUNT - t - 1 \in Nat
      <2>3. THREAD_COUNT * c = t * c + c + e * c
            BY <1>1, <2>1, <2>2
      <2>4. t * c \in Nat /\ e * c \in Nat
            BY <1>1, <2>1
      <2>5. Start(t) = t * c
            BY <1>3 DEF Start
      <2>6. num_words(t) = c + (IF t = THREAD_COUNT - 1 THEN r ELSE 0)
            BY <1>3 DEF num_words
      <2> HIDE DEF c, r
      <2> QED BY <1>1, <2>3, <2>4, <2>5, <2>6
<1> QED BY <1>2, <1>3

(* Where all but one thread have no word there is at most one.             *)
LEMMA AtMostOne ==
  ASSUME Len(words) \in Nat, NEW a \in Threads \cup {Nobody},
         \A t \in Threads : t # a => num_words(t) = 0,
         \A t \in Threads : num_words(t) <= 1
  PROVE  /\ Len(words) <= 1
         /\ Len(words) = 1 => \E t \in Threads : Start(t) = 0 /\ num_words(t) = 1
<1> DEFINE L == Len(words)
           c == chunk_size
           r == L % THREAD_COUNT
           l == THREAD_COUNT - 1
<1>1. c \in Nat /\ r \in Nat /\ L = THREAD_COUNT * c + r
      BY CounterTypes DEF chunk_size
<1>2. l \in Threads /\ 0 \in Threads /\ l # Main
      BY CounterTypes DEF Threads, Main
<1>3. num_words(l) = c + r /\ Start(l) = l * c
      BY <1>2 DEF num_words, Start
<1>4. CASE c = 0
      <2>1. L = r /\ l * c = 0
            BY <1>1, <1>4, <1>2, CounterTypes
      <2> HIDE DEF c, r, l
      <2> QED BY <1>1, <1>2, <1>3, <1>4, <2>1
<1>5. CASE THREAD_COUNT = 1
      <2>1. L = c + r /\ l * c = 0
            BY <1>1, <1>5
      <2> HIDE DEF c, r, l
      <2> QED BY <1>1, <1>2, <1>3, <2>1
<1>6. CASE c # 0 /\ THREAD_COUNT # 1
      <2>1. 0 # l /\ 0 # Main
            BY <1>6, CounterTypes DEF Main
      <2>2. num_words(0) = c
            BY <1>1, <2>1 DEF num_words
      <2> HIDE DEF c, r, l
      <2> QED BY <1>1, <1>2, <1>3, <1>6, <2>1, <2>2
<1> QED BY <1>4, <1>5, <1>6

-----------------------------------------------------------------------------
(* The program counters.                                                   *)
CountTypes ==
  /\ words \in Seq(Word)
  /\ where \in {"count", "launch", "join", "sort", "print", "done"}
  /\ launched \in 0..THREAD_COUNT
  /\ place \in [Counters -> {"none", "lock", "find", "add", "returned"}]
  /\ next \in [Counters -> Nat] /\ entry \in [Counters -> Nat]
  /\ lock \in Threads \cup {Nobody}
  /\ map \in Seq([word : Word, count : Nat]) /\ printed \in Seq([word : Word, count : Nat])

(* Main counts, or the threads launched so far do.                         *)
PlaceInv ==
  /\ \A t \in Threads : place[t] # "none" => t < launched
  /\ place[Main] # "none" <=> where # "launch" /\ launched = 0
  /\ where = "count" => launched = 0
  /\ where = "launch" => launched < THREAD_COUNT
  /\ where \notin {"count", "launch"} => launched \in {0, THREAD_COUNT}
  /\ where = "join" => launched = THREAD_COUNT
  /\ where \notin {"count", "launch", "join"} =>
       IF launched = 0 THEN place[Main] = "returned" ELSE \A t \in Threads : place[t] = "returned"

(* The mutex is never given back: who has counted a word has it.           *)
LockInv ==
  /\ \A t \in Threads : place[t] \in {"find", "add"} \/ next[t] > 0 => lock = t
  /\ \A t \in Threads : next[t] <= 1 /\ (place[t] \in {"find", "add"} => next[t] = 0)
  /\ \A t \in Counters :
       /\ place[t] = "none" => next[t] = 0
       /\ next[t] <= num_words(t)
       /\ place[t] \in {"find", "add"} => next[t] < num_words(t)
       /\ place[t] = "returned" => next[t] = num_words(t)

LEMMA LeastOf ==
  ASSUME NEW S, S \subseteq Nat, S # {}
  PROVE  \E m \in S : \A n \in S : m <= n
<1> SUFFICES ASSUME \A m \in S : \E n \in S : ~(m <= n) PROVE FALSE
    OBVIOUS
<1> DEFINE B == {k \in Nat : \A n \in S : k <= n}
<1>1. 0 \in B
      OBVIOUS
<1>2. ASSUME NEW k \in Nat, k \in B PROVE k + 1 \in B
      <2>1. k \notin S
            BY <1>2
      <2> QED BY <1>2, <2>1
<1> HIDE DEF B
<1>3. \A k \in Nat : k \in B
      BY <1>1, <1>2, SetInduction
<1>4. PICK m \in S : m \in Nat
      OBVIOUS
<1>5. m + 1 \in B
      BY <1>3, <1>4
<1> QED BY <1>4, <1>5 DEF B

(* What HASH_FIND_STR() finds: SelectInSeq is the least index, or 0.       *)
FindWord(w) == SelectInSeq(map, LAMBDA e : e.word = w)

LEMMA FoundIs ==
  ASSUME NEW w, Len(map) \in Nat
  PROVE  /\ FindWord(w) \in Nat
         /\ FindWord(w) # 0 => FindWord(w) \in 1..Len(map) /\ map[FindWord(w)].word = w
         /\ FindWord(w) = 0 => \A k \in 1..Len(map) : map[k].word # w
<1> DEFINE I == {k \in 1..Len(map) : map[k].word = w}
<1>1. FindWord(w) = IF I # {} THEN Min(I) ELSE 0
      BY DEF FindWord, SelectInSeq
<1>2. Min(I) = CHOOSE x \in I : \A y \in I : x <= y
      BY DEF Min
<1>3. I # {} => \E x \in I : \A y \in I : x <= y
      <2>1. I \subseteq Nat
            OBVIOUS
      <2> HIDE DEF I
      <2> QED BY <2>1, LeastOf
<1> HIDE DEF I
<1>4. I # {} => Min(I) \in I
      BY <1>2, <1>3
<1>5. \A k \in I : k \in 1..Len(map) /\ map[k].word = w
      BY DEF I
<1>6. I = {} => \A k \in 1..Len(map) : map[k].word # w
      BY DEF I
<1> QED BY <1>1, <1>4, <1>5, <1>6

LEMMA InitPlaces == CountInit => CountTypes /\ PlaceInv /\ LockInv
<1> SUFFICES ASSUME CountInit PROVE CountTypes /\ PlaceInv /\ LockInv
    OBVIOUS
<1>1. /\ place = [t \in Counters |-> IF t = Main /\ where = "count" THEN "lock" ELSE "none"]
      /\ next = [t \in Counters |-> 0] /\ entry = [t \in Counters |-> 0]
      BY DEF CountInit, Counters
<1>2. words \in Seq(Word)
      <2>1. PICK n \in 0..MaxWords : words \in [1..n -> Word]
            BY DEF CountInit
      <2> QED BY <2>1, SeqDef, WordCountAssumption
<1>3. CountTypes
      BY <1>1, <1>2, CounterTypes DEF CountInit, CountTypes
<1>4. PlaceInv
      BY <1>1, CounterTypes DEF CountInit, PlaceInv, Counters
<1>5. Len(words) \in Nat
      BY <1>2, LenProperties
<1>6. LockInv
      BY <1>1, <1>5, ChunksFit, CounterTypes DEF LockInv, Counters
<1> QED BY <1>3, <1>4, <1>6

LEMMA EntryTypes ==
  ASSUME CountTypes
  PROVE  /\ Len(map) \in Nat /\ DOMAIN map = 1..Len(map) /\ Len(words) \in Nat
         /\ \A k \in 1..Len(map) : map[k] \in [word : Word, count : Nat]
         /\ \A k \in 1..Len(words) : words[k] \in Word
BY LenProperties, ElementOfSeq DEF CountTypes

(* The word a counter is at is one of the words.                           *)
LEMMA AtWord ==
  ASSUME CountTypes, NEW t \in Counters, next[t] < num_words(t)
  PROVE  Start(t) + next[t] + 1 \in 1..Len(words) /\ WordOf(t) = words[Start(t) + next[t] + 1]
                                                  /\ WordOf(t) \in Word
<1>1. next[t] \in Nat /\ Len(words) \in Nat
      BY EntryTypes DEF CountTypes
<1>2. Start(t) \in Nat /\ num_words(t) \in Nat /\ Start(t) + num_words(t) <= Len(words)
      BY <1>1, ChunksFit
<1>3. Start(t) + next[t] + 1 \in 1..Len(words)
      BY <1>1, <1>2
<1>4. WordOf(t) = words[Start(t) + next[t] + 1]
      BY DEF WordOf, Start
<1> QED BY <1>3, <1>4, EntryTypes

LEMMA IsSequence ==
  ASSUME NEW X, NEW n \in Nat, NEW f \in [1..n -> X]
  PROVE  f \in Seq(X) /\ Len(f) = n
OBVIOUS

(* w->count++.                                                             *)
LEMMA OneMoreOf ==
  ASSUME CountTypes, NEW e \in Nat, map' = [map EXCEPT ![e].count = @ + 1]
  PROVE  /\ map' \in Seq([word : Word, count : Nat]) /\ Len(map') = Len(map)
         /\ \A k \in 1..Len(map) :
              /\ map'[k].word = map[k].word
              /\ map'[k].count = IF k = e THEN map[k].count + 1 ELSE map[k].count
<1> DEFINE R == [word : Word, count : Nat]
           n == Len(map)
<1>1. n \in Nat /\ DOMAIN map = 1..n /\ \A k \in 1..n : map[k] \in R
      BY EntryTypes
<1>2. \A k \in 1..n : map[k].word \in Word /\ map[k].count \in Nat /\ DOMAIN map[k] = {"word", "count"}
      BY <1>1
<1>3. map' = [k \in 1..n |-> IF k = e THEN [map[k] EXCEPT !.count = @ + 1] ELSE map[k]]
      BY <1>1
<1>4. ASSUME NEW k \in 1..n
      PROVE  /\ map'[k] \in R /\ map'[k].word = map[k].word
             /\ map'[k].count = IF k = e THEN map[k].count + 1 ELSE map[k].count
      <2>1. CASE k = e
            <3>1. map'[k] = [map[k] EXCEPT !.count = @ + 1]
                  BY <1>3, <2>1
            <3> QED BY <1>1, <2>1, <3>1
      <2>2. CASE k # e
            <3>1. map'[k] = map[k]
                  BY <1>3, <2>2
            <3> QED BY <1>1, <2>2, <3>1
      <2> QED BY <2>1, <2>2
<1>5. map' \in [1..n -> R]
      BY <1>3, <1>4
<1>6. map' \in Seq(R) /\ Len(map') = n
      <2> HIDE DEF n, R
      <2> QED BY <1>1, <1>5, IsSequence
<1> QED BY <1>4, <1>6

LEMMA AddTypes ==
  ASSUME CountTypes, NEW t \in Counters, place[t] = "add" => next[t] < num_words(t),
         add_word_counts_in_chunk(t)
  PROVE  CountTypes'
<1> USE DEF CountTypes
<1>1. CASE Lock(t)
      BY <1>1, CounterTypes DEF Lock, Counters
<1>2. CASE Return(t)
      BY <1>2 DEF Return
<1>3. CASE HASH_FIND_STR(t)
      <2>1. FindWord(WordOf(t)) \in Nat
            BY FoundIs, EntryTypes
      <2>2. entry' = [entry EXCEPT ![t] = FindWord(WordOf(t))]
            BY <1>3 DEF HASH_FIND_STR, FindWord
      <2> QED BY <1>3, <2>1, <2>2 DEF HASH_FIND_STR
<1>4. CASE Add(t)
      <2>1. map' \in Seq([word : Word, count : Nat])
            <3>1. CASE entry[t] # 0
                  <4>1. map' = [map EXCEPT ![entry[t]].count = @ + 1]
                        BY <1>4, <3>1 DEF Add
                  <4> QED BY <4>1, OneMoreOf DEF CountTypes
            <3>2. CASE entry[t] = 0
                  <4>1. [word |-> WordOf(t), count |-> 1] \in [word : Word, count : Nat]
                        BY <1>4, AtWord DEF Add
                  <4> QED BY <1>4, <3>2, <4>1, AppendProperties DEF Add
            <3> QED BY <3>1, <3>2
      <2> QED BY <1>4, <2>1 DEF Add
<1> QED BY <1>1, <1>2, <1>3, <1>4 DEF add_word_counts_in_chunk

LEMMA StepTypes == CountTypes /\ PlaceInv /\ LockInv /\ [CountNext]_countVars => CountTypes'
<1> SUFFICES ASSUME CountTypes, PlaceInv, LockInv, [CountNext]_countVars PROVE CountTypes'
    OBVIOUS
<1>1. ASSUME NEW t \in Counters, add_word_counts_in_chunk(t) PROVE CountTypes'
      BY <1>1, AddTypes DEF LockInv
<1>2. CASE count_words_seq \/ count_words_parallel
      BY <1>2 DEF CountTypes, count_words_seq, count_words_parallel
<1>5. CASE PrintAndDelete
      <2>1. <<>> \in Seq([word : Word, count : Nat])
            OBVIOUS
      <2> QED BY <1>5, <2>1 DEF CountTypes, PrintAndDelete
<1>6. CASE UNCHANGED countVars
      BY <1>6 DEF CountTypes, countVars
<1>3. CASE Launch
      <2>1. launched \in Counters /\ launched' \in 0..THREAD_COUNT
            BY <1>3, CounterTypes DEF Launch, CountTypes, Counters, Threads
      <2> QED BY <1>3, <2>1 DEF Launch, CountTypes
<1>4. CASE Sort
      <2>1. PICK q \in Bijection(DOMAIN map, DOMAIN map) : map' = [k \in DOMAIN map |-> map[q[k]]]
            BY <1>4 DEF Sort
      <2>2. q \in [DOMAIN map -> DOMAIN map]
            BY DEF Bijection, Injection
      <2>3. map' \in [1..Len(map) -> [word : Word, count : Nat]] /\ Len(map) \in Nat
            BY <2>1, <2>2, EntryTypes
      <2>4. map' \in Seq([word : Word, count : Nat])
            BY <2>3, IsSequence
      <2> QED BY <1>4, <2>4 DEF Sort, CountTypes
<1> QED BY <1>1, <1>2, <1>3, <1>4, <1>5, <1>6 DEF CountNext, Counters

LEMMA StepPlaces == CountTypes /\ PlaceInv /\ [CountNext]_countVars => PlaceInv'
<1> SUFFICES ASSUME CountTypes, PlaceInv, [CountNext]_countVars PROVE PlaceInv'
    OBVIOUS
<1> USE CounterTypes DEF PlaceInv
<1>1. ASSUME NEW t \in Counters, add_word_counts_in_chunk(t) PROVE PlaceInv'
      <2>1. /\ UNCHANGED <<where, launched>> /\ place[t] \in {"lock", "find", "add"}
            /\ \E p \in {"lock", "find", "add", "returned"} : place' = [place EXCEPT ![t] = p]
            BY <1>1 DEF add_word_counts_in_chunk, Lock, Return, HASH_FIND_STR, Add
      <2>2. place' \in [Counters -> {"none", "lock", "find", "add", "returned"}]
            /\ \A u \in Counters : u # t => place'[u] = place[u]
            /\ place'[t] # "none"
            BY <2>1 DEF CountTypes
      <2>3. Main \in Counters /\ \A u \in Threads : u \in Counters
            BY DEF Counters
      <2> QED BY <2>1, <2>2, <2>3
<1>2. CASE count_words_seq \/ count_words_parallel \/ PrintAndDelete \/ Sort
      BY <1>2 DEF count_words_seq, count_words_parallel, PrintAndDelete, Sort
<1>3. CASE Launch
      <2>1. /\ launched' = launched + 1 /\ launched \in Nat /\ launched \in Threads
            /\ where' = IF launched' = THREAD_COUNT THEN "join" ELSE "launch"
            /\ where = "launch" /\ launched < THREAD_COUNT
            BY <1>3 DEF Launch, CountTypes, Threads
      <2>2. \A u \in Counters : place'[u] = IF u = launched THEN "lock" ELSE place[u]
            BY <1>3, <2>1 DEF Launch, CountTypes, Counters
      <2>3. Main \in Counters /\ (\A u \in Threads : u \in Counters /\ u \in Nat) /\ launched # Main
            BY <2>1 DEF Counters
      <2>4. \A u \in Threads : place'[u] # "none" => u < launched'
            BY <2>1, <2>2, <2>3
      <2>5. place'[Main] = place[Main] /\ place[Main] = "none"
            BY <2>1, <2>2, <2>3
      <2> QED BY <2>1, <2>4, <2>5
<1>4. CASE UNCHANGED countVars
      BY <1>4 DEF countVars
<1> QED BY <1>1, <1>2, <1>3, <1>4 DEF CountNext, Counters

LEMMA StepLock == CountTypes /\ PlaceInv /\ LockInv /\ [CountNext]_countVars => LockInv'
<1> SUFFICES ASSUME CountTypes, PlaceInv, LockInv, [CountNext]_countVars PROVE LockInv'
    OBVIOUS
<1>1. \A u \in Counters : num_words(u)' = num_words(u) /\ num_words(u) \in Nat
      <2>1. UNCHANGED words
            BY DEF CountNext, add_word_counts_in_chunk, Lock, Return, HASH_FIND_STR, Add,
                   count_words_seq, Launch, count_words_parallel, Sort, PrintAndDelete, countVars
      <2> QED BY <2>1, EntryTypes, ChunksFit DEF num_words, chunk_size
<1>2. (\A u \in Threads : u \in Counters) /\ Main \in Counters /\ Main \notin Threads
      BY CounterTypes DEF Counters
<1>3. \A u \in Counters : next[u] \in Nat
      BY DEF CountTypes
<1>4. ASSUME NEW t \in Counters, add_word_counts_in_chunk(t) PROVE LockInv'
      <2>1. CASE Lock(t)
            <3>1. \A u \in Counters : place'[u] = IF u = t THEN "find" ELSE place[u]
                  BY <2>1 DEF Lock, CountTypes
            <3>2. UNCHANGED next /\ place[t] = "lock" /\ next[t] < num_words(t)
                  BY <2>1 DEF Lock
            <3>3. CASE t = Main
                  BY <1>1, <1>2, <2>1, <3>1, <3>2, <3>3 DEF Lock, LockInv
            <3>4. CASE t # Main
                  <4>1. t \in Threads /\ lock = Nobody /\ lock' = t
                        BY <2>1, <3>4 DEF Lock, Counters
                  <4>2. \A u \in Threads : place[u] \notin {"find", "add"} /\ next[u] = 0
                        BY <1>2, <1>3, <4>1, CounterTypes DEF LockInv
                  <4> QED BY <1>1, <1>2, <3>1, <3>2, <4>1, <4>2 DEF LockInv
            <3> QED BY <3>3, <3>4
      <2>2. CASE Return(t)
            <3>1. \A u \in Counters : place'[u] = IF u = t THEN "returned" ELSE place[u]
                  BY <2>2 DEF Return, CountTypes
            <3> QED BY <1>1, <1>2, <2>2, <3>1 DEF Return, LockInv
      <2>3. CASE HASH_FIND_STR(t)
            <3>1. \A u \in Counters : place'[u] = IF u = t THEN "add" ELSE place[u]
                  BY <2>3 DEF HASH_FIND_STR, CountTypes
            <3> QED BY <1>1, <1>2, <2>3, <3>1 DEF HASH_FIND_STR, LockInv
      <2>4. CASE Add(t)
            <3>1. \A u \in Counters : place'[u] = IF u = t THEN "lock" ELSE place[u]
                  BY <2>4 DEF Add, CountTypes
            <3>2. \A u \in Counters : next'[u] = IF u = t THEN next[u] + 1 ELSE next[u]
                  BY <2>4 DEF Add, CountTypes
            <3>3. UNCHANGED lock /\ place[t] = "add" /\ next[t] < num_words(t)
                  BY <2>4 DEF Add, LockInv
            <3>4. \A u \in Counters : next'[u] <= num_words(u)
                  BY <1>1, <1>3, <3>2, <3>3 DEF LockInv
            <3>5. \A u \in Counters \ {t} : place'[u] = place[u] /\ next'[u] = next[u]
                  BY <3>1, <3>2
            <3>6. t \in Threads => lock = t /\ next'[t] = 1
                  BY <3>2, <3>3 DEF LockInv
            <3>7. place'[t] = "lock"
                  BY <3>1
            <3> QED BY <1>1, <1>2, <3>3, <3>4, <3>5, <3>6, <3>7 DEF LockInv
      <2> QED BY <1>4, <2>1, <2>2, <2>3, <2>4 DEF add_word_counts_in_chunk
<1>5. CASE count_words_seq \/ count_words_parallel \/ PrintAndDelete \/ Sort \/ UNCHANGED countVars
      <2>1. UNCHANGED <<place, next, lock>>
            BY <1>5 DEF count_words_seq, count_words_parallel, PrintAndDelete, Sort, countVars
      <2> QED BY <1>1, <1>2, <2>1 DEF LockInv
<1>6. CASE Launch
      <2>1. launched \in Threads /\ place[launched] = "none"
            <3>1. launched \in Threads
                  BY <1>6, CounterTypes DEF Launch, CountTypes, Threads
            <3> QED BY <3>1, CounterTypes DEF PlaceInv, CountTypes, Threads
      <2>2. \A u \in Counters : place'[u] = IF u = launched THEN "lock" ELSE place[u]
            BY <1>6 DEF Launch, CountTypes
      <2> QED BY <1>1, <1>2, <1>6, <2>1, <2>2 DEF LockInv, Launch
<1> QED BY <1>4, <1>5, <1>6 DEF CountNext, Counters

(* Only one counter has counted anything or is between the lock and the    *)
(* count: main, or the thread with the mutex.                              *)
LEMMA OnlyOne ==
  ASSUME PlaceInv, LockInv, CountTypes, NEW t \in Counters, place[t] \in {"find", "add"}
  PROVE  \A u \in Counters : u # t => next[u] = 0 /\ place[u] \notin {"find", "add"}
<1>1. CASE t = Main
      <2>1. launched = 0
            BY <1>1 DEF PlaceInv
      <2>2. \A u \in Threads : place[u] = "none"
            BY <2>1, CounterTypes DEF PlaceInv, Threads
      <2> QED BY <1>1, <2>2 DEF LockInv, Counters
<1>2. CASE t # Main
      <2>1. t \in Threads /\ lock = t
            BY <1>2 DEF LockInv, Counters
      <2>2. launched # 0
            BY <2>1, CounterTypes DEF PlaceInv, Threads
      <2>3. place[Main] = "none" /\ next[Main] = 0
            BY <2>2, CounterTypes DEF PlaceInv, LockInv, Counters, CountTypes
      <2>4. \A u \in Threads : next[u] \in Nat
            BY DEF CountTypes, Counters
      <2> QED BY <2>1, <2>3, <2>4 DEF LockInv, Counters
<1> QED BY <1>1, <1>2

(* The parallel count returns only where there is at most one word, and    *)
(* then it was counted; the sequential one has counted them all.           *)
Done == {k \in 1..Len(words) :
           \E t \in Counters : Start(t) < k /\ k <= Start(t) + next[t]}

LEMMA AllDone ==
  ASSUME PlaceInv, LockInv, CountTypes,
         IF launched = 0 THEN place[Main] = "returned" ELSE \A t \in Threads : place[t] = "returned"
  PROVE  Done = 1..Len(words) /\ (launched > 0 => Len(words) <= 1)
<1>1. Len(words) \in Nat /\ launched \in Nat
      BY EntryTypes DEF CountTypes
<1>2. CASE launched = 0
      <2>1. next[Main] = Len(words) /\ Start(Main) = 0
            BY <1>2 DEF LockInv, Counters, num_words, Start
      <2>2. \A k \in 1..Len(words) : Start(Main) < k /\ k <= Start(Main) + next[Main]
            BY <1>1, <2>1
      <2> QED BY <1>2, <2>2 DEF Done, Counters
<1>3. CASE launched # 0
      <2>1. \A t \in Threads : next[t] = num_words(t) /\ next[t] <= 1 /\ next[t] \in Nat
            BY <1>3 DEF LockInv, Counters, CountTypes
      <2>2. \A t \in Threads : t # lock => num_words(t) = 0
            BY <2>1 DEF LockInv
      <2>3. lock \in Threads \cup {Nobody}
            BY DEF CountTypes
      <2>4. \A t \in Threads : num_words(t) <= 1
            BY <2>1
      <2>5. /\ Len(words) <= 1
            /\ Len(words) = 1 => \E t \in Threads : Start(t) = 0 /\ num_words(t) = 1
            BY <1>1, <2>2, <2>3, <2>4, AtMostOne
      <2>6. \A k \in 1..Len(words) : \E t \in Threads : Start(t) < k /\ k <= Start(t) + next[t]
            <3> SUFFICES ASSUME NEW k \in 1..Len(words)
                         PROVE  \E t \in Threads : Start(t) < k /\ k <= Start(t) + next[t]
                OBVIOUS
            <3> DEFINE L == Len(words)
            <3>1. k = 1 /\ L = 1
                  <4>1. k \in 1..L /\ L \in Nat /\ L <= 1
                        BY <1>1, <2>5
                  <4> HIDE DEF L
                  <4> QED BY <4>1
            <3>2. PICK t \in Threads : Start(t) = 0 /\ next[t] = 1
                  BY <2>1, <2>5, <3>1
            <3> QED BY <3>1, <3>2
      <2> QED BY <2>5, <2>6 DEF Done, Counters
<1> QED BY <1>2, <1>3


-----------------------------------------------------------------------------
(* The table: the words done, each once, with its number.                  *)
CountOf(D, w) == Cardinality({k \in D : words[k] = w})

Once(m) == \A k, l \in 1..Len(m) : m[k].word = m[l].word => k = l
Counted(m, D) ==
  \A k \in 1..Len(m) :
    m[k].count = CountOf(D, m[k].word) /\ \E d \in D : words[d] = m[k].word
Complete(m, D) == \A d \in D : \E k \in 1..Len(m) : m[k].word = words[d]
Table(m, D) == Once(m) /\ Counted(m, D) /\ Complete(m, D)

InOrder(m) == \A k \in 2..Len(m) : m[k - 1].word <= m[k].word

TableInv ==
  /\ where # "done" => Table(map, Done) /\ printed = <<>>
  /\ where = "print" => InOrder(map)
  /\ where = "done" => Table(printed, Done) /\ InOrder(printed)

(* What was found is still so when the count is added: only the counter    *)
(* that found it changes the table.                                        *)
FoundInv ==
  \A t \in Counters : place[t] = "add" =>
    IF entry[t] = 0 THEN \A k \in 1..Len(map) : map[k].word # WordOf(t)
    ELSE entry[t] \in 1..Len(map) /\ map[entry[t]].word = WordOf(t)

CountInv == CountTypes /\ PlaceInv /\ LockInv /\ FoundInv /\ TableInv

LEMMA DoneIs ==
  ASSUME CountTypes
  PROVE  Done \in SUBSET (1..Len(words)) /\ IsFiniteSet(Done)
<1> DEFINE L == Len(words)
<1>1. L \in Int /\ 1 \in Int /\ Done \in SUBSET (1..L)
      BY EntryTypes DEF Done
<1>2. IsFiniteSet(Done)
      <2> HIDE DEF L
      <2>1. IsFiniteSet(1..L)
            BY <1>1, FS_Interval
      <2> QED BY <1>1, <2>1, FS_Subset
<1> QED BY <1>1, <1>2

(* Counting one more word.                                                 *)
LEMMA OneMoreDone ==
  ASSUME CountTypes, PlaceInv, LockInv, NEW t \in Counters, Add(t)
  PROVE  \E d \in 1..Len(words) :
           /\ words[d] = WordOf(t) /\ d \notin Done /\ Done' = Done \cup {d}
<1> DEFINE d == Start(t) + next[t] + 1
<1>1. place[t] = "add" /\ next[t] < num_words(t) /\ next[t] \in Nat
      BY DEF Add, LockInv, CountTypes
<1>2. d \in 1..Len(words) /\ words[d] = WordOf(t)
      BY <1>1, AtWord
<1>3. UNCHANGED words /\ \A u \in Counters : next'[u] = IF u = t THEN next[u] + 1 ELSE next[u]
      BY DEF Add, CountTypes
<1>4. \A u \in Counters : Start(u)' = Start(u) /\ Start(u) \in Nat
      BY <1>3, EntryTypes, ChunksFit DEF Start, chunk_size
<1>5. \A u \in Counters : u # t => next[u] = 0
      BY <1>1, OnlyOne
<1>6. \A k \in 1..Len(words) : k \in Done <=> Start(t) < k /\ k <= Start(t) + next[t]
      <2> SUFFICES ASSUME NEW k \in 1..Len(words)
                   PROVE  k \in Done <=> Start(t) < k /\ k <= Start(t) + next[t]
          OBVIOUS
      <2>1. \A u \in Counters : u # t => ~(Start(u) < k /\ k <= Start(u) + next[u])
            BY <1>4, <1>5, EntryTypes
      <2> QED BY <2>1 DEF Done
<1>7. \A k \in 1..Len(words) : k \in Done' <=> Start(t) < k /\ k <= Start(t) + next[t] + 1
      <2> SUFFICES ASSUME NEW k \in 1..Len(words)
                   PROVE  k \in Done' <=> Start(t) < k /\ k <= Start(t) + next[t] + 1
          OBVIOUS
      <2>1. \A u \in Counters : u # t => ~(Start(u) < k /\ k <= Start(u) + next'[u])
            BY <1>3, <1>4, <1>5, EntryTypes
      <2>2. Start(t) + next'[t] = Start(t) + next[t] + 1
            BY <1>1, <1>3, <1>4
      <2>3. k \in Done' <=> \E u \in Counters : Start(u) < k /\ k <= Start(u) + next'[u]
            BY <1>3, <1>4 DEF Done
      <2> QED BY <2>1, <2>2, <2>3
<1>8. Done \subseteq 1..Len(words) /\ Done' \subseteq 1..Len(words)
      BY <1>3 DEF Done
<1>9. \A k \in 1..Len(words) : k \in Done' <=> k \in Done \/ k = d
      <2> SUFFICES ASSUME NEW k \in 1..Len(words) PROVE k \in Done' <=> k \in Done \/ k = d
          OBVIOUS
      <2> DEFINE a == Start(t)
                 b == next[t]
      <2>1. a \in Nat /\ b \in Nat /\ k \in Int
            BY <1>1, <1>4
      <2>2. k \in Done <=> a < k /\ k <= a + b
            BY <1>6
      <2>3. k \in Done' <=> a < k /\ k <= a + b + 1
            BY <1>7
      <2>4. d = a + b + 1
            OBVIOUS
      <2> HIDE DEF a, b, d
      <2> QED BY <2>1, <2>2, <2>3, <2>4
<1>10. d \notin Done
      BY <1>1, <1>2, <1>4, <1>6
<1> HIDE DEF d
<1> QED BY <1>2, <1>8, <1>9, <1>10

LEMMA CountMore ==
  ASSUME NEW D, IsFiniteSet(D), NEW d, d \notin D, NEW w
  PROVE  /\ CountOf(D \cup {d}, w) = IF words[d] = w THEN CountOf(D, w) + 1 ELSE CountOf(D, w)
         /\ CountOf(D, w) \in Nat
         /\ (\A k \in D : words[k] # w) => CountOf(D, w) = 0
<1> DEFINE S == {k \in D : words[k] = w}
           T == {k \in D \cup {d} : words[k] = w}
<1>1. S \in SUBSET D /\ d \notin S
      OBVIOUS
<1>2. IsFiniteSet(S) /\ Cardinality(S) \in Nat
      <2>1. IsFiniteSet(S)
            BY <1>1, FS_Subset
      <2> QED BY <2>1, FS_CardinalityType
<1>3. CASE words[d] = w
      <2>1. T = S \cup {d}
            BY <1>3
      <2> HIDE DEF S, T
      <2>2. Cardinality(T) = Cardinality(S) + 1
            BY <1>1, <1>2, <2>1, FS_AddElement
      <2> QED BY <1>2, <1>3, <2>2, FS_EmptySet DEF S, T, CountOf
<1>4. CASE words[d] # w
      <2>1. T = S
            BY <1>4
      <2> QED BY <1>2, <1>4, <2>1, FS_EmptySet DEF CountOf
<1> QED BY <1>3, <1>4

LEMMA SameTable ==
  ASSUME UNCHANGED words
  PROVE  Table(map, Done)' <=> Table(map', Done')
<1>1. Counted(map, Done)' <=> Counted(map', Done')
      BY DEF Counted, CountOf
<1>2. Complete(map, Done)' <=> Complete(map', Done')
      BY DEF Complete
<1> QED BY <1>1, <1>2 DEF Table, Once

(* The table after a word has been counted, for any table and words.       *)
LEMMA TableWithOneMore ==
  ASSUME NEW m, NEW m2, NEW D, IsFiniteSet(D), NEW d, d \notin D, NEW n \in Nat, NEW e \in Nat,
         Len(m) = n, Table(m, D),
         IF e # 0
           THEN /\ e \in 1..n /\ m[e].word = words[d] /\ Len(m2) = n
                /\ \A k \in 1..n : /\ m2[k].word = m[k].word
                                   /\ m2[k].count = IF k = e THEN m[k].count + 1 ELSE m[k].count
           ELSE /\ \A k \in 1..n : m[k].word # words[d]
                /\ Len(m2) = n + 1 /\ m2[n + 1].word = words[d] /\ m2[n + 1].count = 1
                /\ \A k \in 1..n : m2[k] = m[k]
  PROVE  Table(m2, D \cup {d})
<1> DEFINE w == words[d]
           E == D \cup {d}
<1>1. \A x : /\ CountOf(E, x) = IF x = w THEN CountOf(D, x) + 1 ELSE CountOf(D, x)
             /\ CountOf(D, x) \in Nat
             /\ (\A k \in D : words[k] # x) => CountOf(D, x) = 0
      BY CountMore
<1>2. /\ \A k, l \in 1..n : m[k].word = m[l].word => k = l
      /\ \A k \in 1..n : m[k].count = CountOf(D, m[k].word) /\ \E c \in D : words[c] = m[k].word
      /\ \A c \in D : \E k \in 1..n : m[k].word = words[c]
      BY DEF Table, Once, Counted, Complete
<1>3. words[d] = w /\ d \in E /\ (\A c \in D : c \in E) /\ \A c \in E : c \in D \/ c = d
      OBVIOUS
<1> HIDE DEF w, E
<1>4. CASE e # 0
      <2>1. Once(m2)
            BY <1>2, <1>4 DEF Once
      <2>2. Counted(m2, E)
            <3> SUFFICES ASSUME NEW k \in 1..n
                         PROVE  m2[k].count = CountOf(E, m2[k].word) /\ \E c \in E : words[c] = m2[k].word
                BY <1>4 DEF Counted
            <3>1. k = e <=> m[k].word = w
                  BY <1>2, <1>3, <1>4
            <3> QED BY <1>1, <1>2, <1>3, <1>4, <3>1
      <2>3. Complete(m2, E)
            BY <1>2, <1>3, <1>4 DEF Complete
      <2> QED BY <2>1, <2>2, <2>3 DEF Table, E
<1>5. CASE e = 0
      <2>1. \A k \in 1..(n + 1) : k = n + 1 \/ k \in 1..n
            OBVIOUS
      <2>2. n + 1 \in 1..(n + 1) /\ (\A k \in 1..n : k \in 1..(n + 1)) /\ n + 1 \notin 1..n
            OBVIOUS
      <2>3. Once(m2)
            BY <1>2, <1>3, <1>5, <2>1 DEF Once
      <2>4. Counted(m2, E)
            <3> SUFFICES ASSUME NEW k \in 1..(n + 1)
                         PROVE  m2[k].count = CountOf(E, m2[k].word) /\ \E c \in E : words[c] = m2[k].word
                BY <1>5 DEF Counted
            <3>1. CASE k \in 1..n
                  BY <1>1, <1>2, <1>3, <1>5, <3>1
            <3>2. CASE k = n + 1
                  <4>1. \A c \in D : words[c] # w
                        BY <1>2, <1>3, <1>5
                  <4>2. CountOf(E, w) = 1
                        BY <1>1, <4>1
                  <4> QED BY <1>3, <1>5, <3>2, <4>2
            <3> QED BY <2>1, <3>1, <3>2
      <2>5. Complete(m2, E)
            BY <1>2, <1>3, <1>5, <2>2 DEF Complete
      <2> QED BY <2>3, <2>4, <2>5 DEF Table, E
<1> QED BY <1>4, <1>5

LEMMA AddTable ==
  ASSUME CountTypes, PlaceInv, LockInv, FoundInv, Table(map, Done), NEW t \in Counters, Add(t)
  PROVE  Table(map, Done)'
<1> DEFINE n == Len(map)
           w == WordOf(t)
           e == entry[t]
<1>1. PICK d \in 1..Len(words) : words[d] = w /\ d \notin Done /\ Done' = Done \cup {d}
      BY OneMoreDone
<1>2. UNCHANGED words /\ place[t] = "add" /\ e \in Nat /\ n \in Nat /\ IsFiniteSet(Done)
      BY EntryTypes, DoneIs DEF Add, CountTypes
<1>3. CASE e # 0
      <2>1. e \in 1..n /\ map[e].word = w
            BY <1>2, <1>3 DEF FoundInv
      <2>2. map' = [map EXCEPT ![e].count = @ + 1]
            BY <1>3 DEF Add
      <2>3. /\ Len(map') = n
            /\ \A k \in 1..n : /\ map'[k].word = map[k].word
                               /\ map'[k].count = IF k = e THEN map[k].count + 1 ELSE map[k].count
            BY <1>2, <2>2, OneMoreOf
      <2> HIDE DEF w, e
      <2>4. Table(map', Done \cup {d})
            <3>1. Len(map) = n
                  OBVIOUS
            <3> HIDE DEF n
            <3>2. IF e # 0
                    THEN /\ e \in 1..n /\ map[e].word = words[d] /\ Len(map') = n
                         /\ \A k \in 1..n :
                              /\ map'[k].word = map[k].word
                              /\ map'[k].count = IF k = e THEN map[k].count + 1 ELSE map[k].count
                    ELSE /\ \A k \in 1..n : map[k].word # words[d]
                         /\ Len(map') = n + 1 /\ map'[n + 1].word = words[d] /\ map'[n + 1].count = 1
                         /\ \A k \in 1..n : map'[k] = map[k]
                  BY <1>1, <1>3, <2>1, <2>3
            <3> QED BY <1>1, <1>2, <3>1, <3>2, TableWithOneMore
      <2> QED BY <1>1, <1>2, <2>4, SameTable
<1>4. CASE e = 0
      <2>1. \A k \in 1..n : map[k].word # w
            BY <1>2, <1>4 DEF FoundInv
      <2>2. map' = Append(map, [word |-> w, count |-> 1])
            BY <1>4 DEF Add
      <2>3. /\ Len(map') = n + 1 /\ map'[n + 1].word = w /\ map'[n + 1].count = 1
            /\ \A k \in 1..n : map'[k] = map[k]
            <3>1. map \in Seq([word : Word, count : Nat])
                  BY DEF CountTypes
            <3>2. [word |-> w, count |-> 1] \in [word : Word, count : Nat]
                  BY <1>2, AtWord DEF LockInv
            <3> HIDE DEF w
            <3> QED BY <2>2, <3>1, <3>2, AppendProperties
      <2> HIDE DEF w, e
      <2>4. Table(map', Done \cup {d})
            BY <1>1, <1>2, <1>4, <2>1, <2>3, TableWithOneMore
      <2> QED BY <1>1, <1>2, <2>4, SameTable
<1> QED BY <1>3, <1>4

(* Sorting a table leaves it a table.                                      *)
LEMMA SortTable ==
  ASSUME NEW m, NEW m2, NEW D, NEW n \in Nat, Len(m) = n, Len(m2) = n,
         NEW q \in Bijection(1..n, 1..n), \A k \in 1..n : m2[k] = m[q[k]], Table(m, D)
  PROVE  Table(m2, D)
<1>1. /\ \A k \in 1..n : q[k] \in 1..n
      /\ \A k, l \in 1..n : q[k] = q[l] => k = l
      /\ \A k \in 1..n : \E l \in 1..n : q[l] = k
      BY DEF Bijection, Injection, Surjection, IsInjective
<1>2. Once(m2)
      <2> SUFFICES ASSUME NEW k \in 1..n, NEW l \in 1..n, m2[k].word = m2[l].word PROVE k = l
          BY DEF Once
      <2>1. m[q[k]].word = m[q[l]].word
            OBVIOUS
      <2>2. q[k] = q[l]
            <3>1. q[k] \in 1..n /\ q[l] \in 1..n
                  BY <1>1
            <3>2. \A i, j \in 1..n : m[i].word = m[j].word => i = j
                  BY DEF Table, Once
            <3> QED BY <2>1, <3>1, <3>2
      <2> QED BY <1>1, <2>2
<1>3. Counted(m2, D)
      <2> SUFFICES ASSUME NEW k \in 1..n
                   PROVE  m2[k].count = CountOf(D, m2[k].word) /\ \E d \in D : words[d] = m2[k].word
          BY DEF Counted
      <2>1. m2[k] = m[q[k]] /\ q[k] \in 1..n
            BY <1>1
      <2> QED BY <2>1 DEF Table, Counted
<1>4. Complete(m2, D)
      <2> SUFFICES ASSUME NEW d \in D PROVE \E k \in 1..n : m2[k].word = words[d]
          BY DEF Complete
      <2>1. PICK k \in 1..n : m[k].word = words[d]
            BY DEF Table, Complete
      <2>2. PICK l \in 1..n : q[l] = k
            BY <1>1
      <2> QED BY <2>1, <2>2
<1> QED BY <1>2, <1>3, <1>4 DEF Table

(* Where nothing is counted, Done stays.                                   *)
LEMMA SameDone ==
  ASSUME CountTypes, UNCHANGED <<words, next>>
  PROVE  Done' = Done
<1>1. \A u \in Counters : Start(u)' = Start(u)
      BY DEF Start, chunk_size
<1> QED BY <1>1 DEF Done

LEMMA InitTable == CountInit => FoundInv /\ TableInv
<1> SUFFICES ASSUME CountInit PROVE FoundInv /\ TableInv
    OBVIOUS
<1>1. CountTypes
      BY InitPlaces
<1>2. \A t \in Counters : place[t] # "add" /\ next[t] = 0
      BY DEF CountInit, Counters
<1>3. FoundInv
      BY <1>2 DEF FoundInv
<1>4. Done = {}
      <2>1. \A t \in Counters : Start(t) \in Nat
            BY <1>1, EntryTypes, ChunksFit
      <2>2. \A k \in 1..Len(words), t \in Counters : ~(Start(t) < k /\ k <= Start(t) + next[t])
            <3> SUFFICES ASSUME NEW k \in 1..Len(words), NEW t \in Counters
                         PROVE  ~(Start(t) < k /\ k <= Start(t) + next[t])
                OBVIOUS
            <3> DEFINE a == Start(t)
            <3>1. a \in Nat /\ k \in Int /\ a + next[t] = a
                  BY <1>2, <2>1
            <3> HIDE DEF a
            <3>2. ~(a < k /\ k <= a)
                  BY <3>1
            <3> QED BY <3>1, <3>2 DEF a
      <2> QED BY <2>2 DEF Done
<1>5. Table(map, Done)
      <2>1. map = <<>> /\ Len(<<>>) = 0
            BY DEF CountInit
      <2> QED BY <1>4, <2>1 DEF Table, Once, Counted, Complete
<1> QED BY <1>3, <1>5 DEF CountInit, TableInv

LEMMA StepFound == CountTypes /\ PlaceInv /\ LockInv /\ FoundInv /\ [CountNext]_countVars => FoundInv'
<1> SUFFICES ASSUME CountTypes, PlaceInv, LockInv, FoundInv, [CountNext]_countVars PROVE FoundInv'
    OBVIOUS
<1>1. UNCHANGED words
      BY DEF CountNext, add_word_counts_in_chunk, Lock, Return, HASH_FIND_STR, Add,
             count_words_seq, Launch, count_words_parallel, Sort, PrintAndDelete, countVars
<1>2. \A u \in Counters : next'[u] = next[u] => WordOf(u)' = WordOf(u)
      BY <1>1 DEF WordOf, chunk_size
<1>3. ASSUME NEW t \in Counters, add_word_counts_in_chunk(t) PROVE FoundInv'
      <2>1. CASE Lock(t) \/ Return(t)
            <3>1. /\ UNCHANGED <<next, entry, map>>
                  /\ \A u \in Counters : place'[u] = "add" => place[u] = "add"
                  BY <2>1 DEF Lock, Return, CountTypes
            <3> QED BY <1>2, <3>1 DEF FoundInv
      <2>2. CASE HASH_FIND_STR(t)
            <3>1. /\ UNCHANGED <<next, map>>
                  /\ \A u \in Counters \ {t} : place'[u] = place[u] /\ entry'[u] = entry[u]
                  /\ entry'[t] = FindWord(WordOf(t))
                  BY <2>2 DEF HASH_FIND_STR, CountTypes, FindWord
            <3>2. IF entry'[t] = 0 THEN \A k \in 1..Len(map) : map[k].word # WordOf(t)
                  ELSE entry'[t] \in 1..Len(map) /\ map[entry'[t]].word = WordOf(t)
                  BY <3>1, FoundIs, EntryTypes
            <3> QED BY <1>2, <3>1, <3>2 DEF FoundInv
      <2>3. CASE Add(t)
            <3>1. \A u \in Counters : place'[u] # "add"
                  <4>1. place[t] = "add" /\ place' = [place EXCEPT ![t] = "lock"]
                        BY <2>3 DEF Add
                  <4>2. \A u \in Counters : u # t => place[u] # "add"
                        BY <4>1, OnlyOne
                  <4> QED BY <4>1, <4>2 DEF CountTypes
            <3> QED BY <3>1 DEF FoundInv
      <2> QED BY <1>3, <2>1, <2>2, <2>3 DEF add_word_counts_in_chunk
<1>4. CASE UNCHANGED countVars
      BY <1>2, <1>4 DEF FoundInv, countVars
<1>5. CASE count_words_seq \/ count_words_parallel
      BY <1>2, <1>5 DEF FoundInv, count_words_seq, count_words_parallel
<1>6. CASE Launch
      <2>1. UNCHANGED <<next, entry, map>> /\ \A u \in Counters : place'[u] = "add" => place[u] = "add"
            BY <1>6 DEF Launch, CountTypes
      <2> QED BY <1>2, <2>1 DEF FoundInv
<1>7. CASE Sort \/ PrintAndDelete
      <2>1. UNCHANGED place /\ where \notin {"count", "launch", "join"}
            BY <1>7 DEF Sort, PrintAndDelete
      <2>2. \A u \in Counters : place[u] # "add"
            <3>1. CASE launched = 0
                  BY <2>1, <3>1, CounterTypes DEF PlaceInv, Counters, Threads
            <3>2. CASE launched # 0
                  BY <2>1, <3>2 DEF PlaceInv, Counters
            <3> QED BY <3>1, <3>2
      <2> QED BY <2>1, <2>2 DEF FoundInv
<1> QED BY <1>3, <1>4, <1>5, <1>6, <1>7 DEF CountNext, Counters

LEMMA StepTable == CountInv /\ [CountNext]_countVars => TableInv'
<1> SUFFICES ASSUME CountInv, [CountNext]_countVars PROVE TableInv'
    OBVIOUS
<1> USE DEF CountInv
<1>1. ASSUME NEW t \in Counters, Add(t) PROVE TableInv'
      <2>1. where \in {"count", "launch", "join"}
            <3>1. place[t] = "add"
                  BY <1>1 DEF Add
            <3>2. CASE launched = 0
                  BY <3>1, <3>2, CounterTypes DEF PlaceInv, Counters, Threads, CountTypes
            <3>3. CASE launched # 0
                  BY <3>1, <3>3 DEF PlaceInv, Counters, CountTypes
            <3> QED BY <3>2, <3>3
      <2>2. Table(map, Done)'
            BY <1>1, <2>1, AddTable DEF TableInv
      <2> QED BY <1>1, <2>1, <2>2 DEF TableInv, Add
<1>2. ASSUME UNCHANGED <<words, next, map, printed>>,
             (where # "done" /\ where' \notin {"print", "done"}) \/ UNCHANGED where
      PROVE  TableInv'
      <2>1. Done' = Done
            BY <1>2, SameDone
      <2>2. /\ Table(map, Done)' <=> Table(map, Done)
            /\ Table(printed, Done)' <=> Table(printed, Done)
            BY <1>2, <2>1 DEF Table, Once, Counted, Complete, CountOf
      <2> QED BY <1>2, <2>2 DEF TableInv, InOrder
<1>3. ASSUME NEW t \in Counters, Lock(t) \/ Return(t) \/ HASH_FIND_STR(t) PROVE TableInv'
      BY <1>2, <1>3 DEF Lock, Return, HASH_FIND_STR
<1>4. CASE count_words_seq \/ Launch \/ count_words_parallel \/ UNCHANGED countVars
      BY <1>2, <1>4 DEF count_words_seq, Launch, count_words_parallel, countVars
<1>5. CASE Sort
      <2>1. PICK q \in Bijection(DOMAIN map, DOMAIN map) : map' = [k \in DOMAIN map |-> map[q[k]]]
            BY <1>5 DEF Sort
      <2>2. UNCHANGED <<words, next, printed>> /\ where = "sort"
            BY <1>5 DEF Sort
      <2> DEFINE n == Len(map)
      <2>3. n \in Nat /\ DOMAIN map = 1..n
            BY EntryTypes
      <2>4. Len(map') = n /\ \A k \in 1..n : map'[k] = map[q[k]]
            BY <2>1, <2>3
      <2>5. q \in Bijection(1..n, 1..n) /\ Len(map) = n
            BY <2>3
      <2>6. Table(map', Done)
            <3> HIDE DEF n
            <3> QED BY <2>2, <2>3, <2>4, <2>5, SortTable DEF TableInv
      <2>7. Table(map, Done)'
            BY <2>2, <2>6, SameDone, SameTable
      <2>8. InOrder(map)'
            BY <1>5, <2>4 DEF Sort, InOrder
      <2>9. ASSUME map = <<>> PROVE Table(printed, Done)' /\ InOrder(printed)'
            <3>1. printed' = map' /\ UNCHANGED <<words, next>>
                  <4>1. Len(map) = 0
                        BY <2>9
                  <4>2. map' = [k \in 1..0 |-> map[q[k]]]
                        BY <2>1, <2>3, <4>1
                  <4> QED BY <2>2, <2>3, <4>1, <4>2 DEF TableInv
            <3> QED BY <2>7, <2>8, <3>1 DEF Table, Once, Counted, Complete, InOrder
      <2> QED BY <1>5, <2>2, <2>7, <2>8, <2>9 DEF TableInv, Sort
<1>6. CASE PrintAndDelete
      <2>1. UNCHANGED <<words, next>> /\ printed' = map /\ where = "print" /\ where' = "done"
            BY <1>6 DEF PrintAndDelete
      <2>2. Done' = Done
            BY <2>1, SameDone
      <2>3. Table(printed, Done)'
            <3>1. Table(map, Done)
                  BY <2>1 DEF TableInv
            <3>2. Once(printed)'
                  BY <2>1, <3>1 DEF Table, Once
            <3>3. Counted(printed, Done)'
                  BY <2>1, <2>2, <3>1 DEF Table, Counted, CountOf
            <3>4. Complete(printed, Done)'
                  BY <2>1, <2>2, <3>1 DEF Table, Complete
            <3> QED BY <3>2, <3>3, <3>4 DEF Table
      <2> QED BY <2>1, <2>3 DEF TableInv, InOrder
<1> QED BY <1>1, <1>3, <1>4, <1>5, <1>6 DEF CountNext, Counters, add_word_counts_in_chunk

-----------------------------------------------------------------------------
LEMMA ExactFromTable == CountInv => CountsExact
<1> SUFFICES ASSUME CountInv PROVE CountsExact
    OBVIOUS
<1> USE DEF CountInv
<1>1. ASSUME where \notin {"count", "launch", "join"}
      PROVE  Done = 1..Len(words) /\ (launched > 0 => Len(words) <= 1)
      BY <1>1, AllDone DEF PlaceInv
<1>2. launched > 0 /\ where \notin {"launch", "join"} => Len(words) <= 1
      BY <1>1 DEF PlaceInv
<1>3. ASSUME where = "done"
      PROVE  /\ \A w \in Word : LET n == Cardinality({k \in DOMAIN words : words[k] = w})
                                IN  n > 0 => [word |-> w, count |-> n] \in ToSet(printed)
             /\ Len(printed) = Cardinality(ToSet(words))
             /\ \A k \in 2..Len(printed) : printed[k - 1].word < printed[k].word
      <2> DEFINE N == Len(printed)
                 L == Len(words)
      <2>1. /\ Done = DOMAIN words /\ L \in Nat /\ DOMAIN words = 1..L
            /\ N \in Nat /\ DOMAIN printed = 1..N
            /\ \A k \in 1..N : printed[k] \in [word : Word, count : Nat]
            BY <1>1, <1>3, EntryTypes, LenProperties, ElementOfSeq DEF CountTypes
      <2>2. /\ \A k, l \in 1..N : printed[k].word = printed[l].word => k = l
            /\ \A k \in 1..N : /\ printed[k].count = CountOf(Done, printed[k].word)
                               /\ \E d \in 1..L : words[d] = printed[k].word
            /\ \A d \in 1..L : \E k \in 1..N : printed[k].word = words[d]
            <3>1. Once(printed) /\ Counted(printed, Done) /\ Complete(printed, Done)
                  BY <1>3 DEF TableInv, Table
            <3>2. Done = 1..L
                  BY <2>1
            <3>3. \A k, l \in 1..N : printed[k].word = printed[l].word => k = l
                  BY <3>1 DEF Once
            <3>4. \A k \in 1..N : /\ printed[k].count = CountOf(Done, printed[k].word)
                                  /\ \E d \in 1..L : words[d] = printed[k].word
                  BY <3>1, <3>2 DEF Counted
            <3>5. \A d \in 1..L : \E k \in 1..N : printed[k].word = words[d]
                  BY <3>1, <3>2 DEF Complete
            <3> QED BY <3>3, <3>4, <3>5
      <2>3. ASSUME NEW w \in Word, CountOf(Done, w) > 0
            PROVE  [word |-> w, count |-> CountOf(Done, w)] \in ToSet(printed)
            <3>1. PICK d \in 1..L : words[d] = w
                  <4>1. IsFiniteSet(Done) /\ Done = 1..L
                        BY <2>1, DoneIs
                  <4>2. 0 \notin Done
                        BY <2>1
                  <4>3. (\A d \in Done : words[d] # w) => CountOf(Done, w) = 0
                        BY <4>1, <4>2, CountMore
                  <4> QED BY <2>3, <4>1, <4>3
            <3>2. PICK k \in 1..N : printed[k].word = w
                  BY <2>2, <3>1
            <3>3. printed[k] = [word |-> w, count |-> CountOf(Done, w)]
                  BY <2>1, <2>2, <3>2
            <3> QED BY <2>1, <3>3 DEF ToSet
      <2>4. Len(printed) = Cardinality(ToSet(words))
            <3> DEFINE f == [k \in 1..N |-> printed[k].word]
            <3>1. ToSet(words) = {words[d] : d \in 1..L}
                  BY <2>1 DEF ToSet
            <3>2. f \in Bijection(1..N, ToSet(words))
                  <4> HIDE DEF N, L
                  <4>1. f \in [1..N -> ToSet(words)]
                        BY <2>2, <3>1
                  <4>2. IsInjective(f)
                        BY <2>2 DEF IsInjective
                  <4>3. \A w \in ToSet(words) : \E k \in 1..N : f[k] = w
                        BY <2>2, <3>1
                  <4> QED BY <4>1, <4>2, <4>3 DEF Bijection, Injection, Surjection
            <3>3. IsFiniteSet(1..N) /\ Cardinality(1..N) = N
                  <4>1. N \in Nat /\ N \in Int /\ 1 \in Int
                        BY <2>1
                  <4> HIDE DEF N
                  <4> QED BY <4>1, FS_Interval
            <3> HIDE DEF f, N
            <3>4. Cardinality(ToSet(words)) = N
                  BY <3>2, <3>3, FS_Bijection DEF ExistsBijection
            <3> QED BY <3>4 DEF N
      <2>5. ASSUME NEW k \in 2..N PROVE printed[k - 1].word < printed[k].word
            <3>1. k - 1 \in 1..N /\ k \in 1..N /\ k - 1 # k
                  BY <2>1
            <3>2. printed[k - 1].word # printed[k].word
                  BY <2>2, <3>1
            <3>3. printed[k - 1].word \in Nat /\ printed[k].word \in Nat
                  BY <2>1, <3>1, WordCountAssumption
            <3>4. printed[k - 1].word <= printed[k].word
                  BY <1>3 DEF TableInv, InOrder
            <3> DEFINE a == printed[k - 1].word
                       b == printed[k].word
            <3> HIDE DEF a, b
            <3>5. a # b /\ a \in Nat /\ b \in Nat /\ a <= b
                  BY <3>2, <3>3, <3>4 DEF a, b
            <3>6. a < b
                  BY <3>5
            <3> QED BY <3>6 DEF a, b
      <2>6. \A w : CountOf(Done, w) = Cardinality({k \in DOMAIN words : words[k] = w})
            BY <2>1 DEF CountOf
      <2> HIDE DEF N, L
      <2> QED BY <2>3, <2>4, <2>5, <2>6 DEF N
<1> QED BY <1>2, <1>3 DEF CountsExact

(* CountsExact: what is printed has every word once, in order, with its    *)
(* count; and threads that keep the mutex return only where there is at    *)
(* most one word.                                                          *)
THEOREM CountsAreExact == CountSpec => []CountsExact
<1>1. CountInit => CountInv
      BY InitPlaces, InitTable DEF CountInv
<1>2. CountInv /\ [CountNext]_countVars => CountInv'
      BY StepTypes, StepPlaces, StepLock, StepFound, StepTable DEF CountInv
<1>3. CountInv => CountsExact
      BY ExactFromTable
<1> QED BY <1>1, <1>2, <1>3, PTL DEF CountSpec
=============================================================================
