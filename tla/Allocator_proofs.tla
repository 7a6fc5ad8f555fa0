-------------------------- MODULE Allocator_proofs --------------------------
(***************************************************************************)
(* The allocators of lecture/test2, for any sizes of header, increment,    *)
(* limit and requests, and any number of blocks.                           *)
(***************************************************************************)
EXTENDS Allocator, SequenceTheorems, FiniteSetTheorems, TLAPS

-----------------------------------------------------------------------------
(* Induction, for a set of numbers: a set that has 0 and with each number  *)
(* the next has them all.  (If m were missing, adding 1 would be an        *)
(* injection of the part below m into itself without 0.)                   *)

LEMMA SetInduction ==
  ASSUME NEW S, 0 \in S, \A n \in Nat : n \in S => n + 1 \in S, NEW m \in Nat
  PROVE  m \in S
<1> SUFFICES ASSUME m \notin S PROVE FALSE
    OBVIOUS
<1> DEFINE F == S \cap (0..m)
           f == [n \in F |-> n + 1]
<1>1. IsFiniteSet(F)
      <2>1. IsFiniteSet(0..m)
            BY FS_Interval
      <2> QED BY <2>1, FS_Subset
<1>2. \A n \in F : n + 1 \in F
      OBVIOUS
<1>3. f \in Injection(F, F \ {0})
      <2>1. f \in [F -> F \ {0}]
            BY <1>2
      <2>2. IsInjective(f)
            BY DEF IsInjective
      <2> QED BY <2>1, <2>2 DEF Injection
<1>4. 0 \in F
      OBVIOUS
<1> HIDE DEF F, f
<1>5. IsFiniteSet(F \ {0}) /\ Cardinality(F \ {0}) = Cardinality(F) - 1 /\ Cardinality(F) \in Nat
      BY <1>1, <1>4, FS_RemoveElement, FS_CardinalityType
<1>6. Cardinality(F) <= Cardinality(F \ {0})
      BY <1>3, <1>5, FS_Injection
<1> QED BY <1>5, <1>6

LEMMA Least ==
  ASSUME NEW S, S \subseteq Nat, S # {}
  PROVE  \E m \in S : \A n \in S : m <= n
<1> SUFFICES ASSUME \A m \in S : \E n \in S : ~(m <= n) PROVE FALSE
    OBVIOUS
<1> DEFINE B == {k \in Nat : \A n \in S : k <= n}
<1>1. 0 \in B
      OBVIOUS
<1>2. ASSUME NEW k \in Nat, k \in B PROVE k + 1 \in B
      <2>1. k \notin S
            BY <1>2
      <2> QED BY <1>2, <2>1
<1> HIDE DEF B
<1>3. \A k \in Nat : k \in B
      BY <1>1, <1>2, SetInduction
<1>4. PICK m \in S : m \in Nat
      OBVIOUS
<1>5. m + 1 \in B
      BY <1>3, <1>4
<1> QED BY <1>4, <1>5 DEF B

(* A step that stays in T can be repeated.                                 *)
Runs(T, G, h, N) == \E g \in [0..N -> T] : g[0] = h /\ \A i \in 1..N : g[i] = G[g[i - 1]]

LEMMA Repeated ==
  ASSUME NEW T, NEW G \in [T -> T], NEW h \in T, NEW N \in Nat
  PROVE  Runs(T, G, h, N)
<1> DEFINE S == {n \in Nat : \E g \in [0..n -> T] : g[0] = h /\ \A i \in 1..n : g[i] = G[g[i - 1]]}
<1>1. 0 \in S
      <2> DEFINE g == [i \in 0..0 |-> h]
      <2>1. g \in [0..0 -> T] /\ g[0] = h /\ \A i \in 1..0 : g[i] = G[g[i - 1]]
            OBVIOUS
      <2> QED BY <2>1
<1>2. ASSUME NEW n \in Nat, n \in S PROVE n + 1 \in S
      <2>1. PICK g \in [0..n -> T] : g[0] = h /\ \A i \in 1..n : g[i] = G[g[i - 1]]
            BY <1>2
      <2> DEFINE f == [i \in 0..(n + 1) |-> IF i = n + 1 THEN G[g[n]] ELSE g[i]]
      <2>2. G[g[n]] \in T
            OBVIOUS
      <2>3. f \in [0..(n + 1) -> T]
            BY <2>2
      <2>4. \A i \in 0..n : f[i] = g[i]
            OBVIOUS
      <2>5. f[n + 1] = G[g[n]]
            OBVIOUS
      <2> HIDE DEF f
      <2>6. f[0] = h
            BY <2>1, <2>4
      <2>7. ASSUME NEW i \in 1..(n + 1) PROVE f[i] = G[f[i - 1]]
            <3>1. CASE i = n + 1
                  BY <3>1, <2>4, <2>5
            <3>2. CASE i # n + 1
                  <4>1. i \in 1..n /\ i - 1 \in 0..n /\ i \in 0..n
                        BY <3>2
                  <4> QED BY <4>1, <2>1, <2>4
            <3> QED BY <3>1, <3>2
      <2> QED BY <2>3, <2>6, <2>7
<1> HIDE DEF S
<1>3. N \in S
      BY <1>1, <1>2, SetInduction
<1> QED BY <1>3 DEF S, Runs

(* The least pair, in the order of the first component and then of the     *)
(* second.                                                                 *)
LEMMA LeastPair ==
  ASSUME NEW P, P \subseteq Nat \X Nat, P # {}
  PROVE  \E p \in P : \A q \in P : p[1] < q[1] \/ (p[1] = q[1] /\ p[2] <= q[2])
<1> DEFINE A == {q[1] : q \in P}
<1>1. PICK a \in A : \A c \in A : a <= c
      <2>1. A \subseteq Nat /\ A # {}
            OBVIOUS
      <2> HIDE DEF A
      <2> QED BY <2>1, Least
<1> DEFINE B == {q[2] : q \in {r \in P : r[1] = a}}
<1>2. PICK b \in B : \A c \in B : b <= c
      <2>1. B \subseteq Nat /\ B # {}
            OBVIOUS
      <2> HIDE DEF A, B
      <2> QED BY <2>1, Least
<1>3. PICK p \in P : p[1] = a /\ p[2] = b
      OBVIOUS
<1>4. ASSUME NEW q \in P PROVE p[1] < q[1] \/ (p[1] = q[1] /\ p[2] <= q[2])
      <2>1. q[1] \in A /\ (q[1] = a => q[2] \in B)
            OBVIOUS
      <2>2. p[1] \in Nat /\ q[1] \in Nat
            OBVIOUS
      <2>3. a <= q[1]
            BY <2>1, <1>1
      <2>4. q[1] = a => b <= q[2]
            BY <2>1, <1>2
      <2> QED BY <1>3, <2>2, <2>3, <2>4
<1> QED BY <1>4

-----------------------------------------------------------------------------
(* Memory: a header and what the caller writes reach from H - 1 bytes in   *)
(* front of where they begin to where they end.                            *)

Sizes == Nat \cup {Junk}

LEMMA ConstantsType == H \in Nat /\ H >= 1 /\ INCREMENT \in Nat /\ INCREMENT >= 1 /\ Memory \in Nat
                       /\ Limit \subseteq Nat /\ Request \subseteq Nat
BY AllocatorAssumption DEF AllocatorAssumption

LEMMA HeaderAt ==
  ASSUME NEW s \in [Addr -> Sizes], NEW a \in Addr, NEW v \in Nat
  PROVE  /\ Header(s, a, v) \in [Addr -> Sizes]
         /\ Header(s, a, v)[a] = v
         /\ \A x \in Addr : x + H <= a \/ a + H <= x => Header(s, a, v)[x] = s[x]
<1>1. H \in Nat /\ H >= 1 /\ Memory \in Nat
      BY ConstantsType
<1>2. ASSUME NEW x \in Addr, x + H <= a \/ a + H <= x PROVE Header(s, a, v)[x] = s[x]
      <2>1. x # a /\ x - a \notin (1 - H)..(H - 1)
            BY <1>1, <1>2 DEF Addr
      <2> QED BY <2>1 DEF Header
<1>3. Header(s, a, v)[a] = v
      BY DEF Header
<1>4. Header(s, a, v) \in [Addr -> Sizes]
      <2>1. \A x \in Addr : (IF x = a THEN v ELSE IF x - a \in (1 - H)..(H - 1) THEN Junk ELSE s[x])
                            \in Sizes
            BY DEF Sizes
      <2> QED BY <2>1 DEF Header
<1> QED BY <1>2, <1>3, <1>4

LEMMA FilledAt ==
  ASSUME NEW s \in [Addr -> Sizes], NEW a \in Nat, NEW n \in Nat
  PROVE  /\ Filled(s, a, n) \in [Addr -> Sizes]
         /\ \A x \in Addr : x + H <= a \/ a + n <= x => Filled(s, a, n)[x] = s[x]
<1>1. H \in Nat /\ H >= 1 /\ Memory \in Nat
      BY ConstantsType
<1>2. ASSUME NEW x \in Addr, x + H <= a \/ a + n <= x PROVE Filled(s, a, n)[x] = s[x]
      <2>1. ~(x + H > a /\ x < a + n)
            BY <1>1, <1>2 DEF Addr
      <2> QED BY <2>1 DEF Filled
<1>3. \A x \in Addr : (IF x + H > a /\ x < a + n THEN Junk ELSE s[x]) \in Sizes
      BY DEF Sizes
<1> QED BY <1>2, <1>3 DEF Filled

-----------------------------------------------------------------------------
(* Chunks.  Before the first dealloc() they follow one another up to the   *)
(* rest of the heap, which is one chunk or gone.                           *)

Chain(S, s, e) ==
  \A a \in S : /\ s[a] \in Nat /\ H <= s[a] /\ a + s[a] <= e
               /\ a + s[a] \in S \cup {e}
               /\ \A c \in S : a < c => a + s[a] <= c

LEMMA ChainGrows ==
  ASSUME NEW S, S \subseteq Nat, NEW s, NEW t, NEW e \in Nat, Chain(S, s, e),
         \A a \in S : t[a] = s[a], t[e] \in Nat, H <= t[e]
  PROVE  Chain(S \cup {e}, t, e + t[e])
<1>1. H \in Nat /\ H >= 1
      BY ConstantsType
<1> DEFINE m == t[e]
<1>2. m \in Nat /\ H <= m
      OBVIOUS
<1> HIDE DEF m
<1>3. ASSUME NEW a \in S
      PROVE  /\ t[a] \in Nat /\ H <= t[a] /\ a + t[a] <= e /\ a + t[a] \in S \cup {e}
             /\ a < e /\ a + t[a] <= e + m
             /\ \A c \in S \cup {e} : a < c => a + t[a] <= c
      <2>1. /\ t[a] \in Nat /\ H <= t[a] /\ a + t[a] <= e /\ a + t[a] \in S \cup {e}
            /\ \A c \in S : a < c => a + t[a] <= c
            BY DEF Chain
      <2>2. a \in Nat
            OBVIOUS
      <2> QED BY <1>1, <1>2, <2>1, <2>2
<1>4. \A c \in S \cup {e} : ~(e < c)
      BY <1>3
<1>5. e + t[e] = e + m
      BY DEF m
<1> QED BY <1>2, <1>3, <1>4, <1>5 DEF Chain, m

(* In general they tile the heap: the only chunk whose size field may leave*)
(* out the last H bytes is the rest, and the only one that may be empty.   *)
Ends(S, b) == S \cup {b} \cup (IF b \in S THEN {} ELSE {b - H})

Tile(S, s, b, a) ==
  /\ s[a] \in Nat /\ a + s[a] <= b
  /\ a + H <= b \/ a = b
  /\ a + s[a] \in Ends(S, b)
  /\ s[a] = 0 => a = b \/ (a = b - H /\ b \notin S)
  /\ \A c \in S : a < c => a + H <= c /\ a + s[a] <= c

Tiled(S, s, b) == \A a \in S : Tile(S, s, b, a)

LEMMA ChainTiles ==
  ASSUME NEW S, S \subseteq Nat, NEW s, NEW b \in Nat, Chain(S, s, b)
  PROVE  Tiled(S, s, b)
<1>1. H \in Nat /\ H >= 1
      BY ConstantsType
<1>2. ASSUME NEW a \in S
      PROVE  /\ s[a] \in Nat /\ a + s[a] <= b /\ a + H <= b /\ a + s[a] \in S \cup {b} /\ s[a] # 0
             /\ \A c \in S : a < c => a + H <= c /\ a + s[a] <= c
      <2>1. /\ s[a] \in Nat /\ H <= s[a] /\ a + s[a] <= b /\ a + s[a] \in S \cup {b}
            /\ \A c \in S : a < c => a + s[a] <= c
            BY DEF Chain
      <2>2. a \in Nat
            OBVIOUS
      <2> QED BY <1>1, <2>1, <2>2
<1> QED BY <1>2 DEF Tiled, Tile, Ends

LEMMA ChainAndRestTile ==
  ASSUME NEW S, S \subseteq Nat, NEW s, NEW b \in Nat, NEW r \in Nat, Chain(S, s, r),
         s[r] \in Nat, r + s[r] + H = b \/ (r = b /\ s[r] = 0)
  PROVE  Tiled(S \cup {r}, s, b) /\ r \notin S /\ \A a \in S : a < r
<1>1. H \in Nat /\ H >= 1
      BY ConstantsType
<1> DEFINE m == s[r]
<1>2. m \in Nat /\ (r + m + H = b \/ (r = b /\ m = 0))
      OBVIOUS
<1> HIDE DEF m
<1>3. ASSUME NEW a \in S
      PROVE  /\ s[a] \in Nat /\ a + s[a] <= b /\ a + H <= b /\ a + s[a] \in S \cup {r} /\ s[a] # 0
             /\ a < r
             /\ \A c \in S \cup {r} : a < c => a + H <= c /\ a + s[a] <= c
      <2>1. /\ s[a] \in Nat /\ H <= s[a] /\ a + s[a] <= r /\ a + s[a] \in S \cup {r}
            /\ \A c \in S : a < c => a + s[a] <= c
            BY DEF Chain
      <2>2. a \in Nat
            OBVIOUS
      <2>3. r <= b
            BY <1>1, <1>2
      <2> QED BY <1>1, <2>1, <2>2, <2>3
<1>4. \A c \in S \cup {r} : ~(r < c)
      BY <1>3
<1>5. /\ r + m <= b /\ (r + H <= b \/ r = b)
      /\ m = 0 => r = b \/ (r = b - H /\ b \notin S \cup {r})
      <2>1. r = b - H => b \notin S \cup {r}
            BY <1>1, <1>3
      <2> QED BY <1>1, <1>2, <2>1
<1>6. r + m \in Ends(S \cup {r}, b)
      <2>1. CASE r = b /\ m = 0
            BY <2>1 DEF Ends
      <2>2. CASE r + m + H = b
            <3>1. r + m = b - H /\ r < b
                  BY <2>2, <1>1, <1>2
            <3>2. b \notin S \cup {r}
                  BY <1>3, <3>1
            <3> QED BY <3>1, <3>2 DEF Ends
      <2> QED BY <1>2, <2>1, <2>2
<1> QED BY <1>2, <1>3, <1>4, <1>5, <1>6 DEF Tiled, Tile, Ends, m

(* Where a chunk ends, its header counted.                                 *)
EndOf(S, s, b, a) == a + s[a] + IF a + s[a] = b - H /\ b - H \notin S THEN H ELSE 0

LEMMA TilesTouch ==
  ASSUME NEW S, S \subseteq Nat, NEW s, NEW b \in Nat, Tiled(S, s, b), NEW a \in S
  PROVE  /\ EndOf(S, s, b, a) \in S \cup {b} /\ a + s[a] <= EndOf(S, s, b, a)
         /\ EndOf(S, s, b, a) \in Nat /\ EndOf(S, s, b, a) <= b
         /\ \A c \in S : c <= a \/ EndOf(S, s, b, a) <= c
<1>1. H \in Nat /\ H >= 1
      BY ConstantsType
<1> DEFINE m == s[a]
<1>2. /\ m \in Nat /\ a + m <= b /\ a + m \in Ends(S, b)
      /\ \A c \in S : a < c => a + m <= c
      BY DEF Tiled, Tile
<1>3. \A c \in S : c + H <= b \/ c = b
      BY DEF Tiled, Tile
<1> HIDE DEF m
<1>4. a \in Nat
      OBVIOUS
<1>5. CASE a + m = b - H /\ b - H \notin S
      <2>1. EndOf(S, s, b, a) = b
            BY <1>1, <1>2, <1>4, <1>5 DEF EndOf, m
      <2>2. b \notin S \/ b \in S
            OBVIOUS
      <2>3. \A c \in S : c <= a \/ b <= c
            <3> SUFFICES ASSUME NEW c \in S, a < c PROVE b <= c
                BY <1>4
            <3>1. a + m <= c /\ c # b - H /\ c \in Nat
                  BY <1>2, <1>5
            <3> QED BY <3>1, <1>1, <1>3, <1>5
      <2> QED BY <1>2, <1>4, <2>1, <2>3 DEF m
<1>6. CASE ~(a + m = b - H /\ b - H \notin S)
      <2>1. EndOf(S, s, b, a) = a + m
            BY <1>1, <1>2, <1>4, <1>6 DEF EndOf, m
      <2>2. a + m \in S \cup {b}
            BY <1>2, <1>6 DEF Ends
      <2>3. \A c \in S : c <= a \/ a + m <= c
            BY <1>2, <1>4
      <2> QED BY <1>2, <1>4, <2>1, <2>2, <2>3 DEF m
<1> QED BY <1>5, <1>6

(* A chunk is split; there is room for the second header before the next   *)
(* chunk.                                                                  *)
IsSplit(S, s, t, b, a, n, d) ==
  /\ S \subseteq Nat /\ b \in Nat /\ Tiled(S, s, b)
  /\ a \in S /\ n \in Nat /\ H <= n /\ d \in Nat /\ d = a + n
  /\ d + H <= EndOf(S, s, b, a) /\ n <= s[a]
  /\ t[a] = n /\ t[d] = s[a] - n /\ \A c \in S \ {a} : t[c] = s[c]

LEMMA SplitTiles ==
  ASSUME NEW S, NEW s, NEW t, NEW b, NEW a, NEW n, NEW d, IsSplit(S, s, t, b, a, n, d)
  PROVE  Tiled(S \cup {d}, t, b) /\ d \notin S
<1> /\ S \subseteq Nat /\ b \in Nat /\ Tiled(S, s, b)
    /\ a \in S /\ n \in Nat /\ H <= n /\ d \in Nat /\ d = a + n
    /\ d + H <= EndOf(S, s, b, a) /\ n <= s[a]
    /\ t[a] = n /\ t[d] = s[a] - n /\ \A c \in S \ {a} : t[c] = s[c]
    BY DEF IsSplit
<1>1. H \in Nat /\ H >= 1
      BY ConstantsType
<1> DEFINE m == s[a]
           e == EndOf(S, s, b, a)
<1>2. /\ m \in Nat /\ a + m <= b /\ a + m \in Ends(S, b)
      /\ a \in Nat
      BY DEF Tiled, Tile
<1>3. e \in Nat /\ e <= b /\ a + m <= e /\ \A c \in S : c <= a \/ e <= c
      BY TilesTouch
<1>4. d + H <= e /\ n <= m /\ t[d] = m - n
      OBVIOUS
<1>5. a + m = d => e = b /\ d = b - H /\ b \notin S
      <2> SUFFICES ASSUME a + m = d PROVE e = b /\ d = b - H /\ b \notin S
          OBVIOUS
      <2>1. e # a + m
            BY <1>1, <1>3, <1>4
      <2>2. a + m = b - H /\ b - H \notin S /\ e = a + m + H
            BY <2>1, <1>1, <1>2 DEF EndOf, m, e
      <2>3. b \notin S
            BY <2>2, <1>1, <1>2 DEF Ends
      <2> QED BY <2>2, <2>3, <1>1, <1>2
<1> HIDE DEF m, e
<1>6. ASSUME NEW c \in S PROVE c + H <= d \/ d + H <= c
      <2>1. CASE c <= a
            BY <2>1, <1>1, <1>2
      <2>2. CASE e <= c
            BY <2>2, <1>1, <1>3, <1>4
      <2> QED BY <2>1, <2>2, <1>3
<1>7. d \notin S
      BY <1>1, <1>6
<1>8. Ends(S, b) \subseteq Ends(S \cup {d}, b)
      <2>1. d # b
            BY <1>1, <1>3, <1>4
      <2> QED BY <2>1 DEF Ends
<1>9. ASSUME NEW c \in S \ {a}
      PROVE  /\ t[c] \in Nat /\ c + t[c] <= b
             /\ c + H <= b \/ c = b
             /\ c + t[c] \in Ends(S \cup {d}, b)
             /\ t[c] = 0 => c = b \/ (c = b - H /\ b \notin S \cup {d})
             /\ \A x \in S \cup {d} : c < x => c + H <= x /\ c + t[c] <= x
      <2>1. /\ t[c] \in Nat /\ c + t[c] <= b
            /\ c + H <= b \/ c = b
            /\ c + t[c] \in Ends(S, b)
            /\ t[c] = 0 => c = b \/ (c = b - H /\ b \notin S)
            /\ \A x \in S : c < x => c + H <= x /\ c + t[c] <= x
            BY DEF Tiled, Tile
      <2>2. c < d => c + H <= d /\ c + t[c] <= d
            <3> SUFFICES ASSUME c < d PROVE c + H <= d /\ c + t[c] <= d
                OBVIOUS
            <3>1. c < a
                  BY <1>1, <1>2, <1>3, <1>4
            <3>2. c + H <= a /\ c + t[c] <= a
                  BY <2>1, <3>1
            <3> QED BY <3>2, <2>1, <1>1, <1>2
      <2>3. d # b
            BY <1>1, <1>3, <1>4
      <2> QED BY <2>1, <2>2, <2>3, <1>8
<1>10. /\ t[a] \in Nat /\ a + t[a] <= b /\ a + H <= b
       /\ a + t[a] \in Ends(S \cup {d}, b)
       /\ t[a] # 0
       /\ \A x \in S \cup {d} : a < x => a + H <= x /\ a + t[a] <= x
      <2>1. \A x \in S : a < x => d + H <= x
            BY <1>1, <1>2, <1>3, <1>4
      <2>2. \A x \in S : a < x => a + H <= x /\ a + n <= x
            BY <2>1, <1>1, <1>2
      <2> QED BY <2>2, <1>1, <1>2, <1>3, <1>4 DEF Ends
<1>11. /\ t[d] \in Nat /\ d + t[d] <= b /\ d + H <= b
       /\ d + t[d] \in Ends(S \cup {d}, b)
       /\ t[d] = 0 => d = b - H /\ b \notin S \cup {d}
       /\ \A x \in S \cup {d} : d < x => d + H <= x /\ d + t[d] <= x
      <2>1. t[d] \in Nat /\ d + t[d] = a + m
            BY <1>2, <1>4
      <2>2. \A x \in S : d < x => d + H <= x /\ a + m <= x
            BY <1>1, <1>2, <1>3, <1>6
      <2>3. t[d] = 0 => d = b - H /\ b \notin S \cup {d}
            <3>1. d # b
                  BY <1>1, <1>3, <1>4
            <3> QED BY <3>1, <1>2, <1>4, <1>5
      <2>4. d + t[d] \in Ends(S \cup {d}, b) /\ d + t[d] <= b /\ d + H <= b
            BY <2>1, <1>1, <1>2, <1>3, <1>4, <1>8
      <2>5. \A x \in S : d < x => d + H <= x /\ d + t[d] <= x
            BY <2>1, <2>2
      <2> QED BY <2>1, <2>3, <2>4, <2>5, <1>2
<1>12. \A c \in S \cup {d} : c = a \/ c = d \/ c \in S \ {a}
      OBVIOUS
<1>13. Tile(S \cup {d}, t, b, a) /\ Tile(S \cup {d}, t, b, d)
      <2>1. Tile(S \cup {d}, t, b, a)
            BY ONLY <1>10 DEF Tile
      <2>2. Tile(S \cup {d}, t, b, d)
            BY ONLY <1>11 DEF Tile
      <2> QED BY <2>1, <2>2
<1>14. \A c \in S \ {a} : Tile(S \cup {d}, t, b, c)
      BY ONLY <1>9 DEF Tile
<1> QED BY <1>6, <1>7, <1>12, <1>13, <1>14 DEF Tiled

(* Two chunks that touch become one.                                       *)
IsMerge(S, s, t, b, a, g) ==
  /\ S \subseteq Nat /\ b \in Nat /\ Tiled(S, s, b)
  /\ a \in S /\ g \in S /\ a # g /\ a + s[a] = g
  /\ t[a] = s[a] + s[g] /\ \A c \in S \ {a, g} : t[c] = s[c]

LEMMA MergeTiles ==
  ASSUME NEW S, NEW s, NEW t, NEW b, NEW a, NEW g, IsMerge(S, s, t, b, a, g)
  PROVE  Tiled(S \ {g}, t, b)
<1> /\ S \subseteq Nat /\ b \in Nat /\ Tiled(S, s, b)
    /\ a \in S /\ g \in S /\ a # g /\ a + s[a] = g
    /\ t[a] = s[a] + s[g] /\ \A c \in S \ {a, g} : t[c] = s[c]
    BY DEF IsMerge
<1>1. H \in Nat /\ H >= 1
      BY ConstantsType
<1> DEFINE m == s[a]
           k == s[g]
<1>2. /\ m \in Nat /\ a \in Nat /\ m = s[a]
      /\ a + H <= b \/ a = b
      /\ \A x \in S : a < x => a + H <= x /\ a + m <= x
      BY DEF Tiled, Tile
<1>3. /\ k \in Nat /\ g \in Nat /\ g + k <= b /\ g + k \in Ends(S, b)
      /\ k = 0 => g = b \/ (g = b - H /\ b \notin S)
      /\ \A x \in S : g < x => g + H <= x /\ g + k <= x
      BY DEF Tiled, Tile
<1>4. a + m = g /\ t[a] = m + k
      OBVIOUS
<1> HIDE DEF m, k
<1>5. a < g /\ m > 0
      BY <1>2, <1>3, <1>4
<1>6. ASSUME NEW x \in Nat, x \in Ends(S, b), x # g PROVE x \in Ends(S \ {g}, b)
      BY <1>6 DEF Ends
<1>7. g + k \in Ends(S \ {g}, b)
      <2>1. CASE k = 0
            <3>1. g = b \/ (g = b - H /\ b \notin S)
                  BY <2>1, <1>3
            <3>2. g + k = g
                  BY <2>1, <1>3
            <3> QED BY <3>1, <3>2 DEF Ends
      <2>2. CASE k # 0
            BY <2>2, <1>3, <1>6
      <2> QED BY <2>1, <2>2
<1>8. ASSUME NEW c \in S \ {a, g}
      PROVE  /\ t[c] \in Nat /\ c + t[c] <= b
             /\ c + H <= b \/ c = b
             /\ c + t[c] \in Ends(S \ {g}, b)
             /\ t[c] = 0 => c = b \/ (c = b - H /\ b \notin S \ {g})
             /\ \A x \in S \ {g} : c < x => c + H <= x /\ c + t[c] <= x
      <2>1. /\ t[c] \in Nat /\ c + t[c] <= b
            /\ c + H <= b \/ c = b
            /\ c + t[c] \in Ends(S, b)
            /\ t[c] = 0 => c = b \/ (c = b - H /\ b \notin S)
            /\ \A x \in S : c < x => c + H <= x /\ c + t[c] <= x
            BY DEF Tiled, Tile
      <2>2. c \in Nat /\ c # a /\ c # g
            OBVIOUS
      <2>3. c + t[c] # g
            <3>1. c < a => c + t[c] <= a
                  BY <2>1
            <3>2. a < c => g <= c
                  BY <1>2, <1>4
            <3> QED BY <3>1, <3>2, <2>1, <2>2, <1>2, <1>3, <1>5
      <2>4. c + t[c] \in Ends(S \ {g}, b)
            <3>1. c + t[c] \in Nat
                  BY <2>1, <2>2
            <3> QED BY <3>1, <2>1, <2>3, <1>6
      <2> QED BY <2>1, <2>4
<1>9. /\ t[a] \in Nat /\ a + t[a] <= b
      /\ a + H <= b \/ a = b
      /\ a + t[a] \in Ends(S \ {g}, b)
      /\ t[a] # 0
      /\ \A x \in S \ {g} : a < x => a + H <= x /\ a + t[a] <= x
      <2>1. t[a] \in Nat /\ a + t[a] = g + k /\ t[a] # 0
            BY <1>2, <1>3, <1>4, <1>5
      <2>2. \A x \in S \ {g} : a < x => g + k <= x
            BY <1>2, <1>3, <1>4
      <2> QED BY <2>1, <2>2, <1>2, <1>3, <1>7
<1>10. \A c \in S \ {g} : c = a \/ c \in S \ {a, g}
      OBVIOUS
<1>11. Tile(S \ {g}, t, b, a)
      BY ONLY <1>9 DEF Tile
<1>12. \A c \in S \ {a, g} : Tile(S \ {g}, t, b, c)
      BY ONLY <1>8 DEF Tile
<1> QED BY <1>10, <1>11, <1>12 DEF Tiled

-----------------------------------------------------------------------------
(* The free list.                                                          *)

Distinct(f) == \A j, k \in DOMAIN f : f[j] = f[k] => j = k

LEMMA RemoveAtIs ==
  ASSUME NEW X, NEW f \in Seq(X), NEW g \in DOMAIN f
  PROVE  /\ RemoveAt(f, g) \in Seq(X)
         /\ Len(RemoveAt(f, g)) = Len(f) - 1
         /\ \A i \in 1..(Len(f) - 1) : RemoveAt(f, g)[i] = f[IF i < g THEN i ELSE i + 1]
<1> DEFINE u == SubSeq(f, 1, g - 1)
           v == SubSeq(f, g + 1, Len(f))
<1>1. DOMAIN f = 1..Len(f) /\ Len(f) \in Nat /\ g \in 1..Len(f)
      BY LenProperties
<1>2. u \in Seq(X) /\ Len(u) = g - 1 /\ \A i \in 1..(g - 1) : u[i] = f[i]
      <2>1. 1 \in 1..(Len(f) + 1) /\ g - 1 \in 0..Len(f)
            BY <1>1
      <2>2. \A i \in 1..(g - 1) : f[i] \in X
            BY <1>1, ElementOfSeq
      <2>3. u = [i \in 1..(g - 1) |-> f[i]]
            BY <1>1 DEF u
      <2> QED BY <2>2, <2>3, <1>1
<1>3. v \in Seq(X) /\ Len(v) = Len(f) - g /\ \A i \in 1..(Len(f) - g) : v[i] = f[g + i]
      <2>1. \A i \in 1..(Len(f) - g) : g + i \in 1..Len(f)
            BY <1>1
      <2>2. \A i \in 1..(Len(f) - g) : f[g + i] \in X
            BY <2>1, ElementOfSeq, <1>1
      <2>3. v = [i \in 1..(Len(f) - (g + 1) + 1) |-> f[i + (g + 1) - 1]]
            BY <1>1 DEF v
      <2>4. Len(f) - (g + 1) + 1 = Len(f) - g /\ \A i \in 1..(Len(f) - g) : i + (g + 1) - 1 = g + i
            BY <1>1
      <2> HIDE DEF v
      <2>5. v = [i \in 1..(Len(f) - g) |-> f[g + i]]
            BY <2>3, <2>4
      <2> DEFINE n == Len(f) - g
      <2>6. n \in Nat
            BY <1>1
      <2> HIDE DEF n
      <2>7. \A i \in 1..n : f[g + i] \in X
            BY <2>2 DEF n
      <2>8. v = [i \in 1..n |-> f[g + i]]
            BY <2>5 DEF n
      <2>9. v \in Seq(X) /\ Len(v) = n /\ \A i \in 1..n : v[i] = f[g + i]
            BY <2>6, <2>7, <2>8
      <2> QED BY <2>9 DEF n
<1>4. RemoveAt(f, g) = u \o v
      BY DEF RemoveAt, u, v
<1> HIDE DEF u, v
<1>5. u \o v \in Seq(X) /\ Len(u \o v) = Len(f) - 1
      <2>1. u \o v \in Seq(X) /\ Len(u \o v) = Len(u) + Len(v)
            BY <1>2, <1>3, ConcatProperties
      <2> QED BY <2>1, <1>1, <1>2, <1>3
<1>6. ASSUME NEW i \in 1..(Len(f) - 1) PROVE (u \o v)[i] = f[IF i < g THEN i ELSE i + 1]
      <2>1. CASE i < g
            <3>1. i \in 1..(g - 1) /\ i \in 1..(Len(u) + Len(v)) /\ i <= Len(u)
                  BY <2>1, <1>1, <1>2, <1>3
            <3> QED BY <3>1, <2>1, <1>2, <1>3, ConcatProperties
      <2>2. CASE ~(i < g)
            <3>1. /\ i - Len(u) \in 1..(Len(f) - g) /\ i \in 1..(Len(u) + Len(v)) /\ ~(i <= Len(u))
                  /\ g + (i - Len(u)) = i + 1
                  BY <2>2, <1>1, <1>2, <1>3
            <3>2. (u \o v)[i] = v[i - Len(u)]
                  BY <3>1, <1>2, <1>3, ConcatProperties
            <3>3. v[i - Len(u)] = f[i + 1]
                  BY <3>1, <1>3
            <3> QED BY <3>2, <3>3, <2>2
      <2> QED BY <2>1, <2>2
<1> QED BY <1>4, <1>5, <1>6

LEMMA RemoveAtTakes ==
  ASSUME NEW X, NEW f \in Seq(X), NEW g \in DOMAIN f, Distinct(f)
  PROVE  Distinct(RemoveAt(f, g)) /\ ToSet(RemoveAt(f, g)) = ToSet(f) \ {f[g]}
<1> DEFINE r == RemoveAt(f, g)
           at(i) == IF i < g THEN i ELSE i + 1
<1>1. DOMAIN f = 1..Len(f) /\ Len(f) \in Nat /\ g \in 1..Len(f)
      BY LenProperties
<1>2. DOMAIN r = 1..(Len(f) - 1) /\ \A i \in 1..(Len(f) - 1) : r[i] = f[at(i)]
      <2>1. r \in Seq(X) /\ Len(r) = Len(f) - 1
            BY RemoveAtIs
      <2> QED BY <2>1, RemoveAtIs, LenProperties
<1>3. \A i \in 1..(Len(f) - 1) : at(i) \in 1..Len(f) /\ at(i) # g
      BY <1>1
<1>4. \A i, j \in 1..(Len(f) - 1) : at(i) = at(j) => i = j
      BY <1>1
<1>5. \A j \in 1..Len(f) : j # g => \E i \in 1..(Len(f) - 1) : at(i) = j
      <2> SUFFICES ASSUME NEW j \in 1..Len(f), j # g
                   PROVE  \E i \in 1..(Len(f) - 1) : at(i) = j
          OBVIOUS
      <2>1. CASE j < g
            <3>1. j \in 1..(Len(f) - 1) /\ at(j) = j
                  BY <2>1, <1>1
            <3> QED BY <3>1
      <2>2. CASE ~(j < g)
            <3>1. j - 1 \in 1..(Len(f) - 1) /\ at(j - 1) = j
                  BY <2>2, <1>1
            <3> QED BY <3>1
      <2> QED BY <2>1, <2>2
<1> HIDE DEF at, r
<1>6. Distinct(r)
      BY <1>1, <1>2, <1>3, <1>4 DEF Distinct
<1>7. ToSet(r) = ToSet(f) \ {f[g]}
      <2>1. ToSet(r) = {f[at(i)] : i \in 1..(Len(f) - 1)}
            BY <1>2 DEF ToSet
      <2>2. ToSet(f) = {f[j] : j \in 1..Len(f)}
            BY <1>1 DEF ToSet
      <2>3. ASSUME NEW x \in ToSet(f) \ {f[g]} PROVE x \in {f[at(i)] : i \in 1..(Len(f) - 1)}
            <3>1. PICK j \in 1..Len(f) : x = f[j]
                  BY <2>2
            <3>2. j # g
                  BY <3>1
            <3> QED BY <3>1, <3>2, <1>5
      <2>4. ASSUME NEW x \in {f[at(i)] : i \in 1..(Len(f) - 1)} PROVE x \in ToSet(f) \ {f[g]}
            <3>1. PICK i \in 1..(Len(f) - 1) : x = f[at(i)]
                  OBVIOUS
            <3>2. x # f[g]
                  BY <3>1, <1>1, <1>3 DEF Distinct
            <3> QED BY <3>1, <3>2, <1>3, <2>2
      <2> QED BY <2>1, <2>3, <2>4
<1> QED BY <1>6, <1>7 DEF r

-----------------------------------------------------------------------------
(* Merging.                                                                *)

Listed == {h \in [free : Seq(Addr), size : [Addr -> Sizes]] :
             \A k \in DOMAIN h.free : h.size[h.free[k]] \in Nat}

NoTouch(h) == \A j, k \in DOMAIN h.free : ~Touch(h.size, h.free[j], h.free[k])

Joined(h, a, g) ==
  [free |-> RemoveAt(h.free, g),
   size |-> [h.size EXCEPT ![h.free[a]] = h.size[h.free[a]] + h.size[h.free[g]]]]

LEMMA MergeOnceIs ==
  ASSUME NEW h \in Listed
  PROVE  \/ NoTouch(h) /\ MergeOnce(h) = h
         \/ \E a, g \in DOMAIN h.free : Touch(h.size, h.free[a], h.free[g])
                                        /\ MergeOnce(h) = Joined(h, a, g)
<1> DEFINE f == h.free
           s == h.size
           P == {p \in (DOMAIN f) \X (DOMAIN f) : Touch(s, f[p[1]], f[p[2]])
                                                  \/ Touch(s, f[p[2]], f[p[1]])}
           p == CHOOSE p \in P : \A q \in P : p[1] < q[1] \/ (p[1] = q[1] /\ p[2] <= q[2])
           kept == IF Touch(s, f[p[1]], f[p[2]]) THEN p[1] ELSE p[2]
           gone == IF kept = p[1] THEN p[2] ELSE p[1]
<1>1. f \in Seq(Addr) /\ DOMAIN f = 1..Len(f) /\ Len(f) \in Nat /\ s \in [Addr -> Sizes]
      BY LenProperties DEF Listed
<1>2. MergeOnce(h) = IF P = {} THEN h
                     ELSE [free |-> RemoveAt(f, gone),
                           size |-> [s EXCEPT ![f[kept]] = @ + 0 + s[f[gone]]]]
      BY DEF MergeOnce, MergeWith
<1>3. CASE P = {}
      <2>1. \A j, k \in DOMAIN f : <<j, k>> \notin P
            BY <1>3
      <2>2. NoTouch(h)
            BY <2>1 DEF NoTouch
      <2> QED BY <1>2, <1>3, <2>2
<1>4. CASE P # {}
      <2>1. p \in P
            <3>1. P \subseteq Nat \X Nat
                  BY <1>1
            <3> HIDE DEF P
            <3>2. \E q \in P : \A r \in P : q[1] < r[1] \/ (q[1] = r[1] /\ q[2] <= r[2])
                  BY <3>1, <1>4, LeastPair
            <3> QED BY <3>2
      <2> HIDE DEF p
      <2>2. /\ p[1] \in DOMAIN f /\ p[2] \in DOMAIN f
            /\ Touch(s, f[p[1]], f[p[2]]) \/ Touch(s, f[p[2]], f[p[1]])
            BY <2>1
      <2>3. kept \in DOMAIN f /\ gone \in DOMAIN f /\ Touch(s, f[kept], f[gone])
            BY <2>2
      <2>4. MergeOnce(h) = [free |-> RemoveAt(f, gone),
                            size |-> [s EXCEPT ![f[kept]] = @ + 0 + s[f[gone]]]]
            BY <1>2, <1>4
      <2> HIDE DEF kept, gone, P
      <2>5. s[f[kept]] \in Nat /\ f[kept] \in Addr
            BY <2>3, <1>1, ElementOfSeq DEF Listed
      <2>6. [s EXCEPT ![f[kept]] = @ + 0 + s[f[gone]]]
              = [s EXCEPT ![f[kept]] = s[f[kept]] + s[f[gone]]]
            BY <2>5, <1>1
      <2>7. MergeOnce(h) = Joined(h, kept, gone)
            BY <2>4, <2>6 DEF Joined
      <2> QED BY <2>3, <2>7
<1> QED BY <1>3, <1>4

LEMMA JoinedIsListed ==
  ASSUME NEW h \in Listed, NEW a \in DOMAIN h.free, NEW g \in DOMAIN h.free
  PROVE  Joined(h, a, g) \in Listed /\ Len(Joined(h, a, g).free) = Len(h.free) - 1
<1> DEFINE f == h.free
           s == h.size
           t == [s EXCEPT ![f[a]] = s[f[a]] + s[f[g]]]
           r == RemoveAt(f, g)
<1>1. f \in Seq(Addr) /\ DOMAIN f = 1..Len(f) /\ Len(f) \in Nat /\ s \in [Addr -> Sizes]
      BY LenProperties DEF Listed
<1>2. \A k \in DOMAIN f : f[k] \in Addr /\ s[f[k]] \in Nat
      BY <1>1, ElementOfSeq DEF Listed
<1>3. t \in [Addr -> Sizes] /\ \A k \in DOMAIN f : t[f[k]] \in Nat
      <2> DEFINE v == s[f[a]] + s[f[g]]
      <2>1. v \in Nat
            BY <1>2
      <2> HIDE DEF v
      <2>2. [s EXCEPT ![f[a]] = v] \in [Addr -> Sizes]
            BY <1>1, <1>2, <2>1 DEF Sizes
      <2>3. \A k \in DOMAIN f : [s EXCEPT ![f[a]] = v][f[k]] \in Nat
            BY <1>1, <1>2, <2>1
      <2> QED BY <2>2, <2>3 DEF v
<1>4. r \in Seq(Addr) /\ Len(r) = Len(f) - 1 /\ DOMAIN r = 1..(Len(f) - 1)
      BY <1>1, RemoveAtIs, LenProperties
<1>5. \A i \in DOMAIN r : \E j \in DOMAIN f : r[i] = f[j]
      <2> SUFFICES ASSUME NEW i \in 1..(Len(f) - 1) PROVE \E j \in DOMAIN f : r[i] = f[j]
          BY <1>4
      <2>1. r[i] = f[IF i < g THEN i ELSE i + 1]
            BY <1>1, RemoveAtIs
      <2>2. (IF i < g THEN i ELSE i + 1) \in DOMAIN f
            BY <1>1
      <2> QED BY <2>1, <2>2
<1>6. Joined(h, a, g) = [free |-> r, size |-> t]
      BY DEF Joined
<1> HIDE DEF t, r
<1>7. [free |-> r, size |-> t] \in Listed
      BY <1>3, <1>4, <1>5 DEF Listed
<1> QED BY <1>4, <1>6, <1>7

(* coalesce_unsorted() goes on until no two chunks of the list touch, and  *)
(* what merging two of them preserves, it preserves.                       *)
LEMMA Coalesced ==
  ASSUME NEW T, T \subseteq Listed, \A h \in T : MergeOnce(h) \in T, NEW h \in T
  PROVE  coalesce_unsorted(h) \in T /\ NoTouch(coalesce_unsorted(h))
<1> DEFINE L == Len(h.free)
           G == [x \in T |-> MergeOnce(x)]
           R(g) == [i \in 0..L |-> IF i = 0 THEN h ELSE MergeOnce(g[i - 1])]
           M == CHOOSE g : g = R(g)
<1>1. L \in Nat
      BY LenProperties DEF Listed
<1>2. \E g : g = R(g)
      <2>1. G \in [T -> T]
            OBVIOUS
      <2> HIDE DEF G, L
      <2>2. PICK g \in [0..L -> T] : g[0] = h /\ \A i \in 1..L : g[i] = G[g[i - 1]]
            <3>1. Runs(T, G, h, L)
                  BY <2>1, <1>1, Repeated
            <3> QED BY <3>1 DEF Runs
      <2>3. ASSUME NEW i \in 1..L PROVE g[i] = MergeOnce(g[i - 1])
            <3>1. i - 1 \in 0..L
                  BY <1>1
            <3>2. g[i - 1] \in T
                  BY <3>1
            <3> QED BY <3>2, <2>2 DEF G
      <2>4. g = R(g)
            <3>1. \A i \in 0..L : g[i] = IF i = 0 THEN h ELSE MergeOnce(g[i - 1])
                  BY <2>2, <2>3, <1>1
            <3> QED BY <3>1
      <2> QED BY <2>4
<1>3. M = R(M)
      BY <1>2
<1>4. coalesce_unsorted(h) = M[L]
      BY DEF coalesce_unsorted
<1> HIDE DEF M
<1>5. M[0] = h /\ \A i \in 0..(L - 1) : M[i + 1] = MergeOnce(M[i])
      <2>1. M[0] = h
            BY <1>1, <1>3
      <2>2. ASSUME NEW i \in 0..(L - 1) PROVE M[i + 1] = MergeOnce(M[i])
            <3>1. i + 1 \in 0..L /\ i + 1 # 0 /\ (i + 1) - 1 = i
                  BY <1>1
            <3> QED BY <3>1, <1>3
      <2> QED BY <2>1, <2>2
<1> DEFINE S == {i \in Nat : i <= L => /\ M[i] \in T
                                       /\ NoTouch(M[i]) \/ Len(M[i].free) = L - i}
<1>6. 0 \in S
      BY <1>1, <1>5
<1>7. ASSUME NEW i \in Nat, i \in S PROVE i + 1 \in S
      <2> SUFFICES ASSUME i + 1 <= L
                   PROVE  /\ M[i + 1] \in T
                          /\ NoTouch(M[i + 1]) \/ Len(M[i + 1].free) = L - (i + 1)
          OBVIOUS
      <2>1. i \in 0..(L - 1) /\ i <= L
            BY <1>1
      <2>2. M[i] \in T /\ (NoTouch(M[i]) \/ Len(M[i].free) = L - i)
            BY <1>7, <2>1
      <2>3. M[i + 1] = MergeOnce(M[i])
            BY <1>5, <2>1
      <2>4. M[i + 1] \in T
            BY <2>2, <2>3
      <2>5. NoTouch(M[i + 1]) \/ Len(M[i + 1].free) = L - (i + 1)
            <3> DEFINE x == M[i]
            <3>1. x \in Listed
                  BY <2>2
            <3> HIDE DEF x
            <3>2. CASE NoTouch(x)
                  <4>1. MergeOnce(x) = x
                        BY <3>1, <3>2, MergeOnceIs DEF NoTouch
                  <4> QED BY <4>1, <3>2, <2>3 DEF x
            <3>3. CASE ~NoTouch(x)
                  <4>1. Len(x.free) = L - i
                        BY <3>3, <2>2 DEF x
                  <4>2. Len(MergeOnce(x).free) = Len(x.free) - 1
                        BY <3>1, <3>3, MergeOnceIs, JoinedIsListed
                  <4> QED BY <4>1, <4>2, <2>3, <1>1 DEF x
            <3> QED BY <3>2, <3>3
      <2> QED BY <2>4, <2>5
<1> HIDE DEF S
<1>8. L \in S
      BY <1>1, <1>6, <1>7, SetInduction
<1>9. M[L] \in T /\ (NoTouch(M[L]) \/ Len(M[L].free) = 0)
      BY <1>1, <1>8 DEF S
<1>10. Len(M[L].free) = 0 => NoTouch(M[L])
      <2> SUFFICES ASSUME Len(M[L].free) = 0 PROVE NoTouch(M[L])
          OBVIOUS
      <2>1. M[L].free \in Seq(Addr)
            BY <1>9 DEF Listed
      <2>2. DOMAIN M[L].free = 1..0
            BY <2>1, LenProperties
      <2> QED BY <2>2 DEF NoTouch
<1> QED BY <1>4, <1>9, <1>10

-----------------------------------------------------------------------------
(* The walk of alloc2.c keeps to the types.                                *)

WalkStates == {w \in [free : Seq(Addr), size : [Addr -> Sizes], i : Nat, coal : BOOLEAN] :
                 w.i >= 1 /\ \A k \in DOMAIN w.free : w.size[w.free[k]] \in Nat}

LEMMA WalkStateIs ==
  ASSUME NEW f \in Seq(Addr), NEW s \in [Addr -> Sizes], NEW i \in Nat, i >= 1,
         NEW c \in BOOLEAN, \A k \in DOMAIN f : s[f[k]] \in Nat
  PROVE  [free |-> f, size |-> s, i |-> i, coal |-> c] \in WalkStates
BY DEF WalkStates

LEMMA WalkForwardType ==
  ASSUME NEW w \in WalkStates, w.i <= Len(w.free)
  PROVE  WalkForward(w) \in WalkStates /\ WalkForward(w).i <= Len(WalkForward(w).free)
<1> DEFINE f == w.free
           s == w.size
           i == w.i
           r == RemoveAt(f, i + 1)
           t == [s EXCEPT ![f[i]] = s[f[i]] + H + s[f[i + 1]]]
<1>1. /\ f \in Seq(Addr) /\ DOMAIN f = 1..Len(f) /\ Len(f) \in Nat /\ s \in [Addr -> Sizes]
      /\ i \in Nat /\ i >= 1 /\ i <= Len(f) /\ w.coal \in BOOLEAN
      /\ w = [free |-> f, size |-> s, i |-> i, coal |-> w.coal]
      BY LenProperties DEF WalkStates
<1>2. \A k \in DOMAIN f : f[k] \in Addr /\ s[f[k]] \in Nat
      BY <1>1, ElementOfSeq DEF WalkStates
<1>3. CASE i < Len(f) /\ Behind(s, f[i], f[i + 1])
      <2>1. WalkForward(w) = [w EXCEPT !.size[f[i]] = @ + H + s[f[i + 1]],
                                       !.free = RemoveAt(@, i + 1), !.coal = TRUE]
            BY <1>3 DEF WalkForward
      <2>2. WalkForward(w) = [free |-> r, size |-> t, i |-> i, coal |-> TRUE]
            BY <2>1, <1>1
      <2>3. i + 1 \in DOMAIN f /\ i \in DOMAIN f
            BY <1>1, <1>3
      <2>4. r \in Seq(Addr) /\ Len(r) = Len(f) - 1 /\ DOMAIN r = 1..(Len(f) - 1)
            BY <1>1, <2>3, RemoveAtIs, LenProperties
      <2>5. \A k \in DOMAIN r : \E j \in DOMAIN f : r[k] = f[j]
            <3> SUFFICES ASSUME NEW k \in 1..(Len(f) - 1) PROVE \E j \in DOMAIN f : r[k] = f[j]
                BY <2>4
            <3>1. r[k] = f[IF k < i + 1 THEN k ELSE k + 1]
                  BY <1>1, <2>3, RemoveAtIs
            <3>2. (IF k < i + 1 THEN k ELSE k + 1) \in DOMAIN f
                  BY <1>1
            <3> QED BY <3>1, <3>2
      <2>6. s[f[i]] + H + s[f[i + 1]] \in Nat
            <3>1. s[f[i]] \in Nat /\ s[f[i + 1]] \in Nat /\ H \in Nat
                  BY <1>2, <2>3, ConstantsType
            <3> QED BY ONLY <3>1
      <2>7. t \in [Addr -> Sizes] /\ \A k \in DOMAIN f : t[f[k]] \in Nat
            BY <1>1, <1>2, <2>3, <2>6 DEF Sizes
      <2> HIDE DEF r, t, f, s, i
      <2>8. [free |-> r, size |-> t, i |-> i, coal |-> TRUE] \in WalkStates
            BY <1>1, <2>4, <2>5, <2>7, WalkStateIs
      <2>9. i <= Len(r)
            BY <1>1, <1>3, <2>4
      <2> QED BY <2>2, <2>8, <2>9
<1>4. CASE ~(i < Len(f) /\ Behind(s, f[i], f[i + 1]))
      <2>1. WalkForward(w) = w
            BY <1>4 DEF WalkForward
      <2> QED BY <2>1
<1> QED BY <1>3, <1>4

LEMMA WalkBackType ==
  ASSUME NEW w \in WalkStates, w.i <= Len(w.free)
  PROVE  WalkBack(w) \in WalkStates
<1> DEFINE o == w.free
           i == w.i
           f == IF i = 2 THEN Tail(o) ELSE o
           s == [w.size EXCEPT ![o[i]] = @ + H + w.size[o[i - 1]]]
           tail == Len(f) > 1 /\ s[f[2]] = 0 /\ Behind(s, f[1], f[2])
           t == [s EXCEPT ![f[1]] = @ + H]
           j == IF i = 2 THEN 1 ELSE i
<1>1. /\ o \in Seq(Addr) /\ DOMAIN o = 1..Len(o) /\ Len(o) \in Nat /\ w.size \in [Addr -> Sizes]
      /\ i \in Nat /\ i >= 1 /\ i <= Len(o) /\ w.coal \in BOOLEAN
      /\ w = [free |-> o, size |-> w.size, i |-> i, coal |-> w.coal]
      BY LenProperties DEF WalkStates
<1>2. \A k \in DOMAIN o : o[k] \in Addr /\ w.size[o[k]] \in Nat
      BY <1>1, ElementOfSeq DEF WalkStates
<1>3. CASE i > 1 /\ Behind(w.size, o[i], o[i - 1])
      <2>1. WalkBack(w) = [w EXCEPT !.size = IF tail THEN t ELSE s,
                                    !.free = IF tail THEN <<f[1]>> ELSE f,
                                    !.i = j, !.coal = TRUE]
            BY <1>3 DEF WalkBack
      <2> DEFINE F == IF tail THEN <<f[1]>> ELSE f
                 Z == IF tail THEN t ELSE s
      <2>2. WalkBack(w) = [free |-> F, size |-> Z, i |-> j, coal |-> TRUE]
            BY <2>1, <1>1
      <2>3. i \in DOMAIN o /\ i - 1 \in DOMAIN o
            BY <1>1, <1>3
      <2>4. w.size[o[i]] + H + w.size[o[i - 1]] \in Nat /\ o[i] \in Addr
            <3>1. w.size[o[i]] \in Nat /\ w.size[o[i - 1]] \in Nat /\ o[i] \in Addr /\ H \in Nat
                  BY <1>2, <2>3, ConstantsType
            <3> QED BY ONLY <3>1
      <2>5. s \in [Addr -> Sizes] /\ \A k \in DOMAIN o : s[o[k]] \in Nat
            BY <1>1, <1>2, <2>4 DEF Sizes
      <2>6. f \in Seq(Addr) /\ f # <<>> /\ \A k \in DOMAIN f : \E m \in DOMAIN o : f[k] = o[m]
            <3>1. CASE i = 2
                  <4>1. o # <<>>
                        BY <1>1, <3>1
                  <4>2. Tail(o) \in Seq(Addr) /\ Len(Tail(o)) = Len(o) - 1
                        BY <1>1, <4>1, HeadTailProperties
                  <4>3. \A k \in 1..(Len(o) - 1) : Tail(o)[k] = o[k + 1] /\ k + 1 \in DOMAIN o
                        BY <1>1, <4>1, HeadTailProperties
                  <4>4. DOMAIN Tail(o) = 1..(Len(o) - 1)
                        BY <4>2, LenProperties
                  <4>5. Tail(o) # <<>>
                        <5>1. Len(Tail(o)) # 0
                              <6>1. Len(o) \in Nat /\ i <= Len(o) /\ i = 2
                                    BY <1>1, <3>1
                              <6> HIDE DEF o, i
                              <6> QED BY <6>1, <4>2
                        <5>2. Len(<<>>) = 0
                              OBVIOUS
                        <5> QED BY <5>1, <5>2, Zenon
                  <4> QED BY <4>2, <4>3, <4>4, <4>5, <3>1
            <3>2. CASE i # 2
                  <4>1. o # <<>>
                        BY <1>1
                  <4> QED BY <1>1, <3>2, <4>1
            <3> QED BY <3>1, <3>2
      <2> HIDE DEF f
      <2>7. \A k \in DOMAIN f : f[k] \in Addr /\ s[f[k]] \in Nat
            BY <1>2, <2>5, <2>6
      <2> HIDE DEF s
      <2>8. 1 \in DOMAIN f
            <3>1. DOMAIN f = 1..Len(f) /\ Len(f) \in Nat /\ Len(f) # 0
                  BY <2>6, LenProperties, EmptySeq
            <3> QED BY <3>1
      <2>9. f[1] \in Addr /\ s[f[1]] + H \in Nat
            BY <2>7, <2>8, ConstantsType
      <2>10. t \in [Addr -> Sizes] /\ t[f[1]] \in Nat
            BY <2>5, <2>9 DEF Sizes
      <2>11. F \in Seq(Addr) /\ Z \in [Addr -> Sizes] /\ \A k \in DOMAIN F : Z[F[k]] \in Nat
            <3>1. CASE tail
                  <4>1. F = <<f[1]>> /\ Z = t
                        BY <3>1
                  <4>2. <<f[1]>> \in Seq(Addr) /\ DOMAIN <<f[1]>> = {1} /\ <<f[1]>>[1] = f[1]
                        BY <2>9
                  <4> HIDE DEF F, Z, t
                  <4> QED BY <4>1, <4>2, <2>10
            <3>2. CASE ~tail
                  <4>1. F = f /\ Z = s
                        BY <3>2
                  <4> HIDE DEF F, Z, t
                  <4> QED BY <4>1, <2>5, <2>6, <2>7
            <3> QED BY <3>1, <3>2
      <2>12. j \in Nat /\ j >= 1
            BY <1>1
      <2> HIDE DEF F, Z, j
      <2>13. [free |-> F, size |-> Z, i |-> j, coal |-> TRUE] \in WalkStates
            BY <2>11, <2>12, WalkStateIs
      <2> QED BY <2>2, <2>13
<1>4. CASE ~(i > 1 /\ Behind(w.size, o[i], o[i - 1]))
      <2>1. WalkBack(w) = w
            BY <1>4 DEF WalkBack
      <2> QED BY <2>1
<1> QED BY <1>3, <1>4

WalkStep(w) ==
  IF w.i <= Len(w.free) THEN LET v == WalkBack(WalkForward(w)) IN [v EXCEPT !.i = @ + 1]
  ELSE IF w.coal THEN [w EXCEPT !.i = 1, !.coal = FALSE]
  ELSE w

LEMMA WalkStepType ==
  ASSUME NEW w \in WalkStates
  PROVE  WalkStep(w) \in WalkStates
<1>1. ASSUME NEW v \in WalkStates, NEW i \in Nat, i >= 1, NEW c \in BOOLEAN
      PROVE  [v EXCEPT !.i = i] \in WalkStates /\ [v EXCEPT !.i = i, !.coal = c] \in WalkStates
      BY <1>1 DEF WalkStates
<1>2. CASE w.i <= Len(w.free)
      <2> DEFINE v == WalkBack(WalkForward(w))
      <2>1. v \in WalkStates
            BY <1>2, WalkForwardType, WalkBackType
      <2>2. WalkStep(w) = [v EXCEPT !.i = v.i + 1]
            BY <1>2 DEF WalkStep
      <2> HIDE DEF v
      <2>3. v.i + 1 \in Nat /\ v.i + 1 >= 1 /\ TRUE \in BOOLEAN
            BY <2>1 DEF WalkStates
      <2> QED BY <1>1, <2>1, <2>2, <2>3
<1>3. CASE ~(w.i <= Len(w.free)) /\ w.coal
      <2>1. WalkStep(w) = [w EXCEPT !.i = 1, !.coal = FALSE]
            BY <1>3 DEF WalkStep
      <2>2. \E c \in BOOLEAN : WalkStep(w) = [w EXCEPT !.i = 1, !.coal = c]
            <3> WITNESS FALSE \in BOOLEAN
            <3> QED BY <2>1
      <2>3. PICK c \in BOOLEAN : WalkStep(w) = [w EXCEPT !.i = 1, !.coal = c]
            BY <2>2
      <2>4. 1 \in Nat /\ 1 >= 1
            OBVIOUS
      <2> DEFINE one == 1
      <2>5. one \in Nat /\ one >= 1
            BY <2>4
      <2> HIDE DEF one
      <2>6. [w EXCEPT !.i = one, !.coal = c] \in WalkStates
            BY <1>1, <2>5
      <2> QED BY <2>3, <2>6 DEF one
<1>4. CASE ~(w.i <= Len(w.free)) /\ ~w.coal
      BY <1>4 DEF WalkStep
<1> QED BY <1>2, <1>3, <1>4

LEMMA WalkType ==
  ASSUME NEW h \in Listed
  PROVE  Walk(h).free \in Seq(Addr) /\ Walk(h).size \in [Addr -> Sizes]
<1> DEFINE L == (Len(h.free) + 2) * (Len(h.free) + 2)
           start == [free |-> h.free, size |-> h.size, i |-> 1, coal |-> FALSE]
           G == [w \in WalkStates |-> WalkStep(w)]
           R(g) == [n \in 0..L |->
                      LET w == g[n - 1] IN
                        IF n = 0 THEN [free |-> h.free, size |-> h.size, i |-> 1, coal |-> FALSE]
                        ELSE IF w.i <= Len(w.free)
                          THEN LET v == WalkBack(WalkForward(w)) IN [v EXCEPT !.i = @ + 1]
                        ELSE IF w.coal THEN [w EXCEPT !.i = 1, !.coal = FALSE]
                        ELSE w]
           W == CHOOSE g : g = R(g)
<1>1. L \in Nat
      <2>1. Len(h.free) + 2 \in Nat
            BY LenProperties DEF Listed
      <2> DEFINE k == Len(h.free) + 2
      <2> HIDE DEF k
      <2>2. k \in Nat => k * k \in Nat
            OBVIOUS
      <2> QED BY <2>1, <2>2 DEF k
<1>2. start \in WalkStates
      BY DEF Listed, WalkStates
<1>3. Walk(h) = W[L]
      BY DEF Walk
<1> HIDE DEF L, start
<1>4. PICK g \in [0..L -> WalkStates] : g = R(g)
      <2>1. G \in [WalkStates -> WalkStates]
            BY WalkStepType
      <2> HIDE DEF G
      <2>2. PICK g \in [0..L -> WalkStates] : g[0] = start /\ \A i \in 1..L : g[i] = G[g[i - 1]]
            <3>1. Runs(WalkStates, G, start, L)
                  BY <2>1, <1>1, <1>2, Repeated
            <3> QED BY <3>1 DEF Runs
      <2>3. ASSUME NEW i \in 1..L PROVE g[i] = WalkStep(g[i - 1])
            <3>1. i - 1 \in 0..L
                  BY <1>1
            <3>2. g[i - 1] \in WalkStates
                  BY <3>1
            <3> QED BY <3>2, <2>2 DEF G
      <2>4. ASSUME NEW n \in 0..L PROVE g[n] = R(g)[n]
            <3>1. CASE n = 0
                  BY <3>1, <2>2, <1>1 DEF start
            <3>2. CASE n # 0
                  <4>1. g[n] = WalkStep(g[n - 1])
                        BY <3>2, <2>3, <1>1
                  <4> QED BY <4>1, <3>2 DEF WalkStep
            <3> QED BY <3>1, <3>2
      <2>5. g = R(g)
            BY <2>4
      <2> QED BY <2>5
<1>5. W = R(W)
      BY <1>4
<1> HIDE DEF W
<1> DEFINE S == {n \in Nat : n <= L => W[n] \in WalkStates}
<1>6. 0 \in S
      <2>1. W[0] = start
            <3>1. 0 \in 0..L
                  BY <1>1
            <3>2. R(W)[0] = start
                  BY <3>1 DEF start
            <3> QED BY <3>2, <1>5
      <2> QED BY <2>1, <1>2
<1>7. ASSUME NEW n \in Nat, n \in S PROVE n + 1 \in S
      <2> SUFFICES ASSUME n + 1 <= L PROVE W[n + 1] \in WalkStates
          OBVIOUS
      <2>1. W[n] \in WalkStates
            BY <1>1, <1>7
      <2>2. n + 1 \in 0..L /\ n + 1 # 0 /\ (n + 1) - 1 = n
            BY <1>1
      <2>3. W[n + 1] = WalkStep(W[n])
            BY <2>2, <1>5 DEF WalkStep
      <2> QED BY <2>1, <2>3, WalkStepType
<1> HIDE DEF S
<1>8. L \in S
      BY <1>1, <1>6, <1>7, SetInduction
<1>9. W[L] \in WalkStates
      BY <1>1, <1>8 DEF S
<1> QED BY <1>3, <1>9 DEF WalkStates

-----------------------------------------------------------------------------
(* The invariant.  The list is f, the size fields s, the break b and the   *)
(* blocks handed out L.                                                    *)

Held(L) == {x.at : x \in L}

Fitting(s, L) == /\ \A x \in L : H + x.n <= s[x.at]
                 /\ \A x, y \in L : x.at = y.at => x = y

Sound(f, s, b, L) ==
  /\ Tiled(Held(L) \cup ToSet(f), s, b)
  /\ Held(L) \cap ToSet(f) = {}
  /\ Fitting(s, L)
  /\ Distinct(f)

Apart(f, s) == \A j, k \in DOMAIN f : ~Touch(s, f[j], f[k])

(* Before the first dealloc().                                             *)
RestAt(r, f, s, b, L) ==
  /\ f = <<r>> /\ Chain(Held(L), s, r) /\ s[r] \in Nat
  /\ r + s[r] + H = b \/ (r = b /\ s[r] = 0)

Rested(f, s, b, L) ==
  \/ f = <<>> /\ Chain(Held(L), s, b)
  \/ \E r \in Addr : RestAt(r, f, s, b, L)

HeapInv ==
  /\ Sound(free, size, brk, live)
  /\ ~deallocCalled => Rested(free, size, brk, live)
  /\ deallocCalled => free # <<>>
  /\ program = "alloc.c" => Apart(free, size)

OriginInv == origin = NULL \/ origin <= Memory

IInv == TypeOK /\ OriginInv /\ (slips = {} => HeapInv)

Block == [at : Addr, n : Request]

(* A step leaves the headers of the blocks alone that are still held.      *)
Kept == slips' = {} => \A x \in live \cap live' : size'[x.at] = size[x.at]

LEMMA RestedIsSound ==
  ASSUME NEW f, NEW s, NEW b \in Nat, NEW L, L \subseteq Block, Rested(f, s, b, L), Fitting(s, L)
  PROVE  Sound(f, s, b, L) /\ Apart(f, s)
<1>1. Held(L) \subseteq Nat
      BY ConstantsType DEF Held, Block, Addr
<1>2. CASE f = <<>> /\ Chain(Held(L), s, b)
      <2>1. DOMAIN f = {} /\ ToSet(f) = {}
            BY <1>2 DEF ToSet
      <2>2. Tiled(Held(L) \cup ToSet(f), s, b)
            BY <1>1, <1>2, <2>1, ChainTiles
      <2> QED BY <2>1, <2>2 DEF Sound, Distinct, Apart
<1>3. ASSUME NEW r \in Addr, RestAt(r, f, s, b, L) PROVE Sound(f, s, b, L) /\ Apart(f, s)
      <2>1. /\ f = <<r>> /\ Chain(Held(L), s, r) /\ s[r] \in Nat
            /\ r + s[r] + H = b \/ (r = b /\ s[r] = 0)
            BY <1>3 DEF RestAt
      <2>2. DOMAIN f = {1} /\ f[1] = r /\ ToSet(f) = {r}
            BY <2>1 DEF ToSet
      <2>3. r \in Nat
            BY ConstantsType DEF Addr
      <2>4. Tiled(Held(L) \cup {r}, s, b) /\ r \notin Held(L)
            BY <1>1, <2>1, <2>3, ChainAndRestTile
      <2> QED BY <2>2, <2>4 DEF Sound, Distinct, Apart, Touch
<1> QED BY <1>2, <1>3 DEF Rested

(* A block is handed out at the end of the chain.                          *)
LEMMA HandedOut ==
  ASSUME NEW L, L \subseteq Block, NEW s, NEW e \in Addr, Chain(Held(L), s, e), Fitting(s, L),
         NEW n \in Request, NEW t, t[e] \in Nat, H + n <= t[e], \A a \in Held(L) : t[a] = s[a]
  PROVE  /\ Chain(Held(L \cup {[at |-> e, n |-> n]}), t, e + t[e])
         /\ Fitting(t, L \cup {[at |-> e, n |-> n]})
         /\ L \cup {[at |-> e, n |-> n]} \subseteq Block
<1> DEFINE b == [at |-> e, n |-> n]
           K == L \cup {b}
<1>1. H \in Nat /\ H >= 1 /\ n \in Nat /\ e \in Nat
      BY ConstantsType DEF Addr
<1>2. Held(L) \subseteq Nat
      BY ConstantsType DEF Held, Block, Addr
<1>3. b \in Block /\ b.at = e /\ b.n = n
      BY DEF Block
<1>4. Held(K) = Held(L) \cup {e}
      BY <1>3 DEF Held
<1>5. H <= t[e]
      BY <1>1
<1>6. Chain(Held(L) \cup {e}, t, e + t[e])
      BY <1>1, <1>2, <1>5, ChainGrows
<1>7. \A x \in L : x.at \in Held(L) /\ x.at # e
      <2> SUFFICES ASSUME NEW x \in L PROVE x.at \in Held(L) /\ x.at # e
          OBVIOUS
      <2>1. x.at \in Held(L)
            BY DEF Held
      <2>2. s[x.at] \in Nat /\ H <= s[x.at] /\ x.at + s[x.at] <= e /\ x.at \in Nat
            BY <1>2, <2>1 DEF Chain
      <2> QED BY <1>1, <2>1, <2>2
<1> HIDE DEF b
<1>8. \A x \in K : H + x.n <= t[x.at]
      BY <1>3, <1>7 DEF Fitting
<1>9. \A x, y \in K : x.at = y.at => x = y
      BY <1>3, <1>7 DEF Fitting
<1> QED BY <1>3, <1>4, <1>6, <1>8, <1>9 DEF Fitting, b

-----------------------------------------------------------------------------
(* The fits.                                                               *)

LEMMA FitIs ==
  ASSUME NEW need \in Nat, free \in Seq(Addr), algs \in {"FIRST_FIT", "BEST_FIT", "WORST_FIT"},
         \A k \in DOMAIN free : size[free[k]] \in Nat /\ size[free[k]] <= brk, brk \in Nat
  PROVE  find_fit(need) = 0 \/ find_fit(need) \in Fits(need)
<1> DEFINE F == Fits(need)
           v(k) == size[free[k]]
<1>1. DOMAIN free = 1..Len(free) /\ Len(free) \in Nat
      BY LenProperties
<1>2. F \subseteq Nat /\ \A k \in F : v(k) \in Nat /\ v(k) <= brk
      BY <1>1 DEF Fits
<1>3. \A P : P \subseteq Nat \X Nat /\ P # {} =>
             \E p \in P : \A q \in P : p[1] < q[1] \/ (p[1] = q[1] /\ p[2] <= q[2])
      BY LeastPair
<1> HIDE DEF F
<1>4. F # {} => \E k \in F : \A j \in F : k <= j
      BY <1>2, Least
<1>5. F # {} => \E k \in F : \A j \in F : IF j < k THEN v(k) < v(j) ELSE v(k) <= v(j)
      <2> SUFFICES ASSUME F # {}
                   PROVE  \E k \in F : \A j \in F : IF j < k THEN v(k) < v(j) ELSE v(k) <= v(j)
          OBVIOUS
      <2> DEFINE P == {<<v(k), k>> : k \in F}
      <2>1. P \subseteq Nat \X Nat /\ P # {}
            <3>1. \A k \in F : v(k) \in Nat /\ k \in Nat
                  BY <1>2
            <3>2. \A k \in F : <<v(k), k>> \in Nat \X Nat
                  BY <3>1
            <3>3. \E k \in F : <<v(k), k>> \in P
                  OBVIOUS
            <3> QED BY <3>2, <3>3
      <2> HIDE DEF P
      <2>2. PICK p \in P : \A q \in P : p[1] < q[1] \/ (p[1] = q[1] /\ p[2] <= q[2])
            BY <2>1, <1>3
      <2>3. PICK k \in F : p = <<v(k), k>>
            BY DEF P
      <2>4. ASSUME NEW j \in F PROVE v(k) < v(j) \/ (v(k) = v(j) /\ k <= j)
            <3>1. <<v(j), j>> \in P
                  BY DEF P
            <3> QED BY <3>1, <2>2, <2>3
      <2>5. ASSUME NEW j \in F PROVE IF j < k THEN v(k) < v(j) ELSE v(k) <= v(j)
            <3>1. v(k) \in Nat /\ v(j) \in Nat /\ k \in Nat /\ j \in Nat
                  BY <1>2
            <3> QED BY <3>1, <2>4
      <2> QED BY <2>5
<1>6. F # {} => \E k \in F : \A j \in F : IF j < k THEN v(k) > v(j) ELSE v(k) >= v(j)
      <2> SUFFICES ASSUME F # {}
                   PROVE  \E k \in F : \A j \in F : IF j < k THEN v(k) > v(j) ELSE v(k) >= v(j)
          OBVIOUS
      <2> DEFINE P == {<<brk - v(k), k>> : k \in F}
      <2>1. P \subseteq Nat \X Nat /\ P # {}
            <3>1. \A k \in F : brk - v(k) \in Nat /\ k \in Nat
                  BY <1>2
            <3>2. \A k \in F : <<brk - v(k), k>> \in Nat \X Nat
                  BY <3>1
            <3>3. \E k \in F : <<brk - v(k), k>> \in P
                  OBVIOUS
            <3> QED BY <3>2, <3>3
      <2> HIDE DEF P
      <2>2. PICK p \in P : \A q \in P : p[1] < q[1] \/ (p[1] = q[1] /\ p[2] <= q[2])
            BY <2>1, <1>3
      <2>3. PICK k \in F : p = <<brk - v(k), k>>
            BY DEF P
      <2>4. ASSUME NEW j \in F PROVE brk - v(k) < brk - v(j) \/ (brk - v(k) = brk - v(j) /\ k <= j)
            <3>1. <<brk - v(j), j>> \in P
                  BY DEF P
            <3> QED BY <3>1, <2>2, <2>3
      <2>5. ASSUME NEW j \in F PROVE IF j < k THEN v(k) > v(j) ELSE v(k) >= v(j)
            <3> DEFINE x == v(k)
                       y == v(j)
            <3>1. x \in Nat /\ y \in Nat /\ k \in Nat /\ j \in Nat
                  BY <1>2
            <3>2. brk - x < brk - y \/ (brk - x = brk - y /\ k <= j)
                  BY <2>4
            <3> HIDE DEF x, y
            <3>3. IF j < k THEN x > y ELSE x >= y
                  BY <3>1, <3>2
            <3> QED BY <3>3 DEF x, y
      <2> QED BY <2>5
<1>7. find_first_fit(need) = 0 \/ find_first_fit(need) \in F
      BY <1>4 DEF find_first_fit, F
<1>8. find_best_fit(need) = 0 \/ find_best_fit(need) \in F
      BY <1>5 DEF find_best_fit, F
<1>9. find_worst_fit(need) = 0 \/ find_worst_fit(need) \in F
      BY <1>6 DEF find_worst_fit, F
<1>10. find_fit(need) \in {find_first_fit(need), find_best_fit(need), find_worst_fit(need)}
      BY DEF find_fit
<1> QED BY <1>7, <1>8, <1>9, <1>10 DEF F

-----------------------------------------------------------------------------
(* The steps before the first dealloc().                                   *)

LEMMA InitIInv == Init => IInv
<1> SUFFICES ASSUME Init PROVE IInv
    OBVIOUS
<1>1. 0 \in Nat /\ 0 \in Sizes /\ H \in Nat /\ Memory \in Nat /\ MaxTests \in Nat
      BY AllocatorAssumption DEF AllocatorAssumption, Sizes
<1>2. TypeOK
      <2>1. size \in [Addr -> Nat \cup {Junk}] /\ free \in Seq(Addr) /\ brk \in 0..Memory
            BY <1>1 DEF Init
      <2>2. /\ tests \in 0..MaxTests /\ heap \in Nat /\ limit \in Limit \cup {0}
            /\ origin \in Addr \cup {NULL}
            BY <1>1 DEF Init
      <2>3. /\ live \subseteq [at : Addr, n : Request] /\ deallocCalled \in BOOLEAN
            /\ program \in Program /\ algs \in Algs \cup {"FIRST_FIT"}
            BY DEF Init
      <2>4. /\ fault \in {"none", "null", "junk", "overrun"} /\ slips = {}
            BY DEF Init
      <2> QED BY <2>1, <2>2, <2>3, <2>4 DEF TypeOK
<1>3. OriginInv
      BY DEF Init, OriginInv
<1>4. Rested(free, size, brk, live) /\ Fitting(size, live) /\ live \subseteq Block /\ brk \in Nat
      BY <1>1 DEF Init, Rested, Chain, Held, Fitting
<1>5. Sound(free, size, brk, live) /\ Apart(free, size)
      BY <1>4, RestedIsSound
<1> QED BY <1>2, <1>3, <1>4, <1>5 DEF IInv, HeapInv, Init

LEMMA FaultKeeps == ASSUME IInv, NEW f \in {"null", "junk", "overrun"}, Fault(f)
  PROVE  IInv' /\ Kept
BY DEF IInv, TypeOK, OriginInv, HeapInv, Fault, options, Kept

LEMMA Types ==
  ASSUME TypeOK
  PROVE  /\ free \in Seq(Addr) /\ size \in [Addr -> Sizes] /\ brk \in Nat /\ brk <= Memory
         /\ brk \in Addr /\ live \subseteq Block /\ heap \in Nat /\ limit \in Nat
         /\ Addr \subseteq Nat
<1>1. H \in Nat /\ Memory \in Nat /\ Limit \subseteq Nat
      BY ConstantsType
<1>2. free \in Seq(Addr) /\ size \in [Addr -> Sizes] /\ live \subseteq Block /\ heap \in Nat
      BY DEF TypeOK, Block, Sizes
<1>3. brk \in 0..Memory /\ limit \in Limit \cup {0}
      BY DEF TypeOK
<1>4. brk \in Nat /\ brk <= Memory /\ brk \in Addr /\ limit \in Nat /\ Addr \subseteq Nat
      BY <1>1, <1>3 DEF Addr
<1> QED BY <1>2, <1>4

(* What the first three kinds of step leave.                               *)
LEMMA HandedOutKeeps ==
  ASSUME IInv, slips = {}, deallocCalled = FALSE, NEW n \in Request, NEW e \in Addr,
         Chain(Held(live), size, e), UNCHANGED <<program, limit, algs, tests, deallocCalled, fault>>,
         size' \in [Addr -> Sizes], free' \in Seq(Addr), origin' \in Addr \cup {NULL},
         origin' = NULL \/ origin' <= Memory, heap' \in Nat, brk' \in 0..Memory,
         slips' \subseteq {"size not corrected", "grown past the end", "stale head"},
         Give(e, n),
         slips' = {} => /\ size'[e] \in Nat /\ H + n <= size'[e]
                        /\ \A a \in Held(live) : size'[a] = size[a]
                        /\ \/ free' = <<>> /\ e + size'[e] = brk'
                           \/ \E r \in Addr : /\ free' = <<r>> /\ e + size'[e] = r
                                              /\ size'[r] \in Nat
                                              /\ r + size'[r] + H = brk' \/ (r = brk' /\ size'[r] = 0)
  PROVE  IInv' /\ Kept
<1>1. TypeOK /\ HeapInv
      BY DEF IInv
<1>2. /\ live \subseteq Block /\ Fitting(size, live) /\ live' = live \cup {[at |-> e, n |-> n]}
      BY <1>1, Types DEF HeapInv, Sound, Give
<1>3. live' \subseteq Block /\ brk' \in Nat
      <2>1. [at |-> e, n |-> n] \in Block
            BY DEF Block
      <2>2. Memory \in Nat
            BY ConstantsType
      <2>3. live' \subseteq Block
            BY <1>2, <2>1
      <2>4. brk' \in Nat
            <3>1. brk' \in 0..Memory
                  OBVIOUS
            <3> QED BY ONLY <3>1, <2>2
      <2> QED BY <2>3, <2>4
<1>4. TypeOK'
      BY <1>1, <1>3 DEF TypeOK, Sizes, Block
<1>5. OriginInv'
      BY DEF OriginInv
<1>6. ASSUME slips' = {} PROVE HeapInv'
      <2> DEFINE t == size'
                 K == live'
      <2>1. /\ t[e] \in Nat /\ H + n <= t[e]
            /\ \A a \in Held(live) : t[a] = size[a]
            BY <1>6
      <2> HIDE DEF t, K
      <2>2. Chain(Held(K), t, e + t[e]) /\ Fitting(t, K)
            <3>1. K = live \cup {[at |-> e, n |-> n]}
                  BY <1>2 DEF K
            <3> QED BY <2>1, <1>2, <3>1, HandedOut
      <2>3. Rested(free', t, brk', K)
            <3>1. \/ free' = <<>> /\ e + t[e] = brk'
                  \/ \E r \in Addr : /\ free' = <<r>> /\ e + t[e] = r
                                     /\ t[r] \in Nat
                                     /\ r + t[r] + H = brk' \/ (r = brk' /\ t[r] = 0)
                  BY <1>6 DEF t
            <3>2. CASE free' = <<>> /\ e + t[e] = brk'
                  BY <3>2, <2>2 DEF Rested
            <3>3. ASSUME NEW r \in Addr, free' = <<r>>, e + t[e] = r, t[r] \in Nat,
                         r + t[r] + H = brk' \/ (r = brk' /\ t[r] = 0)
                  PROVE  RestAt(r, free', t, brk', K)
                  BY <3>3, <2>2 DEF RestAt
            <3> QED BY <3>1, <3>2, <3>3 DEF Rested
      <2>4. Sound(free', t, brk', K) /\ Apart(free', t)
            BY <1>3, <2>2, <2>3, RestedIsSound DEF K
      <2> QED BY <2>3, <2>4 DEF HeapInv, t, K
<1>7. Kept
      <2>1. \A x \in live : x.at \in Held(live)
            BY DEF Held
      <2> QED BY <2>1 DEF Kept
<1> QED BY <1>4, <1>5, <1>6, <1>7 DEF IInv

(* A block of n bytes at a, with the next header at d.                     *)
LEMMA TwoHeaders ==
  ASSUME NEW s \in [Addr -> Sizes], NEW a \in Addr, NEW n \in Nat, NEW d \in Addr, d = a + H + n,
         NEW v \in Nat, NEW w \in Nat,
         NEW t, t = Header(Header(s, d, w), a, v) \/ t = Header(Header(s, a, v), d, w)
  PROVE  /\ t \in [Addr -> Sizes] /\ t[a] = v /\ t[d] = w
         /\ \A x \in Addr : x + H <= a \/ d + H <= x => t[x] = s[x]
<1>1. H \in Nat /\ H >= 1 /\ a \in Nat /\ d \in Nat
      BY ConstantsType DEF Addr
<1>2. a + H <= d
      BY <1>1
<1>3. Addr \subseteq Nat
      BY DEF Addr
<1>4. ASSUME NEW x \in Addr, x + H <= a \/ d + H <= x
      PROVE  (x + H <= a \/ a + H <= x) /\ (x + H <= d \/ d + H <= x)
      BY <1>1, <1>2, <1>3, <1>4
<1>5. CASE t = Header(Header(s, d, w), a, v)
      <2> DEFINE u == Header(s, d, w)
      <2>1. u \in [Addr -> Sizes] /\ u[d] = w /\ \A x \in Addr : x + H <= d \/ d + H <= x => u[x] = s[x]
            BY HeaderAt
      <2> HIDE DEF u
      <2>2. /\ Header(u, a, v) \in [Addr -> Sizes] /\ Header(u, a, v)[a] = v
            /\ \A x \in Addr : x + H <= a \/ a + H <= x => Header(u, a, v)[x] = u[x]
            BY <2>1, HeaderAt
      <2>3. t = Header(u, a, v)
            BY <1>5 DEF u
      <2> QED BY <1>2, <1>4, <2>1, <2>2, <2>3
<1>6. CASE t = Header(Header(s, a, v), d, w)
      <2> DEFINE u == Header(s, a, v)
      <2>1. u \in [Addr -> Sizes] /\ u[a] = v /\ \A x \in Addr : x + H <= a \/ a + H <= x => u[x] = s[x]
            BY HeaderAt
      <2> HIDE DEF u
      <2>2. /\ Header(u, d, w) \in [Addr -> Sizes] /\ Header(u, d, w)[d] = w
            /\ \A x \in Addr : x + H <= d \/ d + H <= x => Header(u, d, w)[x] = u[x]
            BY <2>1, HeaderAt
      <2>3. t = Header(u, d, w)
            BY <1>6 DEF u
      <2> QED BY <1>2, <1>4, <2>1, <2>2, <2>3
<1> QED BY <1>5, <1>6

LEMMA FilledBlock ==
  ASSUME NEW s \in [Addr -> Sizes], NEW a \in Addr, NEW n \in Nat
  PROVE  /\ Filled(s, a + H, n) \in [Addr -> Sizes]
         /\ \A x \in Addr : x <= a \/ a + H + n <= x => Filled(s, a + H, n)[x] = s[x]
<1>1. H \in Nat /\ a \in Nat /\ Addr \subseteq Nat
      BY ConstantsType DEF Addr
<1>2. a + H \in Nat /\ a + H + n = (a + H) + n
      BY <1>1
<1>3. ASSUME NEW x \in Addr, x <= a PROVE x + H <= a + H
      BY <1>1, <1>3
<1> QED BY <1>2, <1>3, FilledAt

LEMMA RestIs ==
  ASSUME IInv, slips = {}, deallocCalled = FALSE
  PROVE  /\ live \subseteq Block /\ Fitting(size, live) /\ Held(live) \subseteq Addr
         /\ free = <<>> => Chain(Held(live), size, brk)
         /\ free # <<>> => /\ free = <<head>> /\ head \in Addr /\ Chain(Held(live), size, head)
                           /\ size[head] \in Nat
                           /\ head + size[head] + H = brk \/ (head = brk /\ size[head] = 0)
<1>1. TypeOK /\ Rested(free, size, brk, live) /\ Fitting(size, live)
      BY DEF IInv, HeapInv, Sound
<1>2. live \subseteq Block /\ Held(live) \subseteq Addr
      BY <1>1, Types DEF Held, Block
<1>3. ASSUME NEW r \in Addr, RestAt(r, free, size, brk, live)
      PROVE  /\ free = <<head>> /\ head \in Addr /\ Chain(Held(live), size, head) /\ free # <<>>
             /\ size[head] \in Nat
             /\ head + size[head] + H = brk \/ (head = brk /\ size[head] = 0)
      <2>1. free = <<r>>
            BY <1>3 DEF RestAt
      <2>2. head = r
            BY <2>1 DEF head
      <2> QED BY <1>3, <2>1, <2>2 DEF RestAt
<1> QED BY <1>1, <1>2, <1>3 DEF Rested

(* Every block is in front of where the chain ends.                        *)
LEMMA ChainBefore ==
  ASSUME NEW S, S \subseteq Addr, NEW s, NEW e \in Addr, Chain(S, s, e)
  PROVE  \A a \in S : a + H <= e
<1>1. H \in Nat /\ Addr \subseteq Nat /\ e \in Nat
      BY ConstantsType DEF Addr
<1> SUFFICES ASSUME NEW a \in S PROVE a + H <= e
    OBVIOUS
<1>2. s[a] \in Nat /\ H <= s[a] /\ a + s[a] <= e /\ a \in Nat
      BY <1>1 DEF Chain
<1> QED BY <1>1, <1>2

LEMMA FirstBlockStep ==
  ASSUME IInv, slips = {}, deallocCalled = FALSE, NEW n \in Request, FirstBlock(n)
  PROVE  IInv' /\ Kept
<1> DEFINE d == brk + H + n
           w == INCREMENT - 2 * H - n
<1>1. H \in Nat /\ H >= 1 /\ INCREMENT \in Nat /\ n \in Nat /\ Memory \in Nat
      BY ConstantsType
<1>2. TypeOK /\ size \in [Addr -> Sizes] /\ brk \in Addr /\ brk \in Nat /\ Addr \subseteq Nat
      BY Types DEF IInv
<1>3. free = <<>> /\ brk + INCREMENT <= Memory
      BY DEF FirstBlock
<1>4. CASE d + H > brk + INCREMENT
      <2>1. Fault("overrun")
            BY <1>4 DEF FirstBlock
      <2> QED BY <2>1, FaultKeeps
<1>5. CASE ~(d + H > brk + INCREMENT)
      <2> DEFINE u == Header(Header(size, brk, n + H), d, w)
      <2>1. /\ size' = Filled(u, brk + H, n)
            /\ free' = <<d>> /\ origin' = brk /\ heap' = INCREMENT /\ brk' = brk + INCREMENT
            /\ Give(brk, n) /\ UNCHANGED <<options, deallocCalled, fault, slips>>
            BY <1>5 DEF FirstBlock
      <2>2. d \in Addr /\ d <= Memory /\ w \in Nat /\ n + H \in Nat /\ brk < d
            BY <1>1, <1>2, <1>3, <1>5 DEF Addr
      <2>0. d = brk + H + n /\ d + w + H = brk + INCREMENT
            BY <1>1, <1>2
      <2> HIDE DEF d, w
      <2>3. /\ u \in [Addr -> Sizes] /\ u[brk] = n + H /\ u[d] = w
            /\ \A x \in Addr : x + H <= brk \/ d + H <= x => u[x] = size[x]
            <3> DEFINE v == n + H
            <3>1. u = Header(Header(size, d, w), brk, v) \/ u = Header(Header(size, brk, v), d, w)
                  OBVIOUS
            <3>2. v \in Nat
                  BY <2>2
            <3> HIDE DEF u, v
            <3>3. /\ u \in [Addr -> Sizes] /\ u[brk] = v /\ u[d] = w
                  /\ \A x \in Addr : x + H <= brk \/ d + H <= x => u[x] = size[x]
                  <4>1. /\ size \in [Addr -> Sizes] /\ brk \in Addr /\ n \in Nat /\ d \in Addr
                        /\ d = brk + H + n /\ w \in Nat
                        BY <1>1, <1>2, <2>0, <2>2
                  <4> QED BY ONLY <3>1, <3>2, <4>1, TwoHeaders
            <3> QED BY <3>3 DEF v
      <2> HIDE DEF u
      <2>4. size' \in [Addr -> Sizes] /\ \A x \in Addr : x <= brk \/ d <= x => size'[x] = u[x]
            BY <1>1, <1>2, <2>0, <2>1, <2>3, FilledBlock
      <2>5. size'[brk] = n + H /\ size'[d] = w
            <3>1. brk <= brk /\ d <= d
                  BY <1>2, <2>2
            <3> QED BY <3>1, <1>2, <2>2, <2>3, <2>4
      <2>6. Chain(Held(live), size, brk) /\ Held(live) \subseteq Addr
            BY <1>3, RestIs
      <2>7. ASSUME NEW a \in Held(live) PROVE size'[a] = size[a]
            <3>1. a \in Addr /\ a + H <= brk
                  BY <1>2, <2>6, ChainBefore
            <3>2. a <= brk
                  BY <3>1, <1>1, <1>2
            <3> QED BY <3>1, <3>2, <2>3, <2>4
      <2>8. /\ brk + size'[brk] = d /\ d + size'[d] + H = brk'
            /\ size'[d] \in Nat /\ size'[brk] \in Nat /\ H + n <= size'[brk]
            BY <2>0, <2>1, <2>2, <2>5, <1>1, <1>2
      <2>9. /\ brk' \in 0..Memory /\ origin' \in Addr \cup {NULL} /\ origin' <= Memory
            /\ heap' \in Nat /\ free' \in Seq(Addr)
            <3>1. brk + INCREMENT \in 0..Memory /\ brk <= Memory
                  BY <1>1, <1>2, <1>3
            <3> QED BY <2>1, <2>2, <3>1, <1>1, <1>2
      <2>10. UNCHANGED <<program, limit, algs, tests, deallocCalled, fault, slips>>
            BY <2>1 DEF options
      <2>11. \E r \in Addr : /\ free' = <<r>> /\ brk + size'[brk] = r /\ size'[r] \in Nat
                             /\ r + size'[r] + H = brk' \/ (r = brk' /\ size'[r] = 0)
            BY <2>1, <2>2, <2>8
      <2> QED BY <1>2, <2>1, <2>4, <2>6, <2>7, <2>8, <2>9, <2>10, <2>11, HandedOutKeeps
<1> QED BY <1>4, <1>5

LEMMA LastBlockStep ==
  ASSUME IInv, slips = {}, deallocCalled = FALSE, NEW n \in Request, free # <<>>, Whole(n),
         LastBlock(n)
  PROVE  IInv' /\ Kept
<1>1. H \in Nat /\ H >= 1 /\ n \in Nat /\ Memory \in Nat
      BY ConstantsType
<1>2. /\ TypeOK /\ size \in [Addr -> Sizes] /\ brk \in Addr /\ brk \in Nat /\ Addr \subseteq Nat
      /\ brk \in 0..Memory /\ heap \in Nat /\ OriginInv /\ origin \in Addr \cup {NULL}
      BY Types DEF IInv, TypeOK
<1>3. /\ head \in Addr /\ Chain(Held(live), size, head) /\ size[head] \in Nat
      /\ head + size[head] + H = brk \/ (head = brk /\ size[head] = 0)
      /\ Held(live) \subseteq Addr
      BY RestIs
<1>4. size[head] > n
      BY DEF Whole
<1> DEFINE u == IF heap < limit THEN [size EXCEPT ![head] = @ + H] ELSE size
<1>5. /\ size' = Filled(u, head + H, n)
      /\ slips' = slips \cup (IF heap < limit THEN {} ELSE {"size not corrected"})
      /\ free' = <<>> /\ Give(head, n)
      /\ UNCHANGED <<options, origin, heap, deallocCalled, brk, fault>>
      BY DEF LastBlock
<1>6. /\ u \in [Addr -> Sizes] /\ \A x \in Addr : x # head => u[x] = size[x]
      /\ heap < limit => u[head] = size[head] + H
      BY <1>1, <1>2, <1>3 DEF Sizes
<1> HIDE DEF u
<1>7. size' \in [Addr -> Sizes] /\ \A x \in Addr : x <= head => size'[x] = u[x]
      BY <1>1, <1>3, <1>5, <1>6, FilledBlock
<1>8. /\ slips' \subseteq {"size not corrected", "grown past the end", "stale head"}
      /\ slips' = {} => heap < limit
      BY <1>5
<1>9. ASSUME NEW a \in Held(live) PROVE size'[a] = size[a]
      <2>1. a \in Addr /\ a + H <= head
            BY <1>2, <1>3, ChainBefore
      <2>2. a <= head /\ a # head
            BY <2>1, <1>1, <1>2, <1>3
      <2> QED BY <2>1, <2>2, <1>6, <1>7
<1>10. ASSUME slips' = {}
       PROVE  size'[head] \in Nat /\ H + n <= size'[head] /\ head + size'[head] = brk'
      <2>1. head <= head /\ head \in Nat
            BY <1>2, <1>3
      <2>2. size'[head] = size[head] + H
            BY <2>1, <1>3, <1>6, <1>7, <1>8, <1>10
      <2>3. head + size[head] + H = brk
            BY <1>1, <1>3, <1>4
      <2> DEFINE m == size[head]
      <2>4. m \in Nat /\ m > n /\ head + m + H = brk
            BY <1>3, <1>4, <2>3
      <2> HIDE DEF m
      <2>5. m + H \in Nat /\ H + n <= m + H /\ head + (m + H) = brk
            BY <2>1, <2>4, <1>1
      <2>6. size'[head] = m + H /\ brk' = brk
            BY <2>2, <1>5 DEF m
      <2> QED BY <2>5, <2>6
<1>11. /\ brk' \in 0..Memory /\ origin' \in Addr \cup {NULL} /\ (origin' = NULL \/ origin' <= Memory)
       /\ heap' \in Nat /\ free' \in Seq(Addr) /\ free' = <<>>
       <2>1. brk' = brk /\ origin' = origin /\ heap' = heap /\ free' = <<>>
             BY <1>5
       <2>2. <<>> \in Seq(Addr)
             OBVIOUS
       <2> QED BY <1>2, <2>1, <2>2 DEF OriginInv
<1>12. UNCHANGED <<program, limit, algs, tests, deallocCalled, fault>>
       BY <1>5 DEF options
<1> QED BY <1>3, <1>5, <1>7, <1>8, <1>9, <1>10, <1>11, <1>12, HandedOutKeeps

LEMMA SplitStep ==
  ASSUME IInv, slips = {}, deallocCalled = FALSE, NEW n \in Request, free # <<>>, NEW got \in Nat,
         \/ got = 0
         \/ Grows(n) /\ got = INCREMENT /\ brk + INCREMENT <= Memory,
         Split(n, got)
  PROVE  IInv' /\ Kept
<1> DEFINE d == head + H + n
           m == size[head]
           g == IF Grows(n) THEN INCREMENT ELSE 0
           left == m + g - n - H
           block == Header(Header(size, d, left), head, n + H)
           u == IF left = 0 THEN [block EXCEPT ![head] = @ + H] ELSE block
<1>1. H \in Nat /\ H >= 1 /\ INCREMENT \in Nat /\ INCREMENT >= 1 /\ n \in Nat /\ Memory \in Nat
      BY ConstantsType
<1>2. /\ TypeOK /\ size \in [Addr -> Sizes] /\ brk \in Addr /\ brk \in Nat /\ Addr \subseteq Nat
      /\ brk <= Memory /\ heap \in Nat /\ OriginInv /\ origin \in Addr \cup {NULL}
      BY Types DEF IInv, TypeOK
<1>3. /\ head \in Addr /\ head \in Nat /\ Chain(Held(live), size, head) /\ m \in Nat
      /\ head + m + H = brk \/ (head = brk /\ m = 0)
      /\ Held(live) \subseteq Addr
      BY <1>2, RestIs
<1>4. Grows(n) => m < n + H
      BY DEF Grows
<1>5. got \in Nat /\ (got = 0 \/ (Grows(n) /\ got = INCREMENT)) /\ brk + got <= Memory
      BY <1>1, <1>2
<1>6. CASE d + H > brk + got
      <2>1. Fault("overrun")
            BY <1>6 DEF Split
      <2> QED BY <2>1, FaultKeeps
<1>7. CASE ~(d + H > brk + got)
      <2>1. /\ size' = Filled(u, head + H, n)
            /\ free' = <<IF left = 0 THEN d + H ELSE d>>
            /\ brk' = brk + got /\ heap' = heap + got
            /\ slips' = slips \cup (IF Grows(n) /\ head = brk THEN {"grown past the end"} ELSE {})
                              \cup (IF left = 0 /\ size[d + H] # 0 THEN {"stale head"} ELSE {})
            /\ Give(head, n)
            /\ UNCHANGED <<options, origin, deallocCalled, fault>>
            BY <1>7 DEF Split
      <2> HIDE DEF u, block
      <2>2. d = head + H + n /\ d + H <= brk + got /\ d \in Nat
            BY <1>1, <1>2, <1>3, <1>5, <1>7
      <2> HIDE DEF d
      <2>3. g = got
            <3>1. CASE got = 0
                  <4> SUFFICES ASSUME Grows(n) PROVE FALSE
                      BY <3>1
                  <4>1. m < n + H
                        BY <1>4
                  <4> HIDE DEF m
                  <4> QED BY <4>1, <3>1, <2>2, <1>1, <1>2, <1>3
            <3>2. CASE Grows(n) /\ got = INCREMENT
                  BY <3>2
            <3> QED BY <3>1, <3>2, <1>5
      <2>4. g \in Nat /\ (g = 0 \/ Grows(n))
            BY <1>1
      <2> HIDE DEF m, g
      <2>5. left \in Nat /\ (head = brk => Grows(n))
            BY <2>2, <2>3, <2>4, <1>1, <1>2, <1>3, <1>5
      <2>6. /\ slips' = {} => head # brk /\ (left = 0 => size[d + H] = 0)
            /\ slips' \subseteq {"size not corrected", "grown past the end", "stale head"}
            BY <2>1, <2>5
      <2>7. d + left + H = head + m + H + g
            BY <2>2, <2>4, <2>5, <1>1, <1>3
      <2> HIDE DEF left
      <2>8. d \in Addr /\ d + H \in Addr /\ d + H <= Memory /\ head < d
            BY <2>2, <1>1, <1>2, <1>3, <1>5 DEF Addr
      <2>9. /\ block \in [Addr -> Sizes] /\ block[head] = n + H /\ block[d] = left
            /\ \A x \in Addr : x + H <= head \/ d + H <= x => block[x] = size[x]
            <3> DEFINE v == n + H
            <3>1. block = Header(Header(size, d, left), head, v) \/ block = Header(Header(size, head, v), d, left)
                  BY DEF block
            <3>2. v \in Nat
                  BY <1>1
            <3> HIDE DEF v
            <3>3. /\ block \in [Addr -> Sizes] /\ block[head] = v /\ block[d] = left
                  /\ \A x \in Addr : x + H <= head \/ d + H <= x => block[x] = size[x]
                  <4>1. /\ size \in [Addr -> Sizes] /\ head \in Addr /\ n \in Nat /\ d \in Addr
                        /\ d = head + H + n /\ left \in Nat
                        BY <1>1, <1>2, <1>3, <2>2, <2>5, <2>8
                  <4> QED BY ONLY <3>1, <3>2, <4>1, TwoHeaders
            <3> QED BY <3>3 DEF v
      <2>10. /\ u \in [Addr -> Sizes] /\ \A x \in Addr : x # head => u[x] = block[x]
             /\ u[head] = IF left = 0 THEN n + H + H ELSE n + H
             <3>1. n + H + H \in Nat
                   BY <1>1
             <3> QED BY <2>9, <3>1, <1>3 DEF u, Sizes
      <2>11. size' \in [Addr -> Sizes] /\ \A x \in Addr : x <= head \/ d <= x => size'[x] = u[x]
             <3>1. u \in [Addr -> Sizes] /\ head \in Addr /\ n \in Nat /\ d = head + H + n
                   BY <1>1, <1>3, <2>2, <2>10
             <3>2. /\ Filled(u, head + H, n) \in [Addr -> Sizes]
                   /\ \A x \in Addr : x <= head \/ head + H + n <= x
                                      => Filled(u, head + H, n)[x] = u[x]
                   BY ONLY <3>1, FilledBlock
             <3>3. size' = Filled(u, head + H, n)
                   BY <2>1
             <3> QED BY <3>1, <3>2, <3>3
      <2>12. size'[head] = (IF left = 0 THEN n + H + H ELSE n + H) /\ size'[d] = left
             /\ size'[d + H] = size[d + H]
             <3>1. /\ head <= head /\ d <= d /\ d <= d + H /\ d # head /\ d + H # head
                   /\ d + H <= d + H
                   BY <1>1, <1>3, <2>2, <2>8
             <3> QED BY <3>1, <1>3, <2>8, <2>9, <2>10, <2>11
      <2>13. ASSUME NEW a \in Held(live) PROVE size'[a] = size[a]
             <3>1. a \in Addr /\ a + H <= head
                   BY <1>2, <1>3, ChainBefore
             <3>2. a <= head /\ a # head
                   BY <3>1, <1>1, <1>2, <1>3
             <3> QED BY <3>1, <3>2, <2>9, <2>10, <2>11
      <2>14. size'[head] \in Nat /\ H + n <= size'[head]
             BY <2>12, <1>1
      <2>15. ASSUME slips' = {}
             PROVE  \E r \in Addr : /\ free' = <<r>> /\ head + size'[head] = r /\ size'[r] \in Nat
                                    /\ r + size'[r] + H = brk' \/ (r = brk' /\ size'[r] = 0)
             <3>1. head + m + H = brk
                   BY <2>6, <2>15, <1>3
             <3>2. d + left + H = brk'
                   BY <3>1, <2>1, <2>3, <2>7, <1>1, <1>2, <1>5
             <3>3. CASE left = 0
                   <4>1. free' = <<d + H>> /\ size'[d + H] = 0 /\ head + size'[head] = d + H
                         <5>1. free' = <<d + H>>
                               BY <3>3, <2>1
                         <5>2. size'[d + H] = 0 /\ size'[head] = n + H + H
                               BY <3>3, <2>6, <2>12, <2>15
                         <5>3. head + (n + H + H) = d + H
                               BY <2>2, <1>1, <1>3
                         <5> QED BY <5>1, <5>2, <5>3
                   <4>2. d + H = brk'
                         BY <3>2, <3>3, <2>2, <1>1
                   <4> QED BY <4>1, <4>2, <2>8
             <3>4. CASE left # 0
                   <4>1. free' = <<d>> /\ size'[d] = left /\ head + size'[head] = d
                         <5>1. free' = <<d>>
                               BY <3>4, <2>1
                         <5>2. size'[d] = left /\ size'[head] = n + H
                               BY <3>4, <2>12
                         <5>3. head + (n + H) = d
                               BY <2>2, <1>1, <1>3
                         <5> QED BY <5>1, <5>2, <5>3
                   <4> QED BY <4>1, <3>2, <2>5, <2>8
             <3> QED BY <3>3, <3>4
      <2>16. /\ brk' \in 0..Memory /\ origin' \in Addr \cup {NULL} /\ (origin' = NULL \/ origin' <= Memory)
             /\ heap' \in Nat
             <3>1. brk + got \in 0..Memory /\ heap + got \in Nat
                   BY <1>1, <1>2, <1>5
             <3>2. origin' = origin
                   BY <2>1
             <3> QED BY <3>1, <3>2, <2>1, <1>2 DEF OriginInv
      <2>17. free' \in Seq(Addr)
             <3>1. free' = <<d + H>> \/ free' = <<d>>
                   BY <2>1
             <3>2. <<d + H>> \in Seq(Addr) /\ <<d>> \in Seq(Addr)
                   BY <2>8
             <3> QED BY <3>1, <3>2
      <2>18. UNCHANGED <<program, limit, algs, tests, deallocCalled, fault>>
             BY <2>1 DEF options
      <2>19. Give(head, n)
             BY <2>1
      <2> QED BY <1>3, <2>6, <2>11, <2>13, <2>14, <2>15, <2>16, <2>17, <2>18, <2>19, HandedOutKeeps
<1> QED BY <1>6, <1>7

LEMMA FromRestStep ==
  ASSUME IInv, slips = {}, deallocCalled = FALSE, NEW n \in Request,
         FromRest(n) \/ (NeedsBreak(n) /\ UNCHANGED vars) \/ SbrkUnchecked(n)
  PROVE  IInv' /\ Kept
<1>1. INCREMENT \in Nat /\ 0 \in Nat
      BY ConstantsType
<1>2. CASE FromRest(n)
      <2>1. CASE free = <<>> /\ FirstBlock(n)
            BY <2>1, FirstBlockStep
      <2>2. CASE free # <<>> /\ size[head] = Junk /\ Fault("junk")
            BY <2>2, FaultKeeps
      <2>3. CASE UNCHANGED vars
            BY <2>3 DEF IInv, TypeOK, OriginInv, HeapInv, vars, options, Kept
      <2>4. CASE free # <<>> /\ Whole(n) /\ LastBlock(n)
            BY <2>4, LastBlockStep
      <2>5. CASE free # <<>> /\ Split(n, 0)
            BY <1>1, <2>5, SplitStep
      <2>6. CASE free # <<>> /\ Grows(n) /\ brk + INCREMENT <= Memory /\ Split(n, INCREMENT)
            BY <1>1, <2>6, SplitStep
      <2> QED BY <1>2, <2>1, <2>2, <2>3, <2>4, <2>5, <2>6 DEF FromRest
<1>3. CASE UNCHANGED vars
      BY <1>3 DEF IInv, TypeOK, OriginInv, HeapInv, vars, options, Kept
<1>4. CASE SbrkUnchecked(n)
      <2>1. CASE free = <<>>
            BY <1>4, <2>1, FaultKeeps DEF SbrkUnchecked
      <2>2. CASE free # <<>>
            <3>1. Split(n, 0)
                  BY <1>4, <2>2 DEF SbrkUnchecked
            <3> QED BY <1>1, <2>2, <3>1, SplitStep
      <2> QED BY <2>1, <2>2
<1> QED BY <1>2, <1>3, <1>4

-----------------------------------------------------------------------------
(* The steps after it.                                                     *)

IsReplaced(X, f, k, d, g) ==
  /\ f \in Seq(X) /\ k \in DOMAIN f /\ d \in X /\ g = [f EXCEPT ![k] = d]
  /\ Distinct(f) /\ d \notin ToSet(f)

LEMMA ReplacedIn ==
  ASSUME NEW X, NEW f, NEW k, NEW d, NEW g, IsReplaced(X, f, k, d, g)
  PROVE  /\ g \in Seq(X) /\ DOMAIN g = DOMAIN f /\ g[k] = d
         /\ \A j \in DOMAIN f : j # k => g[j] = f[j]
         /\ Distinct(g) /\ ToSet(g) = (ToSet(f) \ {f[k]}) \cup {d}
<1> /\ f \in Seq(X) /\ k \in DOMAIN f /\ d \in X /\ g = [f EXCEPT ![k] = d]
    /\ Distinct(f) /\ d \notin ToSet(f)
    BY DEF IsReplaced
<1>1. /\ g \in Seq(X) /\ DOMAIN g = DOMAIN f /\ g[k] = d
      /\ \A j \in DOMAIN f : j # k => g[j] = f[j]
      <2>1. DOMAIN f = 1..Len(f)
            BY LenProperties
      <2> QED BY <2>1, ExceptSeq
<1>2. Distinct(g) /\ ToSet(g) = (ToSet(f) \ {f[k]}) \cup {d}
      <2>1. \A j \in DOMAIN f : f[j] # d /\ (j # k => f[j] # f[k])
            BY DEF ToSet, Distinct
      <2>2. Distinct(g)
            BY <1>1, <2>1 DEF Distinct
      <2>3. ToSet(g) = (ToSet(f) \ {f[k]}) \cup {d}
            <3>1. ToSet(g) = {g[j] : j \in DOMAIN f} /\ ToSet(f) = {f[j] : j \in DOMAIN f}
                  BY <1>1 DEF ToSet
            <3>2. \A x \in ToSet(g) : x = d \/ \E j \in DOMAIN f : j # k /\ x = f[j]
                  BY <1>1, <3>1
            <3>3. \A x \in ToSet(f) : x # f[k] => \E j \in DOMAIN f : j # k /\ x = g[j]
                  BY <1>1, <3>1
            <3>4. d \in ToSet(g)
                  BY <1>1, <3>1
            <3>5. ASSUME NEW x \in ToSet(g) PROVE x \in (ToSet(f) \ {f[k]}) \cup {d}
                  BY <2>1, <3>1, <3>2
            <3>6. ASSUME NEW x \in (ToSet(f) \ {f[k]}) \cup {d} PROVE x \in ToSet(g)
                  <4>1. CASE x = d
                        BY <3>4, <4>1
                  <4>2. CASE x \in ToSet(f) /\ x # f[k]
                        BY <3>1, <3>3, <4>2
                  <4> QED BY <4>1, <4>2
            <3> QED BY <3>5, <3>6
      <2> QED BY <2>2, <2>3
<1> QED BY <1>1, <1>2

LEMMA ListIs ==
  ASSUME TypeOK, Sound(free, size, brk, live)
  PROVE  /\ Starts = Held(live) \cup ToSet(free) /\ Starts \subseteq Addr /\ Tiled(Starts, size, brk)
         /\ \A a \in Starts : End(a) = EndOf(Starts, size, brk, a)
         /\ \A k \in DOMAIN free : /\ free[k] \in Addr /\ free[k] \in ToSet(free)
                                   /\ size[free[k]] \in Nat /\ size[free[k]] <= brk
<1>1. free \in Seq(Addr) /\ live \subseteq Block /\ brk \in Nat /\ Addr \subseteq Nat
      BY Types
<1>2. Starts = Held(live) \cup ToSet(free)
      BY DEF Starts, Held
<1>3. \A k \in DOMAIN free : free[k] \in Addr /\ free[k] \in ToSet(free)
      BY <1>1, ElementOfSeq, LenProperties DEF ToSet
<1>4. Starts \subseteq Addr
      BY <1>1, <1>2, <1>3 DEF Held, Block, ToSet
<1>5. Tiled(Starts, size, brk)
      BY <1>2 DEF Sound
<1>6. ASSUME NEW a \in Starts PROVE size[a] \in Nat /\ size[a] <= brk
      <2>1. size[a] \in Nat /\ a + size[a] <= brk /\ a \in Nat
            BY <1>1, <1>4, <1>5 DEF Tiled, Tile
      <2> QED BY <1>1, <2>1
<1> QED BY <1>2, <1>3, <1>4, <1>5, <1>6 DEF End, EndOf

LEMMA FromListStep ==
  ASSUME IInv, slips = {}, deallocCalled = TRUE, NEW n \in Request, FromList(n)
  PROVE  IInv' /\ Kept
<1> DEFINE k == find_fit(n + H)
           a == free[k]
           d == a + H + n
           m == size[a]
           w == m - n - H
           u == Header(Header(size, d, w), a, n + H)
           new == [at |-> a, n |-> n]
<1>1. H \in Nat /\ H >= 1 /\ n \in Nat /\ Memory \in Nat /\ n + H \in Nat /\ H <= n + H
      BY ConstantsType
<1>2. /\ TypeOK /\ size \in [Addr -> Sizes] /\ brk \in Nat /\ Addr \subseteq Nat /\ brk <= Memory
      /\ free \in Seq(Addr) /\ live \subseteq Block /\ OriginInv
      BY Types DEF IInv
<1>3. /\ Sound(free, size, brk, live) /\ free # <<>>
      /\ program = "alloc.c" => Apart(free, size)
      BY DEF IInv, HeapInv
<1>4. /\ Starts = Held(live) \cup ToSet(free) /\ Starts \subseteq Addr /\ Tiled(Starts, size, brk)
      /\ \A x \in Starts : End(x) = EndOf(Starts, size, brk, x)
      /\ \A j \in DOMAIN free : /\ free[j] \in Addr /\ free[j] \in ToSet(free)
                                /\ size[free[j]] \in Nat /\ size[free[j]] <= brk
      BY <1>2, <1>3, ListIs
<1>5. k = 0 \/ k \in Fits(n + H)
      <2>1. algs \in {"FIRST_FIT", "BEST_FIT", "WORST_FIT"}
            BY <1>2, AllocatorAssumption DEF AllocatorAssumption, TypeOK
      <2> QED BY <1>1, <1>2, <1>4, <2>1, FitIs
<1>6. CASE \E f \in {"null", "junk", "overrun"} : Fault(f)
      BY <1>6, FaultKeeps
<1>7. CASE ~(\E f \in {"null", "junk", "overrun"} : Fault(f))
      <2>1. /\ k # 0 /\ ~(d + H > brk) /\ ~(\E j \in DOMAIN free : free[j] = d)
            /\ size' = Filled(u, a + H, n)
            /\ free' = [free EXCEPT ![k] = d]
            /\ slips' = slips \cup (IF d + H > End(a) THEN {"short split"} ELSE {})
            /\ Give(a, n)
            /\ UNCHANGED <<options, origin, heap, deallocCalled, brk, fault>>
            BY <1>7 DEF FromList, Relinked
      <2>2. k \in DOMAIN free /\ m >= n + H
            BY <1>5, <2>1 DEF Fits
      <2>3. a \in Addr /\ a \in ToSet(free) /\ m \in Nat /\ a \in Starts /\ a = free[k]
            BY <1>4, <2>2
      <2> HIDE DEF k, a, m, u
      <2>4. d \in Addr /\ d + H <= brk /\ w \in Nat /\ d = a + (n + H) /\ w = m - (n + H) /\ a < d
            <3>1. a \in Nat /\ m \in Nat
                  BY <1>2, <2>3
            <3>2. d = a + H + n /\ w = m - n - H /\ ~(d + H > brk)
                  BY <2>1
            <3> HIDE DEF d, w
            <3>3. d \in Nat /\ d = a + (n + H) /\ w = m - (n + H) /\ a < d /\ d + H <= brk
                  BY <3>1, <3>2, <1>1, <1>2
            <3>4. w \in Nat
                  BY <3>1, <3>3, <2>2, <1>1
            <3>5. d \in Addr
                  BY <3>3, <1>1, <1>2 DEF Addr
            <3> QED BY <3>3, <3>4, <3>5
      <2>5. d = a + H + n /\ d \notin ToSet(free)
            BY <2>1 DEF ToSet
      <2> HIDE DEF d, w
      <2>6. /\ u \in [Addr -> Sizes] /\ u[a] = n + H /\ u[d] = w
            /\ \A x \in Addr : x + H <= a \/ d + H <= x => u[x] = size[x]
            <3> DEFINE v == n + H
            <3>1. u = Header(Header(size, d, w), a, v) \/ u = Header(Header(size, a, v), d, w)
                  BY DEF u
            <3>2. /\ v \in Nat /\ size \in [Addr -> Sizes] /\ a \in Addr /\ n \in Nat /\ d \in Addr
                  /\ d = a + H + n /\ w \in Nat
                  BY <1>1, <1>2, <2>3, <2>4, <2>5
            <3> HIDE DEF v
            <3>3. /\ u \in [Addr -> Sizes] /\ u[a] = v /\ u[d] = w
                  /\ \A x \in Addr : x + H <= a \/ d + H <= x => u[x] = size[x]
                  BY ONLY <3>1, <3>2, TwoHeaders
            <3> QED BY <3>3 DEF v
      <2>7. size' \in [Addr -> Sizes] /\ \A x \in Addr : x <= a \/ d <= x => size'[x] = u[x]
            <3>1. u \in [Addr -> Sizes] /\ a \in Addr /\ n \in Nat /\ d = a + H + n
                  BY <1>1, <2>3, <2>5, <2>6
            <3>2. /\ Filled(u, a + H, n) \in [Addr -> Sizes]
                  /\ \A x \in Addr : x <= a \/ a + H + n <= x => Filled(u, a + H, n)[x] = u[x]
                  BY ONLY <3>1, FilledBlock
            <3>3. size' = Filled(u, a + H, n)
                  BY <2>1
            <3> QED BY <3>1, <3>2, <3>3
      <2>8. size'[a] = n + H /\ size'[d] = w
            <3>1. a <= a /\ d <= d
                  BY <1>2, <2>3, <2>4
            <3> QED BY <3>1, <2>3, <2>4, <2>6, <2>7
      <2>9. /\ free' \in Seq(Addr) /\ DOMAIN free' = DOMAIN free /\ free'[k] = d
            /\ \A j \in DOMAIN free : j # k => free'[j] = free[j]
            /\ Distinct(free')
            /\ ToSet(free') = (ToSet(free) \ {a}) \cup {d}
            <3>1. free \in Seq(Addr) /\ k \in DOMAIN free /\ d \in Addr /\ free' = [free EXCEPT ![k] = d]
                  BY <1>2, <2>1, <2>2, <2>4
            <3>2. Distinct(free) /\ d \notin ToSet(free) /\ a = free[k]
                  BY <1>3, <2>3, <2>5 DEF Sound
            <3> DEFINE g == free'
            <3>3. g = [free EXCEPT ![k] = d]
                  BY <3>1
            <3> HIDE DEF g
            <3>4. /\ g \in Seq(Addr) /\ DOMAIN g = DOMAIN free /\ g[k] = d
                  /\ \A j \in DOMAIN free : j # k => g[j] = free[j]
                  /\ Distinct(g) /\ ToSet(g) = (ToSet(free) \ {free[k]}) \cup {d}
                  <4>1. IsReplaced(Addr, free, k, d, g)
                        BY ONLY <3>1, <3>2, <3>3 DEF IsReplaced
                  <4> QED BY ONLY <4>1, ReplacedIn
            <3> QED BY <3>2, <3>4 DEF g
      <2>10. new \in Block /\ live' = live \cup {new} /\ new.at = a /\ new.n = n
             BY <2>1, <2>3 DEF Block, Give
      <2> HIDE DEF new
      <2>11. Held(live') = Held(live) \cup {a} /\ live' \subseteq Block
             BY <1>2, <2>10 DEF Held
      <2>12. TypeOK' /\ OriginInv'
             <3>1. slips' \subseteq {"short split"}
                   BY <2>1
             <3> QED BY <1>2, <2>1, <2>7, <2>9, <2>11, <3>1 DEF TypeOK, OriginInv, options, Sizes, Block
      <2>13. ASSUME slips' = {} PROVE HeapInv' /\ \A x \in live : size'[x.at] = size[x.at]
             <3> DEFINE S == Starts
                        t == size'
             <3>1. d + H <= EndOf(S, size, brk, a)
                   <4>1. ~(d + H > End(a)) /\ End(a) = EndOf(S, size, brk, a)
                         BY <2>1, <2>3, <2>13, <1>4
                   <4>2. S \subseteq Nat
                         BY <1>2, <1>4
                   <4>3. EndOf(S, size, brk, a) \in Nat
                         BY <1>2, <1>4, <2>3, <4>2, TilesTouch
                   <4>4. d + H \in Nat
                         BY <1>1, <1>2, <2>4
                   <4> QED BY <4>1, <4>3, <4>4
             <3> HIDE DEF S, t
             <3>2. S \subseteq Nat /\ S \subseteq Addr /\ Tiled(S, size, brk) /\ a \in S /\ d \in Nat
                   BY <1>2, <1>4, <2>3, <2>4 DEF S
             <3>3. ASSUME NEW c \in S \ {a}
                   PROVE  (c + H <= a \/ d + H <= c) /\ t[c] = size[c]
                   <4>1. c \in Addr /\ c \in Nat /\ a \in Nat /\ c \in S
                         BY <1>2, <2>3, <3>2
                   <4>2. c < a => c + H <= a
                         BY <3>2, <4>1 DEF Tiled, Tile
                   <4>3. c <= a \/ EndOf(S, size, brk, a) <= c
                         BY <1>2, <3>2, <4>1, TilesTouch
                   <4>4. EndOf(S, size, brk, a) \in Nat
                         BY <1>2, <3>2, TilesTouch
                   <4>5. c + H <= a \/ d + H <= c
                         BY <4>1, <4>2, <4>3, <4>4, <3>1, <3>2, <1>1
                   <4>6. c <= a \/ d <= c
                         BY <4>5, <4>1, <1>1, <3>2
                   <4> QED BY <4>1, <4>5, <4>6, <2>6, <2>7 DEF t
             <3>4. t[a] = n + H /\ t[d] = size[a] - (n + H) /\ n + H <= size[a]
                   BY <2>2, <2>4, <2>8, <1>1, <2>3 DEF t, m
             <3>5. Tiled(S \cup {d}, t, brk) /\ d \notin S
                   <4> DEFINE q == n + H
                   <4>1. /\ q \in Nat /\ H <= q /\ d = a + q /\ q <= size[a]
                         /\ t[a] = q /\ t[d] = size[a] - q
                         BY <1>1, <2>4, <3>4
                   <4>2. \A c \in S \ {a} : t[c] = size[c]
                         BY <3>3
                   <4> HIDE DEF q
                   <4>3. /\ S \subseteq Nat /\ brk \in Nat /\ Tiled(S, size, brk) /\ a \in S /\ d \in Nat
                         /\ d + H <= EndOf(S, size, brk, a)
                         BY <1>2, <3>1, <3>2
                   <4>4. IsSplit(S, size, t, brk, a, q, d)
                         BY ONLY <4>1, <4>2, <4>3 DEF IsSplit
                   <4> QED BY ONLY <4>4, SplitTiles
             <3>6. Held(live') \cup ToSet(free') = S \cup {d}
                   BY <1>4, <2>3, <2>9, <2>11 DEF S
             <3>7. a \notin Held(live)
                   BY <1>3, <2>3 DEF Sound
             <3>8. Held(live') \cap ToSet(free') = {}
                   <4>1. Held(live) \cap ToSet(free) = {} /\ d \notin Held(live) /\ d # a
                         BY <1>3, <1>4, <3>5, <2>3, <2>4 DEF Sound, S
                   <4> QED BY <4>1, <2>9, <2>11
             <3>13. ASSUME NEW x \in live PROVE x.at # a /\ t[x.at] = size[x.at]
                   <4>1. x.at \in Held(live) /\ x.at # a /\ x.at \in S
                         BY <3>7, <1>4 DEF Held, S
                   <4> QED BY <3>3, <4>1
             <3>9. Fitting(t, live')
                   <4>3. H + n <= t[a]
                         BY <3>4, <1>1
                   <4>4. Fitting(size, live)
                         BY <1>3 DEF Sound
                   <4> QED BY <2>10, <3>13, <4>3, <4>4 DEF Fitting
             <3>10. Sound(free', t, brk', live')
                   BY <2>1, <2>9, <3>5, <3>6, <3>8, <3>9 DEF Sound
             <3>11. ASSUME program' = "alloc.c" PROVE Apart(free', t)
                   <4>1. Apart(free, size)
                         BY <1>3, <2>1, <3>11 DEF options
                   <4>2. SUFFICES ASSUME NEW i \in DOMAIN free, NEW j \in DOMAIN free,
                                         Touch(t, free'[i], free'[j])
                                  PROVE  FALSE
                         BY <2>9 DEF Apart
                   <4>3. free'[i] # free'[j] /\ free'[i] + t[free'[i]] = free'[j]
                         BY <4>2 DEF Touch
                   <4>4. \A x \in DOMAIN free : x # k => free[x] \in S \ {a}
                         <5>1. \A x \in DOMAIN free : x # k => free[x] # a
                               BY <1>3, <2>2, <2>3 DEF Sound, Distinct
                         <5> QED BY <5>1, <1>4 DEF S
                   <4>5. CASE i # k /\ j # k
                         <5>1. t[free[i]] = size[free[i]]
                               BY <4>4, <4>5, <3>3
                         <5>2. Touch(size, free[i], free[j])
                               BY <5>1, <4>3, <4>5, <2>9 DEF Touch
                         <5> QED BY <5>2, <4>1 DEF Apart
                   <4>6. CASE i = k /\ j # k
                         <5>1. d + w = free[j] /\ free[j] # a
                               BY <4>3, <4>4, <4>6, <2>8, <2>9 DEF t
                         <5>2. d + w = a + m
                               BY <2>3, <2>4, <1>1, <1>2
                         <5>3. Touch(size, free[k], free[j])
                               BY <5>1, <5>2, <2>3 DEF Touch, m
                         <5> QED BY <5>3, <4>1, <2>2 DEF Apart
                   <4>7. CASE i # k /\ j = k
                         <5> DEFINE c == free[i]
                         <5>1. c \in S \ {a} /\ c \in S
                               BY <4>4, <4>7
                         <5>2. c + size[c] = d
                               BY <4>3, <4>7, <5>1, <3>3, <2>9
                         <5>3. size[c] \in Nat /\ (c < a => c + size[c] <= a)
                               BY <3>2, <5>1 DEF Tiled, Tile
                         <5> HIDE DEF c
                         <5>4. c + H <= a \/ d + H <= c
                               BY <3>3, <5>1
                         <5>5. c \in Nat /\ a \in Nat /\ c # a
                               BY <1>2, <2>3, <3>2, <5>1
                         <5> QED BY <5>2, <5>3, <5>4, <5>5, <2>4, <1>1, <3>2
                   <4>8. CASE i = k /\ j = k
                         BY <4>3, <4>8
                   <4> QED BY <4>5, <4>6, <4>7, <4>8
             <3>12. free' # <<>> /\ deallocCalled' = TRUE
                   <4>1. deallocCalled' = TRUE
                         BY <2>1
                   <4>2. DOMAIN <<>> = {} /\ DOMAIN free' # {}
                         BY <2>2, <2>9
                   <4> QED BY <4>1, <4>2
             <3> QED BY <3>10, <3>11, <3>12, <3>13 DEF HeapInv, t
      <2> QED BY <2>12, <2>13 DEF IInv, Kept
<1> QED BY <1>6, <1>7

-----------------------------------------------------------------------------
(* Freeing.                                                                *)

LEMMA InFront ==
  ASSUME NEW X, NEW f \in Seq(X), NEW d \in X
  PROVE  /\ <<d>> \o f \in Seq(X) /\ <<d>> \o f # <<>> /\ ToSet(<<d>> \o f) = {d} \cup ToSet(f)
         /\ Distinct(f) /\ d \notin ToSet(f) => Distinct(<<d>> \o f)
<1> DEFINE g == <<d>> \o f
<1>1. DOMAIN f = 1..Len(f) /\ Len(f) \in Nat
      BY LenProperties
<1>2. <<d>> \in Seq(X) /\ Len(<<d>>) = 1 /\ <<d>>[1] = d
      OBVIOUS
<1>3. /\ g \in Seq(X) /\ Len(g) = 1 + Len(f)
      /\ \A i \in 1..(1 + Len(f)) : g[i] = IF i <= 1 THEN <<d>>[i] ELSE f[i - 1]
      BY <1>1, <1>2, ConcatProperties
<1> HIDE DEF g
<1>4. DOMAIN g = 1..(1 + Len(f)) /\ g[1] = d
      BY <1>1, <1>2, <1>3, LenProperties
<1>5. \A i \in DOMAIN f : i + 1 \in DOMAIN g /\ g[i + 1] = f[i]
      <2> SUFFICES ASSUME NEW i \in DOMAIN f PROVE i + 1 \in DOMAIN g /\ g[i + 1] = f[i]
          OBVIOUS
      <2>1. i + 1 \in 1..(1 + Len(f)) /\ ~(i + 1 <= 1) /\ (i + 1) - 1 = i
            BY <1>1
      <2> QED BY <2>1, <1>3, <1>4
<1>6. \A i \in DOMAIN g : i = 1 \/ (i - 1 \in DOMAIN f /\ g[i] = f[i - 1])
      BY <1>1, <1>3, <1>4
<1>7. ToSet(g) = {d} \cup ToSet(f)
      <2>1. ASSUME NEW x \in ToSet(g) PROVE x \in {d} \cup ToSet(f)
            BY <1>4, <1>6 DEF ToSet
      <2>2. ASSUME NEW x \in {d} \cup ToSet(f) PROVE x \in ToSet(g)
            <3>1. CASE x = d
                  <4>1. 1 \in DOMAIN g
                        BY <1>1, <1>4
                  <4> QED BY <3>1, <4>1, <1>4 DEF ToSet
            <3>2. CASE x \in ToSet(f)
                  <4>1. PICK i \in DOMAIN f : x = f[i]
                        BY <3>2 DEF ToSet
                  <4> QED BY <4>1, <1>5 DEF ToSet
            <3> QED BY <3>1, <3>2
      <2> QED BY <2>1, <2>2
<1>8. ASSUME Distinct(f), d \notin ToSet(f) PROVE Distinct(g)
      <2> SUFFICES ASSUME NEW i \in DOMAIN g, NEW j \in DOMAIN g, g[i] = g[j] PROVE i = j
          BY DEF Distinct
      <2>1. \A k \in DOMAIN f : f[k] # d
            BY <1>8 DEF ToSet
      <2>2. CASE i = 1 \/ j = 1
            BY <2>1, <2>2, <1>4, <1>6
      <2>3. CASE i # 1 /\ j # 1
            <3>1. i - 1 \in DOMAIN f /\ j - 1 \in DOMAIN f /\ f[i - 1] = f[j - 1]
                  BY <2>3, <1>6
            <3>2. i - 1 = j - 1
                  BY <3>1, <1>8 DEF Distinct
            <3> QED BY <3>2, <1>1, <1>4
      <2> QED BY <2>2, <2>3
<1>9. g # <<>>
      <2>1. DOMAIN <<>> = {} /\ 1 \in DOMAIN g
            BY <1>1, <1>4
      <2> QED BY <2>1
<1> QED BY <1>3, <1>7, <1>8, <1>9 DEF g

(* K are the headers of the blocks still held.                             *)
Freed(h, K, b) ==
  /\ Tiled(K \cup ToSet(h.free), h.size, b) /\ K \cap ToSet(h.free) = {}
  /\ Distinct(h.free) /\ h.free # <<>>

LEMMA JoinedIsFreed ==
  ASSUME NEW h \in Listed, NEW K, K \subseteq Addr, NEW b \in Nat, Freed(h, K, b),
         NEW a \in DOMAIN h.free, NEW g \in DOMAIN h.free, Touch(h.size, h.free[a], h.free[g])
  PROVE  /\ Freed(Joined(h, a, g), K, b)
         /\ \A c \in K : Joined(h, a, g).size[c] = h.size[c]
<1> DEFINE f == h.free
           s == h.size
           t == [s EXCEPT ![f[a]] = s[f[a]] + s[f[g]]]
           r == RemoveAt(f, g)
           S == K \cup ToSet(f)
<1>1. /\ f \in Seq(Addr) /\ s \in [Addr -> Sizes] /\ Addr \subseteq Nat
      BY ConstantsType DEF Listed, Addr
<1>2. f[a] \in ToSet(f) /\ f[g] \in ToSet(f) /\ f[a] # f[g] /\ f[a] + s[f[a]] = f[g]
      BY DEF ToSet, Touch
<1>3. Joined(h, a, g) = [free |-> r, size |-> t]
      BY DEF Joined
<1>4. Distinct(r) /\ ToSet(r) = ToSet(f) \ {f[g]}
      BY <1>1, RemoveAtTakes DEF Freed
<1>5. ToSet(f) \subseteq Addr
      BY <1>1, ElementOfSeq, LenProperties DEF ToSet
<1>6. t[f[a]] = s[f[a]] + s[f[g]] /\ \A c \in S \ {f[a], f[g]} : t[c] = s[c]
      BY <1>1, <1>2, <1>5
<1> HIDE DEF r, t
<1>7. Tiled(S, s, b) /\ K \cap ToSet(f) = {} /\ S \subseteq Nat
      BY <1>1, <1>5 DEF Freed
<1>8. Tiled(S \ {f[g]}, t, b)
      <2> DEFINE x == f[a]
                 y == f[g]
      <2>1. /\ S \subseteq Nat /\ Tiled(S, s, b) /\ x \in S /\ y \in S /\ x # y /\ x + s[x] = y
            /\ t[x] = s[x] + s[y] /\ \A c \in S \ {x, y} : t[c] = s[c] /\ b \in Nat
            BY <1>2, <1>6, <1>7
      <2> HIDE DEF x, y, S
      <2>2. IsMerge(S, s, t, b, x, y)
            BY ONLY <2>1 DEF IsMerge
      <2>3. Tiled(S \ {y}, t, b)
            BY ONLY <2>2, MergeTiles
      <2> QED BY <2>3 DEF y
<1>9. K \cup ToSet(r) = S \ {f[g]}
      BY <1>2, <1>4, <1>7
<1>10. r # <<>>
      <2>1. ToSet(<<>>) = {}
            BY DEF ToSet
      <2> QED BY <1>2, <1>4, <2>1
<1>11. \A c \in K : t[c] = s[c]
      BY <1>2, <1>6, <1>7
<1>12. K \cap ToSet(r) = {}
      BY <1>4, <1>7
<1> DEFINE j == Joined(h, a, g)
<1>13. j.free = r /\ j.size = t
      BY <1>3
<1> HIDE DEF j, S
<1>14. Tiled(K \cup ToSet(r), t, b)
      BY <1>8, <1>9
<1>15. Freed(j, K, b)
      BY <1>4, <1>10, <1>12, <1>13, <1>14 DEF Freed
<1> QED BY <1>11, <1>13, <1>15 DEF j

LEMMA Coalescing ==
  ASSUME NEW h \in Listed, NEW K, K \subseteq Addr, NEW b \in Nat, Freed(h, K, b)
  PROVE  /\ Freed(coalesce_unsorted(h), K, b) /\ NoTouch(coalesce_unsorted(h))
         /\ \A c \in K : coalesce_unsorted(h).size[c] = h.size[c]
<1> DEFINE T == {x \in Listed : Freed(x, K, b) /\ \A c \in K : x.size[c] = h.size[c]}
<1>1. ASSUME NEW x \in T PROVE MergeOnce(x) \in T
      <2>1. x \in Listed /\ Freed(x, K, b) /\ \A c \in K : x.size[c] = h.size[c]
            OBVIOUS
      <2> HIDE DEF T
      <2>2. CASE MergeOnce(x) = x
            BY <2>2
      <2>3. ASSUME NEW a \in DOMAIN x.free, NEW g \in DOMAIN x.free,
                   Touch(x.size, x.free[a], x.free[g]), MergeOnce(x) = Joined(x, a, g)
            PROVE  MergeOnce(x) \in T
            <3>1. Joined(x, a, g) \in Listed
                  BY <2>1, JoinedIsListed
            <3>2. /\ Freed(Joined(x, a, g), K, b)
                  /\ \A c \in K : Joined(x, a, g).size[c] = x.size[c]
                  BY <2>1, <2>3, JoinedIsFreed
            <3> QED BY <2>1, <2>3, <3>1, <3>2 DEF T
      <2> QED BY <2>1, <2>2, <2>3, MergeOnceIs
<1>2. T \subseteq Listed /\ h \in T
      OBVIOUS
<1> DEFINE m == coalesce_unsorted(h)
<1>3. m \in T /\ NoTouch(m)
      <2> HIDE DEF T
      <2> QED BY <1>1, <1>2, Coalesced
<1>4. Freed(m, K, b) /\ \A c \in K : m.size[c] = h.size[c]
      BY <1>3
<1> QED BY <1>3, <1>4

(* Whatever the list is like, both files leave a list with its sizes.      *)
LEMMA MergedIsTyped ==
  ASSUME NEW h \in Listed
  PROVE  /\ coalesce_unsorted(h).free \in Seq(Addr) /\ coalesce_unsorted(h).size \in [Addr -> Sizes]
         /\ Walk(h).free \in Seq(Addr) /\ Walk(h).size \in [Addr -> Sizes]
<1>1. ASSUME NEW x \in Listed PROVE MergeOnce(x) \in Listed
      BY MergeOnceIs, JoinedIsListed
<1>2. coalesce_unsorted(h) \in Listed
      BY <1>1, Coalesced
<1> QED BY <1>2, WalkType DEF Listed

LEMMA DeallocStep ==
  ASSUME IInv, NEW b \in live, dealloc(b)
  PROVE  IInv' /\ Kept
<1> DEFINE freed == <<b.at>> \o free
           h == [free |-> freed, size |-> size]
           merged == IF program = "alloc.c" THEN coalesce_unsorted(h) ELSE Walk(h)
           K == Held(live \ {b})
<1>1. /\ TypeOK /\ free \in Seq(Addr) /\ size \in [Addr -> Sizes] /\ brk \in Nat
      /\ live \subseteq Block /\ b.at \in Addr /\ Addr \subseteq Nat /\ OriginInv
      BY Types DEF IInv, Block
<1>2. freed \in Seq(Addr) /\ freed # <<>> /\ ToSet(freed) = {b.at} \cup ToSet(free)
      BY <1>1, InFront
<1>3. CASE \E k \in DOMAIN freed : size[freed[k]] = Junk
      <2>1. Fault("junk")
            BY <1>3 DEF dealloc
      <2> QED BY <2>1, FaultKeeps
<1>4. CASE ~(\E k \in DOMAIN freed : size[freed[k]] = Junk)
      <2>1. /\ free' = merged.free /\ size' = merged.size
            /\ live' = live \ {b} /\ deallocCalled' = TRUE
            /\ slips' = slips \cup
                 (IF program = "alloc2.c" /\ <<merged.free, merged.size>> # <<freed, size>>
                    THEN {"false merge"} ELSE {})
            /\ UNCHANGED <<options, origin, heap, brk, fault>>
            BY <1>4 DEF dealloc
      <2>2. h \in Listed
            <3>1. \A k \in DOMAIN freed : freed[k] \in Addr
                  BY <1>2, ElementOfSeq, LenProperties
            <3>2. \A k \in DOMAIN freed : size[freed[k]] \in Nat
                  BY <1>1, <1>4, <3>1 DEF Sizes
            <3> QED BY <1>1, <1>2, <3>2 DEF Listed
      <2>3. merged.free \in Seq(Addr) /\ merged.size \in [Addr -> Sizes]
            BY <2>2, MergedIsTyped
      <2>4. h.free = freed /\ h.size = size
            OBVIOUS
      <2> HIDE DEF h, freed
      <2>5. TypeOK' /\ OriginInv'
            <3> HIDE DEF merged
            <3>1. /\ free' \in Seq(Addr) /\ size' \in [Addr -> Nat \cup {Junk}]
                  /\ live' \subseteq Block /\ deallocCalled' \in BOOLEAN
                  BY <1>1, <2>1, <2>3 DEF Sizes
            <3>2. slips' \subseteq {"size not corrected", "grown past the end", "stale head",
                                    "short split", "false merge"}
                  BY <1>1, <2>1 DEF TypeOK
            <3> QED BY <1>1, <2>1, <3>1, <3>2 DEF TypeOK, OriginInv, options, Block
      <2>6. ASSUME slips' = {} PROVE HeapInv' /\ Kept
            <3>1. /\ Sound(free, size, brk, live) /\ slips = {}
                  BY <2>1, <2>6 DEF IInv, HeapInv
            <3>2. Held(live) = K \cup {b.at} /\ b.at \notin K /\ K \subseteq Addr
                  <4>1. \A x, y \in live : x.at = y.at => x = y
                        BY <3>1 DEF Sound, Fitting
                  <4>2. \A x \in live : x.at \in Addr
                        BY <1>1 DEF Block
                  <4> QED BY <4>1, <4>2 DEF Held
            <3> HIDE DEF K
            <3>3. Freed(h, K, brk)
                  <4>1. K \cup ToSet(freed) = Held(live) \cup ToSet(free)
                        BY <1>2, <3>2
                  <4>2. Held(live) \cap ToSet(free) = {} /\ Distinct(free)
                        BY <3>1 DEF Sound
                  <4>3. b.at \notin ToSet(free)
                        BY <3>2, <4>2
                  <4>4. Distinct(freed)
                        BY <1>1, <4>2, <4>3, InFront DEF freed
                  <4>5. K \cap ToSet(freed) = {}
                        BY <1>2, <3>2, <4>2
                  <4>6. Tiled(K \cup ToSet(freed), size, brk)
                        BY <3>1, <4>1 DEF Sound
                  <4> QED BY <1>2, <2>4, <4>4, <4>5, <4>6 DEF Freed
            <3>4. /\ Freed(merged, K, brk) /\ \A c \in K : merged.size[c] = size[c]
                  /\ program = "alloc.c" => NoTouch(merged)
                  <4>1. CASE program = "alloc.c"
                        <5>1. merged = coalesce_unsorted(h)
                              BY <4>1
                        <5> HIDE DEF merged
                        <5> QED BY <1>1, <2>2, <2>4, <3>2, <3>3, <5>1, Coalescing
                  <4>2. CASE program # "alloc.c"
                        <5>1. program = "alloc2.c"
                              BY <1>1, <4>2, AllocatorAssumption DEF AllocatorAssumption, TypeOK
                        <5> HIDE DEF merged
                        <5>2. merged.free = h.free /\ merged.size = h.size
                              BY <2>1, <2>4, <2>6, <5>1
                        <5> QED BY <2>4, <3>3, <4>2, <5>2 DEF Freed
                  <4> QED BY <4>1, <4>2
            <3> HIDE DEF merged
            <3>5. Fitting(size', live') /\ Kept
                  <4>1. \A x \in live' : x.at \in K /\ x \in live
                        BY <2>1 DEF Held, K
                  <4>2. \A x \in live' : size'[x.at] = size[x.at]
                        BY <2>1, <3>4, <4>1
                  <4>3. Fitting(size, live)
                        BY <3>1 DEF Sound
                  <4> QED BY <4>1, <4>2, <4>3 DEF Fitting, Kept
            <3>6. Held(live') = K
                  BY <2>1 DEF K
            <3>7. Sound(free', size', brk', live') /\ free' # <<>>
                  BY <2>1, <3>4, <3>5, <3>6 DEF Freed, Sound
            <3>8. program' = "alloc.c" => Apart(free', size')
                  BY <2>1, <3>4 DEF NoTouch, Apart, options
            <3> QED BY <2>1, <3>5, <3>7, <3>8 DEF HeapInv
      <2> QED BY <2>5, <2>6 DEF IInv, Kept
<1> QED BY <1>3, <1>4

-----------------------------------------------------------------------------
(* The other steps.                                                        *)

LEMMA ResetStep ==
  ASSUME IInv, slips = {}, NEW a \in Algs, NEW n \in Limit, allocopt(a, n) \/ allocopt2(a, n)
  PROVE  IInv' /\ Kept
<1>1. /\ TypeOK /\ OriginInv /\ brk \in 0..Memory /\ origin \in Addr \cup {NULL} /\ MaxTests \in Nat
      /\ Memory \in Nat /\ H \in Nat /\ n \in Nat /\ tests \in 0..MaxTests /\ Addr \subseteq Nat
      BY ConstantsType, AllocatorAssumption, Types DEF IInv, TypeOK, AllocatorAssumption
<1>2. /\ brk' = IF origin = NULL THEN brk ELSE origin
      /\ free' = <<>> /\ live' = {} /\ deallocCalled' = FALSE /\ slips' = {}
      /\ UNCHANGED <<program, size, fault>>
      /\ tests < MaxTests /\ tests' = tests + 1
      /\ algs' = a /\ limit' = n /\ origin' = brk' /\ heap' = n
      BY DEF allocopt, allocopt2, resetalloc, Options
<1>3. brk' \in 0..Memory
      <2>1. origin # NULL => origin \in Nat /\ origin <= Memory
            BY <1>1 DEF OriginInv
      <2> DEFINE b == IF origin = NULL THEN brk ELSE origin
      <2>2. b \in 0..Memory
            BY <1>1, <2>1
      <2> HIDE DEF b
      <2>3. brk' = b
            BY <1>2 DEF b
      <2> QED BY <2>2, <2>3
<1> DEFINE c == brk'
<1>4. c \in 0..Memory
      BY <1>3
<1>5. origin' = c /\ brk' = c
      BY <1>2
<1> HIDE DEF c
<1>6. c \in Nat /\ c <= Memory /\ c \in Addr
      BY <1>1, <1>4 DEF Addr
<1>7. TypeOK'
      <2>1. tests' \in 0..MaxTests
            BY <1>1, <1>2
      <2>2. /\ program' \in Program /\ limit' \in Limit \cup {0} /\ algs' \in Algs \cup {"FIRST_FIT"}
            /\ free' \in Seq(Addr) /\ size' \in [Addr -> Nat \cup {Junk}]
            BY <1>1, <1>2 DEF TypeOK
      <2>3. /\ heap' \in Nat /\ deallocCalled' \in BOOLEAN /\ live' \subseteq Block
            /\ fault' \in {"none", "null", "junk", "overrun"} /\ slips' = {}
            BY <1>1, <1>2 DEF TypeOK
      <2> QED BY <1>4, <1>5, <1>6, <2>1, <2>2, <2>3 DEF TypeOK, Block
<1>8. OriginInv'
      BY <1>5, <1>6 DEF OriginInv
<1>9. HeapInv'
      <2> DEFINE s == size'
      <2>1. Rested(<<>>, s, c, {}) /\ Fitting(s, {})
            BY DEF Rested, Chain, Held, Fitting
      <2>2. Sound(<<>>, s, c, {}) /\ Apart(<<>>, s)
            <3>1. {} \subseteq Block
                  OBVIOUS
            <3> HIDE DEF s
            <3> QED BY <1>6, <2>1, <3>1, RestedIsSound
      <2>3. free' = <<>> /\ live' = {} /\ deallocCalled' = FALSE /\ brk' = c
            BY <1>2, <1>5
      <2> QED BY <2>1, <2>2, <2>3 DEF HeapInv
<1>10. Kept
      BY <1>2 DEF Kept
<1> QED BY <1>7, <1>8, <1>9, <1>10 DEF IInv

LEMMA StepKeeps == IInv /\ [Next]_vars => IInv' /\ Kept
<1> SUFFICES ASSUME IInv, [Next]_vars PROVE IInv' /\ Kept
    OBVIOUS
<1>1. CASE UNCHANGED vars
      BY <1>1 DEF IInv, TypeOK, OriginInv, HeapInv, vars, options, Kept
<1>2. ASSUME slips = {}, NEW n \in Request, alloc(n) \/ alloc2(n) PROVE IInv' /\ Kept
      <2>1. deallocCalled \in BOOLEAN
            BY DEF IInv, TypeOK
      <2>2. CASE deallocCalled = FALSE
            <3>1. FromRest(n) \/ (NeedsBreak(n) /\ UNCHANGED vars) \/ SbrkUnchecked(n)
                  BY <1>2, <2>2 DEF alloc, alloc2
            <3> QED BY <1>2, <2>2, <3>1, FromRestStep
      <2>3. CASE deallocCalled = TRUE
            <3>1. FromList(n)
                  BY <1>2, <2>3 DEF alloc, alloc2
            <3> QED BY <1>2, <2>3, <3>1, FromListStep
      <2> QED BY <2>1, <2>2, <2>3
<1>3. ASSUME NEW b \in live, dealloc(b) PROVE IInv' /\ Kept
      BY <1>3, DeallocStep
<1>4. ASSUME slips = {}, NEW a \in Algs, NEW n \in Limit, allocopt(a, n) \/ allocopt2(a, n)
      PROVE  IInv' /\ Kept
      BY <1>4, ResetStep
<1> QED BY <1>1, <1>2, <1>3, <1>4 DEF Next

LEMMA Invariance == Spec => []IInv
<1>1. IInv /\ [Next]_vars => IInv'
      BY StepKeeps
<1> QED BY <1>1, InitIInv, PTL DEF Spec

-----------------------------------------------------------------------------
(* The theorems.                                                           *)

(* Every field keeps its type, also after a slip and in what alloc2.c's    *)
(* walk leaves of the list: an address in the list is one of the memory,   *)
(* and a size field is a size or junk.                                     *)
THEOREM TypeCorrect == Spec => []TypeOK
<1>1. IInv => TypeOK
      BY DEF IInv
<1> QED BY <1>1, Invariance, PTL

(* As long as no size field stopped being true, alloc(), dealloc() and     *)
(* allocopt() of both files keep blocks and free chunks tiling the heap:   *)
(* nothing overlaps, nothing is lost, every request lies in its block.     *)
THEOREM HeapIsTiled == Spec => []Tiling
<1>1. IInv => Tiling
      <2> SUFFICES ASSUME IInv, slips = {} PROVE Tiling
          BY DEF Tiling
      <2>1. TypeOK /\ Sound(free, size, brk, live) /\ brk \in Nat /\ Addr \subseteq Nat
            BY Types DEF IInv, HeapInv
      <2>2. /\ Starts = Held(live) \cup ToSet(free) /\ Starts \subseteq Nat /\ Tiled(Starts, size, brk)
            /\ \A a \in Starts : End(a) = EndOf(Starts, size, brk, a)
            BY <2>1, ListIs
      <2>3. ASSUME NEW a \in Starts
            PROVE  /\ size[a] # Junk /\ End(a) \in Starts \cup {brk}
                   /\ \A c \in Starts : c <= a \/ c >= End(a)
            <3>1. size[a] \in Nat
                  BY <2>2 DEF Tiled, Tile
            <3>2. /\ EndOf(Starts, size, brk, a) \in Starts \cup {brk}
                  /\ EndOf(Starts, size, brk, a) \in Nat
                  /\ \A c \in Starts : c <= a \/ EndOf(Starts, size, brk, a) <= c
                  BY <2>1, <2>2, TilesTouch
            <3>3. size[a] # Junk
                  BY <3>1 DEF Junk
            <3>4. \A c \in Starts : c <= a \/ c >= EndOf(Starts, size, brk, a)
                  BY <2>2, <3>2
            <3> QED BY <2>2, <3>2, <3>3, <3>4
      <2>4. ASSUME NEW b \in live PROVE b.at + H + b.n <= End(b.at) /\ b.at \notin ToSet(free)
            <3>1. b.at \in Held(live) /\ b.at \in Starts /\ H + b.n <= size[b.at]
                  BY <2>1, <2>2 DEF Held, Sound, Fitting
            <3>2. b.at \notin ToSet(free)
                  BY <2>1, <3>1 DEF Sound
            <3> DEFINE a == b.at
                       m == size[a]
            <3>3. /\ a \in Starts /\ a + m <= EndOf(Starts, size, brk, a)
                  /\ EndOf(Starts, size, brk, a) \in Nat /\ a \in Nat
                  BY <2>1, <2>2, <3>1, TilesTouch
            <3>4. m \in Nat /\ H \in Nat /\ b.n \in Nat
                  BY <2>1, <2>2, <3>1, ConstantsType, Types DEF Tiled, Tile, Block
            <3>5. H + b.n <= m /\ End(a) = EndOf(Starts, size, brk, a)
                  BY <2>2, <3>1
            <3> HIDE DEF a, m
            <3>6. a + H + b.n <= End(a)
                  BY <3>3, <3>4, <3>5
            <3> QED BY <3>2, <3>6 DEF a
      <2> QED BY <2>3, <2>4 DEF Tiling
<1> QED BY <1>1, Invariance, PTL

(* coalesce_unsorted() of alloc.c leaves no two free chunks that touch,    *)
(* and neither the splits nor the resets bring a pair back.                *)
THEOREM NoNeighboursLeft == Spec => []NoNeighbours
<1>1. IInv => NoNeighbours
      BY DEF IInv, HeapInv, NoNeighbours, Apart
<1> QED BY <1>1, Invariance, PTL

(* No alloc(), dealloc() or allocopt() changes the size field of a block   *)
(* that stays with the caller.                                             *)
THEOREM HeadersAreKept == Spec => LiveUntouched
<1>1. IInv /\ [Next]_vars =>
        [slips' = {} => \A b \in live \cap live' : size'[b.at] = size[b.at]]_vars
      BY StepKeeps DEF Kept
<1> QED BY <1>1, Invariance, PTL DEF Spec, LiveUntouched

(* Adding up a sequence: iter is what FoldLeft recurses over.              *)
Adds(q, D, g) == g = [s \in SUBSET D |-> IF s = {} THEN 0 ELSE g[s \ {Max(s)}] + q[Max(s)]]

LEMMA MaxUpTo == ASSUME NEW n \in Nat, NEW s, s \subseteq 1..(n + 1), n + 1 \in s PROVE Max(s) = n + 1
<1>1. \A x \in s : n + 1 >= x /\ x \in Nat
      OBVIOUS
<1>2. \A x \in s : (\A y \in s : x >= y) => x = n + 1
      BY <1>1
<1>3. Max(s) \in s /\ \A y \in s : Max(s) >= y
      <2>1. \E x \in s : \A y \in s : x >= y
            BY <1>1
      <2> QED BY <2>1 DEF Max
<1> QED BY <1>2, <1>3

LEMMA Summed ==
  ASSUME NEW q \in Seq(Nat), NEW p \in [0..Len(q) -> Nat], p[0] = 0,
         \A i \in 1..Len(q) : p[i] = p[i - 1] + q[i]
  PROVE  FoldLeft(+, 0, q) = p[Len(q)]
<1> DEFINE L == Len(q)
           D == 1..L
           iter == CHOOSE g : Adds(q, D, g)
<1>1. L \in Nat /\ DOMAIN q = D
      BY LenProperties
<1>2. FoldLeft(+, 0, q) = iter[D]
      BY <1>1 DEF FoldLeft, MapThenFoldSet, Adds
<1> DEFINE S == {n \in Nat : n <= L => \E g : Adds(q, 1..n, g)}
<1>3. 0 \in S
      <2> DEFINE g == [s \in SUBSET (1..0) |-> 0]
      <2>1. Adds(q, 1..0, g)
            BY DEF Adds
      <2> QED BY <2>1
<1>4. ASSUME NEW n \in Nat, n \in S PROVE n + 1 \in S
      <2> SUFFICES ASSUME n + 1 <= L PROVE \E g : Adds(q, 1..(n + 1), g)
          OBVIOUS
      <2>1. PICK g : Adds(q, 1..n, g)
            BY <1>1, <1>4
      <2> DEFINE f == [s \in SUBSET (1..(n + 1)) |->
                         IF n + 1 \in s THEN g[s \ {n + 1}] + q[n + 1] ELSE g[s]]
      <2>2. ASSUME NEW s \in SUBSET (1..(n + 1))
            PROVE  f[s] = IF s = {} THEN 0 ELSE f[s \ {Max(s)}] + q[Max(s)]
            <3>1. CASE n + 1 \in s
                  <4>1. Max(s) = n + 1
                        BY <3>1, MaxUpTo
                  <4>2. s \ {n + 1} \in SUBSET (1..(n + 1)) /\ n + 1 \notin s \ {n + 1}
                        OBVIOUS
                  <4>3. f[s \ {n + 1}] = g[s \ {n + 1}] /\ f[s] = g[s \ {n + 1}] + q[n + 1]
                        BY <3>1, <4>2
                  <4> HIDE DEF f
                  <4> QED BY <3>1, <4>1, <4>3
            <3>2. CASE n + 1 \notin s
                  <4>1. s \in SUBSET (1..n)
                        BY <3>2
                  <4>2. f[s] = g[s] /\ g[s] = IF s = {} THEN 0 ELSE g[s \ {Max(s)}] + q[Max(s)]
                        BY <2>1, <3>2, <4>1 DEF Adds
                  <4>3. s \ {Max(s)} \in SUBSET (1..(n + 1)) /\ n + 1 \notin s \ {Max(s)}
                        BY <3>2
                  <4>4. f[s \ {Max(s)}] = g[s \ {Max(s)}]
                        BY <4>3
                  <4> HIDE DEF f
                  <4> QED BY <4>2, <4>4
            <3> QED BY <3>1, <3>2
      <2>3. f = [s \in SUBSET (1..(n + 1)) |-> IF s = {} THEN 0 ELSE f[s \ {Max(s)}] + q[Max(s)]]
            BY <2>2
      <2> HIDE DEF f
      <2> QED BY <2>3 DEF Adds
<1>5. Adds(q, D, iter)
      <2> HIDE DEF S
      <2>1. L \in S
            BY <1>1, <1>3, <1>4, SetInduction
      <2> QED BY <1>1, <2>1 DEF S
<1> HIDE DEF iter
<1> DEFINE R == {n \in Nat : n <= L => iter[1..n] = p[n]}
<1>6. 0 \in R
      <2>1. {} \in SUBSET D /\ 1..0 = {}
            OBVIOUS
      <2>2. iter[{}] = 0
            BY <1>5, <2>1 DEF Adds
      <2> QED BY <2>1, <2>2
<1>7. ASSUME NEW n \in Nat, n \in R PROVE n + 1 \in R
      <2> SUFFICES ASSUME n + 1 <= L PROVE iter[1..(n + 1)] = p[n + 1]
          OBVIOUS
      <2>1. 1..(n + 1) \in SUBSET D /\ n + 1 \in 1..(n + 1) /\ (1..(n + 1)) \ {n + 1} = 1..n
            BY <1>1
      <2>2. Max(1..(n + 1)) = n + 1
            BY <2>1, MaxUpTo
      <2>3. iter[1..(n + 1)] = iter[1..n] + q[n + 1]
            <3> DEFINE s == 1..(n + 1)
            <3>1. s \in SUBSET D /\ s # {} /\ Max(s) = n + 1 /\ s \ {n + 1} = 1..n
                  BY <2>1, <2>2
            <3> HIDE DEF s, D
            <3>2. iter[s] = IF s = {} THEN 0 ELSE iter[s \ {Max(s)}] + q[Max(s)]
                  BY <1>5, <3>1 DEF Adds
            <3>3. iter[s] = iter[1..n] + q[n + 1]
                  BY <3>1, <3>2
            <3> QED BY <3>3 DEF s
      <2>4. iter[1..n] = p[n]
            BY <1>1, <1>7
      <2>5. n + 1 \in 1..L /\ (n + 1) - 1 = n
            BY <1>1
      <2> QED BY <2>3, <2>4, <2>5
<1>8. L \in R
      <2> HIDE DEF R
      <2> QED BY <1>1, <1>6, <1>7, SetInduction
<1>9. iter[D] = p[L]
      BY <1>1, <1>8
<1> HIDE DEF R, D
<1> QED BY <1>2, <1>9

-----------------------------------------------------------------------------
(* What is left when everything was freed.                                 *)

LEMMA NextIsThere ==
  ASSUME NEW S, S \subseteq Nat, NEW s, NEW b \in Nat, Tiled(S, s, b),
         NEW a \in S, NEW c \in S, a < c
  PROVE  s[a] \in Nat /\ s[a] > 0 /\ a + s[a] \in S /\ a + s[a] <= c
<1>1. H \in Nat /\ H >= 1 /\ a \in Nat /\ c \in Nat
      BY ConstantsType
<1>2. /\ s[a] \in Nat /\ a + s[a] \in Ends(S, b) /\ a + s[a] <= c
      /\ s[a] = 0 => a = b \/ (a = b - H /\ b \notin S)
      /\ c + H <= b \/ c = b
      BY DEF Tiled, Tile
<1> DEFINE m == s[a]
<1> HIDE DEF m
<1>3. c = b \/ (c <= b - H /\ c # b)
      BY <1>1, <1>2
<1>4. m # 0
      BY <1>1, <1>2, <1>3 DEF m
<1>5. a + m \in S
      <2>1. CASE a + m \in S
            BY <2>1
      <2>2. CASE a + m = b
            BY <2>2, <1>1, <1>2, <1>3 DEF m
      <2>3. CASE a + m = b - H /\ b \notin S
            <3>1. c = a + m
                  BY <2>3, <1>1, <1>2, <1>3 DEF m
            <3> QED BY <3>1
      <2> QED BY <2>1, <2>2, <2>3, <1>2 DEF Ends, m
<1> QED BY <1>1, <1>2, <1>4, <1>5 DEF m

(* If no two chunks touch there is only one.                               *)
LEMMA OneChunk ==
  ASSUME NEW f \in Seq(Addr), f # <<>>, NEW s, NEW b \in Nat, Tiled(ToSet(f), s, b), Distinct(f),
         Apart(f, s)
  PROVE  Len(f) = 1
<1>1. DOMAIN f = 1..Len(f) /\ Len(f) \in Nat /\ Len(f) # 0
      BY LenProperties, EmptySeq
<1>2. \A i \in DOMAIN f : f[i] \in ToSet(f) /\ f[i] \in Addr
      BY <1>1, ElementOfSeq DEF ToSet
<1>3. ToSet(f) \subseteq Nat
      BY <1>2 DEF ToSet, Addr
<1>4. ASSUME NEW a \in ToSet(f), NEW c \in ToSet(f), a < c PROVE FALSE
      <2>1. s[a] \in Nat /\ s[a] > 0 /\ a + s[a] \in ToSet(f)
            BY <1>3, <1>4, NextIsThere
      <2>2. PICK i \in DOMAIN f : a = f[i]
            BY DEF ToSet
      <2>3. PICK j \in DOMAIN f : a + s[a] = f[j]
            BY <2>1 DEF ToSet
      <2>4. Touch(s, f[i], f[j])
            BY <2>1, <2>2, <2>3, <1>3 DEF Touch
      <2> QED BY <2>4 DEF Apart
<1>5. \A i, j \in DOMAIN f : i = j
      <2> SUFFICES ASSUME NEW i \in DOMAIN f, NEW j \in DOMAIN f PROVE i = j
          OBVIOUS
      <2>1. f[i] \in Nat /\ f[j] \in Nat /\ ~(f[i] < f[j]) /\ ~(f[j] < f[i])
            BY <1>2, <1>3, <1>4
      <2>2. f[i] = f[j]
            BY <2>1
      <2> QED BY <2>2 DEF Distinct
<1>6. 1 \in DOMAIN f /\ Len(f) \in DOMAIN f
      BY <1>1
<1> QED BY <1>5, <1>6

(* The bytes of the first i chunks, and how many they are.                 *)
Bytes(f, s, i) == UNION {f[j]..(f[j] + s[f[j]] - 1) : j \in 1..i}

LEMMA BytesAre ==
  ASSUME NEW f \in Seq(Addr), NEW s, NEW b \in Nat, Tiled(ToSet(f), s, b), Distinct(f)
  PROVE  /\ [k \in DOMAIN f |-> s[f[k]]] \in Seq(Nat)
         /\ IsFiniteSet(Bytes(f, s, Len(f)))
         /\ FoldLeft(+, 0, [k \in DOMAIN f |-> s[f[k]]]) = Cardinality(Bytes(f, s, Len(f)))
<1> DEFINE q == [k \in DOMAIN f |-> s[f[k]]]
           L == Len(f)
           B(i) == Bytes(f, s, i)
           p == [i \in 0..L |-> Cardinality(B(i))]
           I(i) == f[i]..(f[i] + s[f[i]] - 1)
<1>1. DOMAIN f = 1..L /\ L \in Nat
      BY LenProperties
<1>2. \A i \in 1..L : f[i] \in ToSet(f) /\ f[i] \in Nat
      <2>1. Addr \subseteq Nat
            BY ConstantsType DEF Addr
      <2>2. \A i \in 1..L : f[i] \in Addr
            BY <1>1, ElementOfSeq
      <2> QED BY <1>1, <2>1, <2>2 DEF ToSet
<1>3. \A i \in 1..L : s[f[i]] \in Nat
      BY <1>2 DEF Tiled, Tile
<1>4. q \in Seq(Nat) /\ Len(q) = L
      BY <1>1, <1>3
<1>5. ASSUME NEW i \in 1..L
      PROVE  IsFiniteSet(I(i)) /\ Cardinality(I(i)) = s[f[i]]
      <2> DEFINE a == f[i]
                 m == s[a]
      <2>1. a \in Nat /\ m \in Nat
            BY <1>2, <1>3
      <2> HIDE DEF a, m
      <2>2. a + m - 1 \in Int /\ (a > a + m - 1 <=> m = 0) /\ a + m - 1 - a + 1 = m
            BY <2>1
      <2>3. IsFiniteSet(a..(a + m - 1)) /\ Cardinality(a..(a + m - 1)) = m
            BY <2>1, <2>2, FS_Interval
      <2> QED BY <2>3 DEF a, m
<1>6. ASSUME NEW i \in 1..L, NEW j \in 1..(i - 1) PROVE I(i) \cap I(j) = {}
      <2> DEFINE a == f[i]
                 c == f[j]
      <2>1. a \in Nat /\ c \in Nat /\ a \in ToSet(f) /\ c \in ToSet(f) /\ s[a] \in Nat /\ s[c] \in Nat
            BY <1>1, <1>2, <1>3
      <2>2. a # c
            <3>1. i \in DOMAIN f /\ j \in DOMAIN f /\ i # j
                  BY <1>1
            <3> QED BY <3>1 DEF Distinct
      <2> HIDE DEF a, c
      <2>3. a + s[a] <= c \/ c + s[c] <= a
            BY <2>1, <2>2 DEF Tiled, Tile
      <2>4. (a..(a + s[a] - 1)) \cap (c..(c + s[c] - 1)) = {}
            BY <2>1, <2>3
      <2> QED BY <2>4 DEF a, c
<1> HIDE DEF I
<1>7. ASSUME NEW i \in 1..L PROVE B(i) = B(i - 1) \cup I(i) /\ B(i - 1) \cap I(i) = {}
      <2>1. \A x : x \in B(i) <=> \E j \in 1..i : x \in I(j)
            BY DEF Bytes, I
      <2>2. \A x : x \in B(i - 1) <=> \E j \in 1..(i - 1) : x \in I(j)
            BY DEF Bytes, I
      <2>3. \A j : j \in 1..i <=> j = i \/ j \in 1..(i - 1)
            BY <1>1
      <2> HIDE DEF B
      <2>4. B(i) = B(i - 1) \cup I(i)
            BY <2>1, <2>2, <2>3
      <2> QED BY <2>2, <2>4, <1>6
<1>8. B(0) = {}
      <2>1. 1..0 = {}
            OBVIOUS
      <2> QED BY <2>1 DEF Bytes
<1> HIDE DEF B
<1> DEFINE S == {n \in Nat : n <= L => IsFiniteSet(B(n)) /\ (n # 0 => Cardinality(B(n)) = Cardinality(B(n - 1)) + q[n])}
<1>9. 0 \in S
      BY <1>8, FS_EmptySet
<1>10. ASSUME NEW n \in Nat, n \in S PROVE n + 1 \in S
       <2> SUFFICES ASSUME n + 1 <= L
                    PROVE  IsFiniteSet(B(n + 1)) /\ Cardinality(B(n + 1)) = Cardinality(B(n)) + q[n + 1]
           OBVIOUS
       <2> DEFINE i == n + 1
       <2>1. i \in 1..L /\ i - 1 = n /\ n <= L
             BY <1>1
       <2> HIDE DEF i
       <2>2. IsFiniteSet(B(n)) /\ IsFiniteSet(I(i)) /\ Cardinality(I(i)) = q[i]
             BY <1>1, <1>5, <1>10, <2>1
       <2>3. B(i) = B(n) \cup I(i) /\ B(n) \cap I(i) = {}
             BY <1>7, <2>1
       <2>4. IsFiniteSet(B(i)) /\ Cardinality(B(i)) = Cardinality(B(n)) + Cardinality(I(i))
                                                      - Cardinality(B(n) \cap I(i))
             BY <2>2, <2>3, FS_Union
       <2>5. Cardinality(B(n) \cap I(i)) = 0 /\ Cardinality(B(n)) \in Nat
             BY <2>2, <2>3, FS_EmptySet, FS_CardinalityType
       <2>6. q[i] \in Nat
             BY <1>1, <1>3, <2>1
       <2> QED BY <2>2, <2>4, <2>5, <2>6 DEF i
<1>11. \A n \in 0..L : n \in S
       <2> HIDE DEF S
       <2>1. \A n \in Nat : n \in S
             BY <1>9, <1>10, SetInduction
       <2> QED BY <1>1, <2>1
<1>12. \A n \in 0..L : IsFiniteSet(B(n)) /\ Cardinality(B(n)) \in Nat
       <2> SUFFICES ASSUME NEW n \in 0..L PROVE IsFiniteSet(B(n)) /\ Cardinality(B(n)) \in Nat
           OBVIOUS
       <2>1. n \in S
             BY <1>11
       <2>2. n <= L
             BY <1>1
       <2>3. IsFiniteSet(B(n))
             BY <2>1, <2>2
       <2> QED BY <2>3, FS_CardinalityType
<1>13. p \in [0..L -> Nat] /\ p[0] = 0 /\ \A i \in 1..L : p[i] = p[i - 1] + q[i]
       <2>1. \A i \in 1..L : i \in 0..L /\ i - 1 \in 0..L /\ i # 0 /\ i \in Nat /\ i <= L
             BY <1>1
       <2>2. \A i \in 1..L : Cardinality(B(i)) = Cardinality(B(i - 1)) + q[i]
             BY <1>11, <2>1
       <2>3. Cardinality(B(0)) = 0 /\ 0 \in 0..L
             BY <1>1, <1>8, FS_EmptySet
       <2> HIDE DEF S, q, L
       <2> QED BY <1>12, <2>1, <2>2, <2>3
<1> HIDE DEF p, q, S
<1>14. FoldLeft(+, 0, q) = p[L]
       BY <1>4, <1>13, Summed
<1>15. L \in 0..L
       BY <1>1
<1> QED BY <1>4, <1>12, <1>14, <1>15 DEF p, q, B

(* The bytes of chunks that tile: from the first chunk to the break, or to *)
(* one header before it.                                                   *)
IsCovered(S, s, b, lo, top) ==
  /\ lo \in S /\ \A c \in S : lo <= c
  /\ top \in Nat /\ lo <= top /\ (top = b \/ top = b - H)
  /\ UNION {c..(c + s[c] - 1) : c \in S} = lo..(top - 1)

LEMMA Covers ==
  ASSUME NEW S, S \subseteq Nat, S # {}, NEW s, NEW b \in Nat, Tiled(S, s, b)
  PROVE  \E lo, top \in Nat : IsCovered(S, s, b, lo, top)
<1>1. H \in Nat /\ H >= 1
      BY ConstantsType
<1>2. PICK lo \in S : \A c \in S : lo <= c
      BY Least
<1>3. \A c \in S : c \in Nat /\ s[c] \in Nat /\ c <= b /\ c + s[c] <= b
      <2>1. ASSUME NEW c \in S PROVE c \in Nat /\ s[c] \in Nat /\ c + s[c] <= b
            BY DEF Tiled, Tile
      <2>2. ASSUME NEW c \in S PROVE c <= b
            BY <2>1
      <2> QED BY <2>1, <2>2
<1>4. PICK m \in S : \A c \in S : c <= m
      <2> DEFINE D == {b - c : c \in S}
      <2>1. D \subseteq Nat /\ D # {}
            BY <1>3
      <2>2. PICK d \in D : \A x \in D : d <= x
            <3> HIDE DEF D
            <3> QED BY <2>1, Least
      <2>3. PICK m \in S : d = b - m
            OBVIOUS
      <2>4. ASSUME NEW c \in S PROVE c <= m
            <3>1. b - m <= b - c
                  BY <2>2, <2>3
            <3>2. c \in Nat /\ m \in Nat
                  BY <1>3
            <3> QED BY <3>1, <3>2
      <2> QED BY <2>4
<1> DEFINE top == m + s[m]
<1>5. lo \in Nat /\ m \in Nat /\ lo <= m /\ s[m] \in Nat /\ top \in Nat /\ m <= top /\ lo <= top
      BY <1>2, <1>3
<1>6. top = b \/ top = b - H
      <2>1. top \in Ends(S, b)
            BY DEF Tiled, Tile
      <2>2. s[m] = 0 => m = b \/ (m = b - H /\ b \notin S)
            BY DEF Tiled, Tile
      <2>3. top \in S => s[m] = 0 /\ top = m
            BY <1>4, <1>5
      <2> QED BY <2>1, <2>2, <2>3 DEF Ends
<1>7. ASSUME NEW c \in S, NEW x \in c..(c + s[c] - 1) PROVE x \in lo..(top - 1)
      <2>1. c \in Nat /\ s[c] \in Nat /\ lo <= c /\ c <= m
            BY <1>2, <1>3, <1>4
      <2>2. c = m \/ c + s[c] <= m
            <3>1. CASE c < m
                  BY <3>1, NextIsThere
            <3> QED BY <3>1, <2>1, <1>5
      <2> DEFINE n == s[c]
      <2>3. n \in Nat /\ x \in Int /\ c <= x /\ x <= c + n - 1 /\ (c = m => c + n = top)
            BY <2>1
      <2> HIDE DEF n, top
      <2>4. c + n <= top
            BY <2>1, <2>2, <2>3, <1>5 DEF n
      <2> QED BY <2>1, <2>3, <2>4, <1>5
<1>8. ASSUME NEW x \in lo..(top - 1) PROVE \E c \in S : x \in c..(c + s[c] - 1)
      <2> HIDE DEF top
      <2>1. x \in Nat /\ lo <= x /\ x < top
            BY <1>5
      <2> DEFINE D == {x - c : c \in {y \in S : y <= x}}
      <2>2. D \subseteq Nat /\ D # {}
            BY <2>1, <1>3
      <2>3. PICK d \in D : \A y \in D : d <= y
            <3> HIDE DEF D
            <3> QED BY <2>2, Least
      <2>4. PICK c \in S : c <= x /\ d = x - c
            OBVIOUS
      <2>5. ASSUME NEW y \in S, y <= x PROVE y <= c
            <3>1. x - c <= x - y
                  BY <2>3, <2>4, <2>5
            <3> QED BY <3>1, <2>1, <1>3
      <2> DEFINE n == s[c]
      <2>0. c \in Nat /\ n \in Nat /\ c <= m
            BY <1>3, <1>4
      <2>6. x < c + n
            <3> HIDE DEF n
            <3> SUFFICES ASSUME c + n <= x PROVE FALSE
                BY <2>0, <2>1
            <3>1. CASE c = m
                  BY <3>1, <2>1, <1>5 DEF top, n
            <3>2. CASE c < m
                  <4>1. n > 0 /\ c + n \in S
                        BY <3>2, NextIsThere DEF n
                  <4>2. c + n <= c
                        BY <4>1, <2>5
                  <4> QED BY <4>1, <4>2, <2>0
            <3> QED BY <3>1, <3>2, <2>0, <1>5
      <2>7. x \in c..(c + s[c] - 1)
            BY <2>0, <2>1, <2>4, <2>6
      <2> QED BY <2>7
<1>9. UNION {c..(c + s[c] - 1) : c \in S} = lo..(top - 1)
      <2> HIDE DEF top
      <2> QED BY <1>7, <1>8
<1>10. IsCovered(S, s, b, lo, top)
      <2> HIDE DEF top
      <2> QED BY <1>2, <1>5, <1>6, <1>9 DEF IsCovered
<1> QED BY <1>5, <1>10

(* When the last block was freed, alloc.c has made one chunk of the heap,  *)
(* and allocinfo() of both files reports a full heap but for one header,   *)
(* whatever order the blocks were freed in and the list is in.             *)
THEOREM EverythingComesBack == Spec => []AllFreed
<1>1. IInv => AllFreed
      <2> SUFFICES ASSUME IInv, slips = {}, deallocCalled, live = {} PROVE AllFreed
          BY DEF AllFreed
      <2> DEFINE S == ToSet(free)
      <2>1. /\ free \in Seq(Addr) /\ free # <<>> /\ brk \in Nat /\ Tiled(S, size, brk) /\ Distinct(free)
            /\ program = "alloc.c" => Apart(free, size)
            /\ H \in Nat /\ H >= 1 /\ limit \in Nat
            <3>1. Held(live) = {}
                  BY DEF Held
            <3> QED BY <3>1, Types, ConstantsType DEF IInv, HeapInv, Sound
      <2>2. DOMAIN free = 1..Len(free) /\ Len(free) \in Nat /\ Len(free) # 0
            BY <2>1, LenProperties, EmptySeq
      <2>3. S \subseteq Nat /\ S # {} /\ Starts = S
            <3>1. \A i \in DOMAIN free : free[i] \in Addr
                  BY <2>1, ElementOfSeq, LenProperties
            <3>2. Addr \subseteq Nat
                  BY ConstantsType DEF Addr
            <3>3. 1 \in DOMAIN free
                  BY <2>2
            <3> QED BY <3>1, <3>2, <3>3 DEF ToSet, Starts
      <2>4. program = "alloc.c" => allocinfo.free_chunks = 1
            <3>1. program = "alloc.c" => Len(free) = 1
                  BY <2>1, OneChunk
            <3> QED BY <3>1 DEF allocinfo, Info
      <2> DEFINE q == [k \in DOMAIN free |-> size[free[k]]]
                 temp == FoldLeft(+, 0, q)
      <2>5. PICK lo \in Nat, top \in Nat : IsCovered(S, size, brk, lo, top)
            <3> HIDE DEF S
            <3> QED BY <2>1, <2>3, Covers
      <2>6. temp = top - lo
            <3>1. Bytes(free, size, Len(free)) = UNION {c..(c + size[c] - 1) : c \in S}
                  BY <2>2 DEF Bytes, ToSet
            <3>2. temp = Cardinality(lo..(top - 1))
                  BY <2>1, <2>5, <3>1, BytesAre DEF IsCovered
            <3> HIDE DEF temp
            <3>3. lo <= top
                  BY <2>5 DEF IsCovered
            <3>4. Cardinality(lo..(top - 1)) = top - lo
                  <4> DEFINE e == top - 1
                  <4>1. e \in Int /\ lo \in Int /\ (lo > e => top = lo) /\ e - lo + 1 = top - lo
                        BY <3>3
                  <4> HIDE DEF e
                  <4>2. Cardinality(lo..e) = IF lo > e THEN 0 ELSE e - lo + 1
                        BY <4>1, FS_Interval
                  <4>3. Cardinality(lo..e) = top - lo
                        BY <4>1, <4>2
                  <4> QED BY <4>3 DEF e
            <3> QED BY <3>2, <3>4
      <2>7. Min(Starts) = lo
            <3>1. lo \in S /\ \A c \in S : lo <= c
                  BY <2>5 DEF IsCovered
            <3>2. ASSUME NEW x \in S, \A c \in S : x <= c PROVE x = lo
                  BY <3>1, <3>2, <2>3
            <3> QED BY <3>1, <3>2, <2>3 DEF Min
      <2>8. top = brk \/ top = brk - H
            BY <2>5 DEF IsCovered
      <2>9. allocinfo.free_size = IF temp = limit THEN temp - H ELSE temp
            BY DEF allocinfo, Info
      <2> HIDE DEF temp
      <2>10. brk - Min(Starts) = limit => allocinfo.free_size = limit - H
            BY <2>1, <2>6, <2>7, <2>8, <2>9
      <2> QED BY <2>4, <2>10 DEF AllFreed
<1> QED BY <1>1, Invariance, PTL
=============================================================================
