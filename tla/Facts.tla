------------------------------- MODULE Facts -------------------------------
(***************************************************************************)
(* What the library has no facts for, or none the provers can use: the     *)
(* quotient of integers, the least of some numbers, recursive functions    *)
(* over 0..n, and the sum of a function over a finite set.                 *)
(*                                                                         *)
(* An induction is a smallest counterexample: of the numbers, or of the    *)
(* subsets of a finite set, that violate a claim, one has no smaller one   *)
(* that does.                                                              *)
(***************************************************************************)
EXTENDS Integers, FiniteSets, Functions, FiniteSetTheorems,
        WellFoundedInduction, TLAPS

(***************************************************************************)
(* Quotients, and the least of some numbers.                               *)
(***************************************************************************)
LEMMA DivBelow ==
    ASSUME NEW a \in Int, NEW b \in Nat \ {0}
    PROVE  /\ a \div b \in Int
           /\ (a \div b) * b <= a
           /\ a < (a \div b + 1) * b
  OBVIOUS

LEMMA DivMonotone ==
    ASSUME NEW a \in Int, NEW c \in Int, a <= c, NEW b \in Nat \ {0}
    PROVE  a \div b <= c \div b
<1>1. /\ a \div b \in Int /\ c \div b \in Int
      /\ (a \div b) * b <= a /\ c < (c \div b + 1) * b
  BY DivBelow
<1>2. SUFFICES ASSUME a \div b > c \div b PROVE FALSE
  BY <1>1
<1>3. c \div b + 1 <= a \div b
  BY <1>1, <1>2
<1>4. (c \div b + 1) * b <= (a \div b) * b
  BY <1>1, <1>3
<1> QED  BY <1>1, <1>4

LEMMA LeastNumber ==
    ASSUME NEW S, S \subseteq Nat, S # {}
    PROVE  \E n \in S : \A m \in S : n <= m
<1> DEFINE R == {p \in Nat \X Nat : p[1] < p[2]}
<1>0. IsWellFoundedOn(R, Nat)
  BY NatLessThanWellFounded DEF OpToRel
<1> HIDE DEF R
<1>1. PICK n \in S : \A m \in S : <<m, n>> \notin R
  BY <1>0, WFMin
<1>2. ASSUME NEW m \in S
      PROVE  n <= m
  <2>1. m \in Nat /\ n \in Nat
    OBVIOUS
  <2>2. m < n => <<m, n>> \in R
    BY <2>1 DEF R
  <2> QED  BY <1>1, <2>1, <2>2
<1> QED  BY <1>2

\* A claim about 0..n, as the set of the numbers it holds for.
LEMMA UpTo ==
    ASSUME NEW n \in Nat, NEW T, 0 \in T,
           \A k \in 1..n : k - 1 \in T => k \in T
    PROVE  \A k \in 0..n : k \in T
<1> DEFINE C == {k \in 0..n : k \notin T}
<1>1. SUFFICES ASSUME C # {} PROVE FALSE
  OBVIOUS
<1>2. C \subseteq Nat
  OBVIOUS
<1> HIDE DEF C
<1>3. PICK c \in C : \A m \in C : c <= m
  BY <1>1, <1>2, LeastNumber
<1>4. c \in 0..n /\ c \notin T
  BY DEF C
<1>5. c # 0 /\ c \in 1..n /\ c - 1 \in 0..n
  BY <1>4
<1>6. c - 1 \notin C
  BY <1>3, <1>4
<1> QED  BY <1>4, <1>5, <1>6 DEF C

(***************************************************************************)
(* A recursive function over 0..n exists: it has the value b at 0, and at  *)
(* i what the step i makes of the value before.                            *)
(***************************************************************************)
Recursive(g, n, b, step) ==
    g[0] = b /\ \A i \in 1..n : g[i] = step[<<i, g[i - 1]>>]

LEMMA RecursionExists ==
    ASSUME NEW S, NEW n \in Nat, NEW b \in S, NEW step,
           \A i \in 1..n : \A x \in S : step[<<i, x>>] \in S
    PROVE  \E g \in [0..n -> S] : Recursive(g, n, b, step)
<1> DEFINE Fits(g, m) ==
              g = [i \in 0..m |-> IF i = 0 THEN b ELSE step[<<i, g[i - 1]>>]]
           T == {m \in 0..n : \E g \in [0..m -> S] : Fits(g, m)}
<1>1. 0 \in T
  <2> DEFINE g == [i \in 0..0 |-> b]
  <2>1. g \in [0..0 -> S] /\ Fits(g, 0)
    OBVIOUS
  <2> HIDE DEF g, Fits
  <2> QED  BY <2>1
<1>2. ASSUME NEW k \in 1..n, k - 1 \in T
      PROVE  k \in T
  <2>1. PICK g \in [0..(k - 1) -> S] : Fits(g, k - 1)
    BY <1>2
  <2> DEFINE h == [i \in 0..k |-> IF i < k THEN g[i] ELSE step[<<k, g[k - 1]>>]]
  <2>2. g[k - 1] \in S /\ step[<<k, g[k - 1]>>] \in S
    BY <2>1
  <2>3. h \in [0..k -> S]
    BY <2>1, <2>2
  <2>4. ASSUME NEW i \in 0..k
        PROVE  h[i] = IF i = 0 THEN b ELSE step[<<i, h[i - 1]>>]
    <3>1. CASE i < k
      <4>1. i \in 0..(k - 1) /\ h[i] = g[i]
        BY <3>1
      <4>2. g[i] = IF i = 0 THEN b ELSE step[<<i, g[i - 1]>>]
        BY <2>1, <4>1
      <4>3. i # 0 => h[i - 1] = g[i - 1]
        BY <4>1
      <4> QED  BY <4>1, <4>2, <4>3
    <3>2. CASE i = k
      BY <3>2
    <3> QED  BY <3>1, <3>2
  <2>5. Fits(h, k)
    <3> HIDE DEF h
    <3>1. h = [i \in 0..k |-> h[i]]
      BY <2>3
    <3> QED  BY <2>4, <3>1
  <2> HIDE DEF h, Fits
  <2> QED  BY <2>3, <2>5
<1> HIDE DEF T
<1>3. n \in T
  BY <1>1, <1>2, UpTo
<1>4. PICK g \in [0..n -> S] : Fits(g, n)
  BY <1>3 DEF T
<1>5. Recursive(g, n, b, step)
  BY <1>4 DEF Recursive
<1> QED  BY <1>4, <1>5

(***************************************************************************)
(* Sums.  SumFunctionOnSet is a fold, which takes the elements in an order *)
(* of its own choice; the facts below do not depend on that order.  The    *)
(* positions and pending orders of a fleet (Fleet), the resting orders of  *)
(* an account (Startup) and what a simulated account gained (TopstepxSim)  *)
(* are such sums.                                                          *)
(***************************************************************************)
Pick(s) == CHOOSE x \in s : TRUE

\* g is the table of the sums over the subsets of A that the fold builds.
Tabulates(A, q, g) ==
    g = [s \in SUBSET A |->
            IF s = {} THEN 0 ELSE q[Pick(s)] + g[s \ {Pick(s)}]]

\* The sum is an entry of such a table (Folds.tla, Functions.tla).
LEMMA SumIsChosen ==
    ASSUME NEW A, NEW q
    PROVE  SumFunctionOnSet(q, A) = (CHOOSE g : Tabulates(A, q, g))[A]
  BY DEF SumFunctionOnSet, FoldFunctionOnSet, MapThenFoldSet, Tabulates, Pick

\* A set of subsets of a finite set that is not empty has a smallest one.
LEMMA Smallest ==
    ASSUME NEW A, IsFiniteSet(A), NEW T, T \subseteq SUBSET A, T # {}
    PROVE  \E s \in T : \A t \in SUBSET s : t # s => t \notin T
<1>1. IsWellFoundedOn(StrictSubsetOrdering(A), SUBSET A)
  BY FS_StrictSubsetOrderingWellFounded, FS_FiniteSubsetsOfFinite
<1>2. PICK s \in T : \A t \in T : ~ (<<t, s>> \in StrictSubsetOrdering(A))
  BY <1>1, WFMin
<1>3. ASSUME NEW t \in SUBSET s, t # s, t \in T PROVE FALSE
  <2>1. s \in SUBSET A /\ t \in SUBSET A
    BY <1>3
  <2>2. <<t, s>> \in StrictSubsetOrdering(A)
    BY <1>3, <2>1 DEF StrictSubsetOrdering
  <2> QED  BY <1>2, <1>3, <2>2
<1> QED  BY <1>2, <1>3

\* The element that the fold takes first leaves a smaller set.
LEMMA PickInside ==
    ASSUME NEW s, s # {}
    PROVE  Pick(s) \in s /\ s \ {Pick(s)} \in SUBSET s /\ s \ {Pick(s)} # s
<1>1. Pick(s) \in s
  BY DEF Pick
<1> QED  BY <1>1

LEMMA TableEntry ==
    ASSUME NEW A, NEW q, NEW g, Tabulates(A, q, g), NEW s \in SUBSET A
    PROVE  g[s] = IF s = {} THEN 0 ELSE q[Pick(s)] + g[s \ {Pick(s)}]
  BY DEF Tabulates

\* Tables of two sets agree where both are defined.
LEMMA TablesAgree ==
    ASSUME NEW A, IsFiniteSet(A), NEW q, NEW B \in SUBSET A,
           NEW g, Tabulates(A, q, g), NEW h, Tabulates(B, q, h)
    PROVE  \A s \in SUBSET B : g[s] = h[s]
<1> DEFINE T == {s \in SUBSET B : g[s] # h[s]}
<1>1. SUFFICES ASSUME T # {} PROVE FALSE
  OBVIOUS
<1>2. IsFiniteSet(B)
  BY FS_Subset
<1>3. PICK s \in T : \A t \in SUBSET s : t # s => t \notin T
  <2>1. T \subseteq SUBSET B
    OBVIOUS
  <2> HIDE DEF T
  <2> QED  BY <1>1, <1>2, <2>1, Smallest
<1>4. s \in SUBSET A /\ s \in SUBSET B /\ g[s] # h[s]
  BY <1>3
<1>5. s # {}
  BY <1>4, TableEntry
<1>6. g[s \ {Pick(s)}] = h[s \ {Pick(s)}]
  BY <1>3, <1>4, <1>5, PickInside
<1> QED  BY <1>4, <1>5, <1>6, TableEntry

\* Every finite set has a table: the smallest set without one would get it
\* from the tables of its subsets.
LEMMA TableExists ==
    ASSUME NEW A, IsFiniteSet(A), NEW q
    PROVE  \E g : Tabulates(A, q, g)
<1> DEFINE T == {s \in SUBSET A : ~ \E g : Tabulates(s, q, g)}
<1>1. SUFFICES ASSUME T # {} PROVE FALSE
  OBVIOUS
<1>2. PICK m \in T : \A t \in SUBSET m : t # m => t \notin T
  <2>1. T \subseteq SUBSET A
    OBVIOUS
  <2> HIDE DEF T
  <2> QED  BY <1>1, <2>1, Smallest
<1>3. m \in SUBSET A /\ ~ \E g : Tabulates(m, q, g)
  BY <1>2
<1> DEFINE Of(s) == CHOOSE g : Tabulates(s, q, g)
<1>4. \A t \in SUBSET m : t # m => Tabulates(t, q, Of(t))
  <2>1. TAKE t \in SUBSET m
  <2>2. HAVE t # m
  <2>3. \E g : Tabulates(t, q, g)
    BY <1>2, <1>3, <2>2
  <2> QED  BY <2>3
<1> DEFINE At(s) == Of(s)[s]
           Body(s, x) == IF s = {} THEN 0 ELSE q[Pick(s)] + x
           G == [s \in SUBSET m |->
                    IF s = m THEN Body(s, At(s \ {Pick(s)})) ELSE At(s)]
<1>5. ASSUME NEW s \in SUBSET m, s # m
      PROVE  At(s) = Body(s, At(s \ {Pick(s)}))
  <2>1. Tabulates(s, q, Of(s))
    BY <1>4, <1>5
  <2>2. CASE s = {}
    BY <2>1, <2>2, TableEntry
  <2>3. CASE s # {}
    <3> DEFINE t == s \ {Pick(s)}
    <3>1. t \in SUBSET s /\ t # s /\ t \in SUBSET m /\ t # m
      BY <2>3, PickInside
    <3>2. Tabulates(t, q, Of(t)) /\ IsFiniteSet(s)
      BY <1>3, <1>4, <3>1, FS_Subset
    <3>3. Of(s)[t] = At(t)
      <4> HIDE DEF t, Of
      <4> QED  BY <2>1, <3>1, <3>2, TablesAgree
    <3>4. Of(s)[s] = q[Pick(s)] + Of(s)[t]
      <4> HIDE DEF Of
      <4> QED  BY <2>1, <2>3, TableEntry
    <3> QED  BY <2>3, <3>3, <3>4
  <2> QED  BY <2>2, <2>3
<1>6. Tabulates(m, q, G)
  <2> HIDE DEF At
  <2>1. ASSUME NEW s \in SUBSET m
        PROVE  G[s] = IF s = {} THEN 0 ELSE q[Pick(s)] + G[s \ {Pick(s)}]
    <3>1. G[s] = Body(s, At(s \ {Pick(s)}))
      BY <1>5
    <3>2. s # {} => G[s \ {Pick(s)}] = At(s \ {Pick(s)})
      <4>1. s # {} => s \ {Pick(s)} \in SUBSET m /\ s \ {Pick(s)} # m
        BY PickInside
      <4> QED  BY <4>1
    <3> QED  BY <3>1, <3>2
  <2>2. G = [s \in SUBSET m |-> G[s]]
    OBVIOUS
  <2> HIDE DEF G
  <2> QED  BY <2>1, <2>2 DEF Tabulates
<1> QED  BY <1>3, <1>6

\* From here on the sum alone, without its table.
LEMMA SumOfNone ==
    ASSUME NEW q
    PROVE  SumFunctionOnSet(q, {}) = 0
<1> DEFINE g == CHOOSE h : Tabulates({}, q, h)
<1>1. Tabulates({}, q, g)
  BY TableExists, FS_EmptySet
<1>2. SumFunctionOnSet(q, {}) = g[{}]
  BY SumIsChosen
<1> HIDE DEF g
<1> QED  BY <1>1, <1>2, TableEntry

LEMMA SumOfSome ==
    ASSUME NEW A, IsFiniteSet(A), A # {}, NEW q
    PROVE  SumFunctionOnSet(q, A)
             = q[Pick(A)] + SumFunctionOnSet(q, A \ {Pick(A)})
<1> DEFINE B == A \ {Pick(A)}
           g == CHOOSE h : Tabulates(A, q, h)
           f == CHOOSE h : Tabulates(B, q, h)
<1>1. B \in SUBSET A /\ IsFiniteSet(B) /\ B \in SUBSET B
  BY PickInside, FS_Subset
<1>2. Tabulates(A, q, g) /\ Tabulates(B, q, f)
  BY <1>1, TableExists
<1>3. SumFunctionOnSet(q, A) = g[A] /\ SumFunctionOnSet(q, B) = f[B]
  BY SumIsChosen
<1>4. g[B] = f[B]
  <2> HIDE DEF g, f, B
  <2> QED  BY <1>1, <1>2, TablesAgree
<1>5. g[A] = q[Pick(A)] + g[B]
  <2> HIDE DEF g, f
  <2> QED  BY <1>2, TableEntry
<1> HIDE DEF g, f
<1> QED  BY <1>3, <1>4, <1>5

LEMMA SumIsInt ==
    ASSUME NEW A, IsFiniteSet(A), NEW q, \A x \in A : q[x] \in Int
    PROVE  SumFunctionOnSet(q, A) \in Int
<1> DEFINE T == {s \in SUBSET A : SumFunctionOnSet(q, s) \notin Int}
<1>1. SUFFICES ASSUME T # {} PROVE FALSE
  OBVIOUS
<1>2. PICK s \in T : \A t \in SUBSET s : t # s => t \notin T
  <2>1. T \subseteq SUBSET A
    OBVIOUS
  <2> HIDE DEF T
  <2> QED  BY <1>1, <2>1, Smallest
<1>3. s \in SUBSET A /\ SumFunctionOnSet(q, s) \notin Int /\ IsFiniteSet(s)
  BY <1>2, FS_Subset
<1>4. s # {}
  <2>1. 0 \in Int
    OBVIOUS
  <2> QED  BY <1>3, <2>1, SumOfNone
<1>5. SumFunctionOnSet(q, s \ {Pick(s)}) \in Int /\ q[Pick(s)] \in Int
  BY <1>2, <1>3, <1>4, PickInside
<1>6. SumFunctionOnSet(q, s) = q[Pick(s)] + SumFunctionOnSet(q, s \ {Pick(s)})
  BY <1>3, <1>4, SumOfSome
<1> HIDE DEF T
<1> QED  BY <1>3, <1>5, <1>6

\* Functions that agree on a set have the same sum over it.
LEMMA SumAgrees ==
    ASSUME NEW A, IsFiniteSet(A), NEW q, NEW r, \A x \in A : q[x] = r[x]
    PROVE  SumFunctionOnSet(q, A) = SumFunctionOnSet(r, A)
<1> DEFINE T == {s \in SUBSET A : SumFunctionOnSet(q, s) # SumFunctionOnSet(r, s)}
<1>1. SUFFICES ASSUME T # {} PROVE FALSE
  OBVIOUS
<1>2. PICK s \in T : \A t \in SUBSET s : t # s => t \notin T
  <2>1. T \subseteq SUBSET A
    OBVIOUS
  <2> HIDE DEF T
  <2> QED  BY <1>1, <2>1, Smallest
<1>3. /\ s \in SUBSET A /\ IsFiniteSet(s)
      /\ SumFunctionOnSet(q, s) # SumFunctionOnSet(r, s)
  BY <1>2, FS_Subset
<1>4. s # {}
  BY <1>3, SumOfNone
<1>5. /\ SumFunctionOnSet(q, s \ {Pick(s)}) = SumFunctionOnSet(r, s \ {Pick(s)})
      /\ q[Pick(s)] = r[Pick(s)]
  BY <1>2, <1>3, <1>4, PickInside
<1>6. SumFunctionOnSet(q, s) = q[Pick(s)] + SumFunctionOnSet(q, s \ {Pick(s)})
  BY <1>3, <1>4, SumOfSome
<1>7. SumFunctionOnSet(r, s) = r[Pick(s)] + SumFunctionOnSet(r, s \ {Pick(s)})
  BY <1>3, <1>4, SumOfSome
<1> QED  BY <1>3, <1>5, <1>6, <1>7

LEMMA SumOfZeros ==
    ASSUME NEW A, IsFiniteSet(A), NEW q, \A x \in A : q[x] = 0
    PROVE  SumFunctionOnSet(q, A) = 0
<1> DEFINE T == {s \in SUBSET A : SumFunctionOnSet(q, s) # 0}
<1>1. SUFFICES ASSUME T # {} PROVE FALSE
  OBVIOUS
<1>2. PICK s \in T : \A t \in SUBSET s : t # s => t \notin T
  <2>1. T \subseteq SUBSET A
    OBVIOUS
  <2> HIDE DEF T
  <2> QED  BY <1>1, <2>1, Smallest
<1>3. s \in SUBSET A /\ SumFunctionOnSet(q, s) # 0 /\ IsFiniteSet(s)
  BY <1>2, FS_Subset
<1>4. s # {}
  BY <1>3, SumOfNone
<1>5. SumFunctionOnSet(q, s \ {Pick(s)}) = 0 /\ q[Pick(s)] = 0
  BY <1>2, <1>3, <1>4, PickInside
<1>6. SumFunctionOnSet(q, s) = q[Pick(s)] + SumFunctionOnSet(q, s \ {Pick(s)})
  BY <1>3, <1>4, SumOfSome
<1> HIDE DEF T
<1> QED  BY <1>3, <1>5, <1>6

(***************************************************************************)
(* Any element can be taken first.  In the smallest set where that fails,  *)
(* the element y and the one the fold takes could be taken in either       *)
(* order out of the smaller sets that are left.                            *)
(***************************************************************************)
LEMMA SumTakes ==
    ASSUME NEW A, IsFiniteSet(A), NEW q, \A x \in A : q[x] \in Int, NEW y \in A
    PROVE  SumFunctionOnSet(q, A) = q[y] + SumFunctionOnSet(q, A \ {y})
<1> DEFINE S(s) == SumFunctionOnSet(q, s)
           T == {s \in SUBSET A : \E z \in s : S(s) # q[z] + S(s \ {z})}
<1>1. SUFFICES ASSUME T # {} PROVE FALSE
  OBVIOUS
<1>2. PICK s \in T : \A t \in SUBSET s : t # s => t \notin T
  <2>1. T \subseteq SUBSET A
    OBVIOUS
  <2> HIDE DEF T
  <2> QED  BY <1>1, <2>1, Smallest
<1>3. s \in SUBSET A /\ IsFiniteSet(s) /\ s # {}
  BY <1>2, FS_Subset
<1>4. PICK z \in s : S(s) # q[z] + S(s \ {z})
  BY <1>2
<1> DEFINE p == Pick(s)  rest == (s \ {p}) \ {z}
<1>5. p \in s
  BY <1>3, PickInside
<1>6. S(s) = q[p] + S(s \ {p})
  BY <1>3, SumOfSome
<1>7. p # z
  BY <1>4, <1>6
<1>8. /\ s \ {p} \in SUBSET s /\ s \ {p} # s /\ z \in s \ {p}
      /\ s \ {z} \in SUBSET s /\ s \ {z} # s /\ p \in s \ {z}
      /\ (s \ {z}) \ {p} = rest
  BY <1>5, <1>7
<1>9. s \ {p} \in SUBSET A /\ s \ {z} \in SUBSET A
  BY <1>3, <1>8
<1>10. S(s \ {p}) = q[z] + S(rest)
  <2> HIDE DEF S, p
  <2> QED  BY <1>2, <1>8, <1>9
<1>11. S(s \ {z}) = q[p] + S(rest)
  <2> HIDE DEF S, p
  <2> QED  BY <1>2, <1>8, <1>9
<1>12. q[p] \in Int /\ q[z] \in Int
  BY <1>3, <1>5
<1>13. S(rest) \in Int
  <2>1. rest \subseteq A /\ IsFiniteSet(rest)
    BY <1>3, FS_Subset
  <2> HIDE DEF rest
  <2> QED  BY <2>1, SumIsInt
<1> HIDE DEF S, T, p, rest
<1> QED  BY <1>4, <1>6, <1>10, <1>11, <1>12, <1>13

\* One more element adds its value, one less takes it away.
LEMMA SumGrows ==
    ASSUME NEW A, IsFiniteSet(A), NEW y, y \notin A,
           NEW q, q[y] \in Int, \A x \in A : q[x] \in Int
    PROVE  SumFunctionOnSet(q, A \cup {y}) = SumFunctionOnSet(q, A) + q[y]
<1>1. IsFiniteSet(A \cup {y}) /\ (A \cup {y}) \ {y} = A
  BY FS_AddElement
<1>2. \A x \in A \cup {y} : q[x] \in Int
  OBVIOUS
<1>3. SumFunctionOnSet(q, A \cup {y})
        = q[y] + SumFunctionOnSet(q, (A \cup {y}) \ {y})
  BY <1>1, <1>2, SumTakes
<1>4. SumFunctionOnSet(q, A) \in Int
  BY SumIsInt
<1>5. SumFunctionOnSet(q, A \cup {y}) = q[y] + SumFunctionOnSet(q, A)
  BY <1>1, <1>3
<1> QED  BY <1>4, <1>5

\* A value that moves by d moves the sums it is part of by d.
LEMMA SumMoves ==
    ASSUME NEW A, IsFiniteSet(A), NEW q, \A x \in A : q[x] \in Int,
           NEW c \in A, NEW d \in Int,
           NEW r, r[c] = q[c] + d, \A x \in A : x # c => r[x] = q[x]
    PROVE  SumFunctionOnSet(r, A) = SumFunctionOnSet(q, A) + d
<1>1. IsFiniteSet(A \ {c})
  BY FS_Subset
<1>2. \A x \in A : r[x] \in Int
  OBVIOUS
<1>3. SumFunctionOnSet(r, A) = r[c] + SumFunctionOnSet(r, A \ {c})
  BY <1>2, SumTakes
<1>4. SumFunctionOnSet(q, A) = q[c] + SumFunctionOnSet(q, A \ {c})
  BY SumTakes
<1>5. SumFunctionOnSet(r, A \ {c}) = SumFunctionOnSet(q, A \ {c})
  BY <1>1, SumAgrees
<1>6. SumFunctionOnSet(q, A \ {c}) \in Int
  BY <1>1, SumIsInt
<1>7. q[c] \in Int
  OBVIOUS
<1> QED  BY <1>3, <1>4, <1>5, <1>6, <1>7

\* The difference of two sums.
LEMMA SumTakesAway ==
    ASSUME NEW A, IsFiniteSet(A), NEW p, NEW q, NEW r,
           \A x \in A : p[x] \in Int /\ q[x] \in Int /\ r[x] = p[x] - q[x]
    PROVE  SumFunctionOnSet(r, A) = SumFunctionOnSet(p, A) - SumFunctionOnSet(q, A)
<1> DEFINE T == {s \in SUBSET A : SumFunctionOnSet(r, s)
                                    # SumFunctionOnSet(p, s) - SumFunctionOnSet(q, s)}
<1>1. SUFFICES ASSUME T # {} PROVE FALSE
  OBVIOUS
<1>2. PICK s \in T : \A t \in SUBSET s : t # s => t \notin T
  <2>1. T \subseteq SUBSET A
    OBVIOUS
  <2> HIDE DEF T
  <2> QED  BY <1>1, <2>1, Smallest
<1>3. /\ s \in SUBSET A /\ IsFiniteSet(s)
      /\ SumFunctionOnSet(r, s) # SumFunctionOnSet(p, s) - SumFunctionOnSet(q, s)
  BY <1>2, FS_Subset
<1>4. s # {}
  BY <1>3, SumOfNone
<1> DEFINE y == Pick(s)  t == s \ {y}
<1>5. /\ y \in A /\ t \subseteq A /\ IsFiniteSet(t)
      /\ SumFunctionOnSet(r, t) = SumFunctionOnSet(p, t) - SumFunctionOnSet(q, t)
  BY <1>2, <1>3, <1>4, PickInside, FS_Subset
<1>6. /\ SumFunctionOnSet(p, s) = p[y] + SumFunctionOnSet(p, t)
      /\ SumFunctionOnSet(q, s) = q[y] + SumFunctionOnSet(q, t)
      /\ SumFunctionOnSet(r, s) = r[y] + SumFunctionOnSet(r, t)
  BY <1>3, <1>4, SumOfSome
<1>7. /\ SumFunctionOnSet(p, t) \in Int /\ SumFunctionOnSet(q, t) \in Int
      /\ p[y] \in Int /\ q[y] \in Int /\ r[y] = p[y] - q[y]
  <2>1. \A x \in t : p[x] \in Int /\ q[x] \in Int
    BY <1>5
  <2>2. y \in A /\ IsFiniteSet(t)
    BY <1>5
  <2> HIDE DEF y, t
  <2> QED  BY <2>1, <2>2, SumIsInt
<1> HIDE DEF T, y, t
<1> QED  BY <1>3, <1>5, <1>6, <1>7
=============================================================================
