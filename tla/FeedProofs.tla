----------------------------- MODULE FeedProofs -----------------------------
(***************************************************************************)
(* Proofs about what reaches the loop from outside: the signals of         *)
(* SignalPath (SignalTypes, SignalsStayInLine, QuotaIsForMatches) and the  *)
(* live bars of BarFeed (BarsKeepTheirOrder, BarTypes, BarsStayWhole).     *)
(***************************************************************************)
EXTENDS SignalPath, BarFeed, Facts

(***************************************************************************)
(* SignalPath: Unbroken and QuotaGoesToMatches.  The orders, the deque and *)
(* the source's queue are three sequences of numbers that rise, each below *)
(* the next; a step moves numbers from one to the one before it or to      *)
(* dropped.                                                                *)
(***************************************************************************)

Rising(s) == \A i, j \in DOMAIN s : i < j => s[i] < s[j]

Below(s, t) == \A i \in DOMAIN s, j \in DOMAIN t : s[i] < t[j]

IdsOf(signals) == [i \in DOMAIN signals |-> signals[i].id]

(***************************************************************************)
(* Two sequences, one after the other.                                     *)
(***************************************************************************)
JoinOf(S, a, b, c) ==
    /\ c \in Seq(S) /\ Len(c) = Len(a) + Len(b)
    /\ DOMAIN a = 1..Len(a) /\ DOMAIN b = 1..Len(b) /\ DOMAIN c = 1..Len(c)
    /\ Len(a) \in Nat /\ Len(b) \in Nat
    /\ \A i \in DOMAIN a : i \in DOMAIN c /\ c[i] = a[i]
    /\ \A j \in DOMAIN b : j + Len(a) \in DOMAIN c /\ c[j + Len(a)] = b[j]
    /\ \A k \in DOMAIN c : k \in DOMAIN a \/ (k - Len(a) \in DOMAIN b /\ k > Len(a))

LEMMA JoinIs ==
    ASSUME NEW S, NEW a \in Seq(S), NEW b \in Seq(S), NEW c, c = a \o b
    PROVE  JoinOf(S, a, b, c)
<1>1. /\ c \in Seq(S) /\ Len(c) = Len(a) + Len(b)
      /\ \A i \in 1..(Len(a) + Len(b)) :
            c[i] = IF i <= Len(a) THEN a[i] ELSE b[i - Len(a)]
    OBVIOUS
<1>2. /\ DOMAIN a = 1..Len(a) /\ DOMAIN b = 1..Len(b) /\ DOMAIN c = 1..(Len(a) + Len(b))
      /\ Len(a) \in Nat /\ Len(b) \in Nat
    BY <1>1
<1> QED
    BY <1>1, <1>2 DEF JoinOf

\* Two sequences with the same length and the same elements are equal.
LEMMA SameSequence ==
    ASSUME NEW S, NEW a \in Seq(S), NEW b \in Seq(S), Len(a) = Len(b),
           \A i \in 1..Len(a) : a[i] = b[i]
    PROVE  a = b
OBVIOUS

LEMMA JoinedRange ==
    ASSUME NEW a \in Seq(Nat), NEW b \in Seq(Nat), NEW c, c = a \o b
    PROVE  Range(c) = Range(a) \cup Range(b)
<1>1. /\ \A i \in DOMAIN a : i \in DOMAIN c /\ c[i] = a[i]
      /\ \A j \in DOMAIN b : j + Len(a) \in DOMAIN c /\ c[j + Len(a)] = b[j]
      /\ \A k \in DOMAIN c :
                  \/ k \in DOMAIN a
                  \/ k - Len(a) \in DOMAIN b /\ k > Len(a)
    BY JoinIs DEF JoinOf
<1>2. Len(a) \in Nat /\ DOMAIN c \subseteq Int
  <2>1. DOMAIN c = 1..Len(c) /\ Len(c) \in Nat
      BY JoinIs DEF JoinOf
  <2> QED
      BY <2>1
<1>3. ASSUME NEW k \in DOMAIN c
      PROVE  c[k] \in Range(a) \cup Range(b)
  <2>1. CASE k \in DOMAIN a
      BY <1>1, <2>1 DEF Range
  <2>2. CASE k - Len(a) \in DOMAIN b
    <3>1. c[k - Len(a) + Len(a)] = b[k - Len(a)]
        BY <1>1, <2>2
    <3>2. k - Len(a) + Len(a) = k
        BY <1>2
    <3> QED
        BY <2>2, <3>1, <3>2 DEF Range
  <2> QED
      BY <1>1, <2>1, <2>2
<1>4. ASSUME NEW i \in DOMAIN a PROVE a[i] \in Range(c)
    BY <1>1 DEF Range
<1>5. ASSUME NEW j \in DOMAIN b PROVE b[j] \in Range(c)
    BY <1>1 DEF Range
<1>6. Range(c) \subseteq Range(a) \cup Range(b)
    BY <1>3 DEF Range
<1>7. Range(a) \subseteq Range(c) /\ Range(b) \subseteq Range(c)
    BY <1>4, <1>5 DEF Range
<1> QED
    BY <1>6, <1>7

LEMMA JoinedRises ==
    ASSUME NEW a \in Seq(Nat), NEW b \in Seq(Nat), NEW c, c = a \o b
    PROVE  /\ Rising(a) /\ Rising(b) /\ Below(a, b) => Rising(c)
           /\ Rising(c) => Rising(a) /\ Rising(b) /\ Below(a, b)
<1>1. /\ \A i \in DOMAIN a : i \in DOMAIN c /\ c[i] = a[i]
      /\ \A j \in DOMAIN b : j + Len(a) \in DOMAIN c /\ c[j + Len(a)] = b[j]
      /\ \A k \in DOMAIN c :
                  \/ k \in DOMAIN a
                  \/ k - Len(a) \in DOMAIN b /\ k > Len(a)
    BY JoinIs DEF JoinOf
<1>2. /\ DOMAIN a = 1..Len(a) /\ DOMAIN b = 1..Len(b) /\ DOMAIN c = 1..Len(c)
      /\ Len(a) \in Nat /\ Len(b) \in Nat /\ Len(c) \in Nat
    BY JoinIs DEF JoinOf
<1>3. ASSUME Rising(a), Rising(b), Below(a, b), NEW i \in DOMAIN c, NEW j \in DOMAIN c, i < j
      PROVE  c[i] < c[j]
  <2>1. CASE j \in DOMAIN a
    <3>1. i \in DOMAIN a
        BY <1>2, <1>3, <2>1
    <3> QED
        BY <1>1, <1>3, <2>1, <3>1 DEF Rising
  <2>2. CASE j - Len(a) \in DOMAIN b
    <3>1. PICK l \in DOMAIN b : l = j - Len(a) /\ c[j] = b[l]
      <4>1. c[(j - Len(a)) + Len(a)] = b[j - Len(a)]
          BY <1>1, <2>2
      <4>2. (j - Len(a)) + Len(a) = j
          BY <1>2
      <4> QED
          BY <2>2, <4>1, <4>2
    <3>2. CASE i \in DOMAIN a
        BY <1>1, <1>3, <3>1, <3>2 DEF Below
    <3>3. CASE i - Len(a) \in DOMAIN b
      <4>1. PICK k \in DOMAIN b : k = i - Len(a) /\ c[i] = b[k]
        <5>1. c[(i - Len(a)) + Len(a)] = b[i - Len(a)]
            BY <1>1, <3>3
        <5>2. (i - Len(a)) + Len(a) = i
            BY <1>2
        <5> QED
            BY <3>3, <5>1, <5>2
      <4>2. k < l
          BY <1>2, <1>3, <3>1, <4>1
      <4> QED
          BY <1>3, <3>1, <4>1, <4>2 DEF Rising
    <3> QED
        BY <1>1, <3>2, <3>3
  <2> QED
      BY <1>1, <2>1, <2>2
<1>4. ASSUME Rising(c), NEW i \in DOMAIN a, NEW j \in DOMAIN a, i < j
      PROVE  a[i] < a[j]
    BY <1>1, <1>4 DEF Rising
<1>5. ASSUME Rising(c), NEW i \in DOMAIN b, NEW j \in DOMAIN b, i < j
      PROVE  b[i] < b[j]
  <2>1. i + Len(a) < j + Len(a)
      BY <1>2, <1>5
  <2> QED
      BY <1>1, <1>5, <2>1 DEF Rising
<1>6. ASSUME Rising(c), NEW i \in DOMAIN a, NEW j \in DOMAIN b
      PROVE  a[i] < b[j]
  <2>1. i < j + Len(a)
      BY <1>2
  <2> QED
      BY <1>1, <1>6, <2>1 DEF Rising
<1> QED
    BY <1>3, <1>4, <1>5, <1>6 DEF Rising, Below

LEMMA JoinedNumbers ==
    ASSUME NEW a \in Seq(Nat), NEW b \in Seq(Nat), NEW c, c = a \o b
    PROVE  /\ c \in Seq(Nat) /\ Range(c) = Range(a) \cup Range(b)
           /\ Rising(a) /\ Rising(b) /\ Below(a, b) => Rising(c)
           /\ Rising(c) => Rising(a) /\ Rising(b) /\ Below(a, b)
<1>1. c \in Seq(Nat)
    BY JoinIs DEF JoinOf
<1>2. Range(c) = Range(a) \cup Range(b)
    BY JoinedRange
<1> QED
    BY <1>1, <1>2, JoinedRises

\* Below is about the numbers alone.
LEMMA BelowIs ==
    ASSUME NEW a, NEW b
    PROVE  /\ Below(a, b) => \A x \in Range(a), y \in Range(b) : x < y
           /\ (\A x \in Range(a), y \in Range(b) : x < y) => Below(a, b)
BY DEF Below, Range

(***************************************************************************)
(* The line of the numbers: e became orders, q wait in the deque, u in the *)
(* source's queue, of n that were accepted and without those in d.         *)
(***************************************************************************)
InLine(e, q, u, n, d) ==
    /\ e \in Seq(Nat) /\ q \in Seq(Nat) /\ u \in Seq(Nat) /\ n \in Nat
    /\ Rising(e) /\ Rising(q) /\ Rising(u)
    /\ Below(e, q) /\ Below(e, u) /\ Below(q, u)
    /\ Range(e) \cup Range(q) \cup Range(u) = (1..n) \ d
    /\ d \subseteq 1..n

LEMMA LineRises ==
    ASSUME NEW e, NEW q, NEW u, NEW n, NEW d, InLine(e, q, u, n, d)
    PROVE  Rising(e \o q \o u) /\ Range(e \o q \o u) = (1..n) \ d
<1>1. PICK c : c = e \o q
    OBVIOUS
<1>2. /\ e \in Seq(Nat) /\ q \in Seq(Nat) /\ u \in Seq(Nat) /\ n \in Nat
      /\ Rising(e) /\ Rising(q) /\ Rising(u)
      /\ Below(e, q) /\ Below(e, u) /\ Below(q, u)
    BY DEF InLine
<1>3. c \in Seq(Nat) /\ Rising(c) /\ Range(c) = Range(e) \cup Range(q)
    BY <1>1, <1>2, JoinedNumbers
<1>4. Below(c, u)
    BY <1>3, BelowIs DEF InLine
<1>5. PICK l : l = c \o u
    OBVIOUS
<1>6. Rising(l) /\ Range(l) = Range(c) \cup Range(u)
    BY <1>2, <1>3, <1>4, <1>5, JoinedNumbers
<1> QED
    BY <1>1, <1>3, <1>5, <1>6 DEF InLine

\* An accepted signal goes to the end of the line.
LEMMA LineGrows ==
    ASSUME NEW e, NEW q, NEW u, NEW n, NEW d, InLine(e, q, u, n, d),
           NEW v, v = u \o <<n + 1>>
    PROVE  InLine(e, q, v, n + 1, d)
<1>1. /\ e \in Seq(Nat) /\ q \in Seq(Nat) /\ u \in Seq(Nat) /\ n \in Nat
      /\ Rising(e) /\ Rising(q) /\ Rising(u)
      /\ Below(e, q) /\ Below(e, u) /\ Below(q, u)
    BY DEF InLine
<1>2. PICK t : t = <<n + 1>>
    OBVIOUS
<1>3. t \in Seq(Nat) /\ Range(t) = {n + 1} /\ Rising(t)
    BY <1>1, <1>2 DEF Range, Rising
<1>3a. v = u \o t
    BY <1>2
<1>4. v \in Seq(Nat) /\ Range(v) = Range(u) \cup {n + 1}
  <2>1. v \in Seq(Nat) /\ Range(v) = Range(u) \cup Range(t)
      BY <1>1, <1>3, <1>3a, JoinedNumbers
  <2> QED
      BY <1>3, <2>1
<1>5. \A x \in Range(e) \cup Range(q) \cup Range(u) : x \in 1..n
    BY DEF InLine
<1>6. \A x \in Range(e) \cup Range(q) \cup Range(u), y \in {n + 1} : x < y
    BY <1>1, <1>5
<1>7. Below(u, t)
    BY <1>3, <1>6, BelowIs
<1>8. Rising(v)
    BY <1>1, <1>3, <1>3a, <1>7, JoinedNumbers
<1>9. Below(e, v) /\ Below(q, v)
  <2>1. /\ \A x \in Range(e), y \in Range(u) : x < y
        /\ \A x \in Range(q), y \in Range(u) : x < y
      BY BelowIs DEF InLine
  <2>2. \A x \in Range(e) \cup Range(q), y \in Range(v) : x < y
      BY <1>4, <1>6, <2>1
  <2> QED
      BY <2>2, BelowIs
<1>10. Range(e) \cup Range(q) \cup Range(v) = (1..(n + 1)) \ d /\ d \subseteq 1..(n + 1)
  <2>1. Range(e) \cup Range(q) \cup Range(u) = (1..n) \ d /\ d \subseteq 1..n
      BY DEF InLine
  <2>2. 1..(n + 1) = (1..n) \cup {n + 1} /\ n + 1 \notin 1..n
      BY <1>1
  <2> QED
      BY <1>4, <2>1, <2>2
<1> QED
    BY <1>1, <1>4, <1>8, <1>9, <1>10 DEF InLine

\* At a full source queue it is dropped.
LEMMA LineSkips ==
    ASSUME NEW e, NEW q, NEW u, NEW n, NEW d, InLine(e, q, u, n, d)
    PROVE  InLine(e, q, u, n + 1, d \cup {n + 1})
<1>0. n \in Nat
    BY DEF InLine
<1>1. n \in Nat /\ 1..(n + 1) = (1..n) \cup {n + 1} /\ n + 1 \notin 1..n /\ n + 1 \in Nat
    BY <1>0
<1>2. (1..(n + 1)) \ (d \cup {n + 1}) = (1..n) \ d /\ d \cup {n + 1} \subseteq 1..(n + 1)
    BY <1>1 DEF InLine
<1> QED
    BY <1>1, <1>2 DEF InLine

(***************************************************************************)
(* The pump moves the first of the source's queue to the deque and drops   *)
(* the others.                                                             *)
(***************************************************************************)
LEMMA LinePumps ==
    ASSUME NEW e, NEW q, NEW u, NEW n, NEW d, InLine(e, q, u, n, d),
           NEW t \in Seq(Nat), NEW r \in Seq(Nat), u = t \o r
    PROVE  InLine(e, q \o t, <<>>, n, d \cup Range(r))
<1>1. /\ e \in Seq(Nat) /\ q \in Seq(Nat) /\ u \in Seq(Nat) /\ n \in Nat
      /\ Rising(e) /\ Rising(q) /\ Rising(u)
      /\ Below(e, q) /\ Below(e, u) /\ Below(q, u)
    BY DEF InLine
<1>2. PICK p : p = q \o t
    OBVIOUS
<1>3. Rising(t) /\ Rising(r) /\ Below(t, r) /\ Range(u) = Range(t) \cup Range(r)
    BY <1>1, JoinedNumbers
<1>4. p \in Seq(Nat) /\ Range(p) = Range(q) \cup Range(t)
    BY <1>1, <1>2, JoinedNumbers
<1>5. /\ \A x \in Range(e), y \in Range(q) : x < y
      /\ \A x \in Range(e), y \in Range(u) : x < y
      /\ \A x \in Range(q), y \in Range(u) : x < y
      /\ \A x \in Range(t), y \in Range(r) : x < y
    BY <1>3, BelowIs DEF InLine
<1>6. Below(q, t) /\ Below(e, p)
  <2>1. \A x \in Range(q), y \in Range(t) : x < y
      BY <1>3, <1>5
  <2>2. \A x \in Range(e), y \in Range(p) : x < y
      BY <1>3, <1>4, <1>5
  <2> QED
      BY <2>1, <2>2, BelowIs
<1>7. Rising(p)
    BY <1>1, <1>2, <1>3, <1>6, JoinedNumbers
<1>8. PICK z : z = <<>>
    OBVIOUS
<1>9. z \in Seq(Nat) /\ Rising(z) /\ Range(z) = {} /\ Below(e, z) /\ Below(p, z)
    BY <1>8 DEF Rising, Range, Below
<1>10. Range(e) \cup Range(p) \cup Range(z) = (1..n) \ (d \cup Range(r))
  <2>1. Range(e) \cup Range(q) \cup Range(u) = (1..n) \ d
      BY DEF InLine
  <2>2. \A y \in Range(r) : y \in Nat
      BY DEF Range
  <2>3. \A y \in Range(r) : y \notin Range(e) \cup Range(q) \cup Range(t)
    <3>1. \A y \in Range(r) : ~(y < y)
        BY <2>2
    <3> QED
        BY <1>3, <1>5, <3>1
  <2> QED
      BY <1>3, <1>4, <1>9, <2>1, <2>3
<1>11. d \cup Range(r) \subseteq 1..n
    BY <1>3 DEF InLine
<1> QED
    BY <1>1, <1>2, <1>4, <1>6, <1>7, <1>8, <1>9, <1>10, <1>11 DEF InLine

(***************************************************************************)
(* A bar drops some of the deque, turns the first of the others into       *)
(* orders and keeps the rest.                                              *)
(***************************************************************************)
LEMMA LineDrains ==
    ASSUME NEW e, NEW q, NEW u, NEW n, NEW d, InLine(e, q, u, n, d),
           NEW t \in Seq(Nat), NEW r \in Seq(Nat), NEW m, m = t \o r, Rising(m),
           NEW o, Range(q) = Range(m) \cup o, Range(m) \cap o = {}
    PROVE  InLine(e \o t, r, u, n, d \cup o)
<1>1. /\ e \in Seq(Nat) /\ q \in Seq(Nat) /\ u \in Seq(Nat) /\ n \in Nat
      /\ Rising(e) /\ Rising(q) /\ Rising(u)
      /\ Below(e, q) /\ Below(e, u) /\ Below(q, u)
    BY DEF InLine
<1>2. PICK p : p = e \o t
    OBVIOUS
<1>3. Rising(t) /\ Rising(r) /\ Below(t, r) /\ Range(m) = Range(t) \cup Range(r)
    BY <1>1, JoinedNumbers
<1>4. p \in Seq(Nat) /\ Range(p) = Range(e) \cup Range(t)
    BY <1>1, <1>2, JoinedNumbers
<1>5. /\ \A x \in Range(e), y \in Range(q) : x < y
      /\ \A x \in Range(e), y \in Range(u) : x < y
      /\ \A x \in Range(q), y \in Range(u) : x < y
      /\ \A x \in Range(t), y \in Range(r) : x < y
    BY <1>3, BelowIs DEF InLine
<1>6. Range(t) \subseteq Range(q) /\ Range(r) \subseteq Range(q)
    BY <1>3
<1>7. Below(e, t) /\ Below(p, r) /\ Below(p, u) /\ Below(r, u)
  <2>1. \A x \in Range(e), y \in Range(t) : x < y
      BY <1>5, <1>6
  <2>2. \A x \in Range(p), y \in Range(r) : x < y
      BY <1>4, <1>5, <1>6
  <2>3. \A x \in Range(p), y \in Range(u) : x < y
      BY <1>4, <1>5, <1>6
  <2>4. \A x \in Range(r), y \in Range(u) : x < y
      BY <1>5, <1>6
  <2> QED
      BY <2>1, <2>2, <2>3, <2>4, BelowIs
<1>8. Rising(p)
    BY <1>1, <1>2, <1>3, <1>7, JoinedNumbers
<1>9. Range(p) \cup Range(r) \cup Range(u) = (1..n) \ (d \cup o)
  <2>1. Range(e) \cup Range(q) \cup Range(u) = (1..n) \ d
      BY DEF InLine
  <2>2. \A y \in o : y \in Nat /\ y \in Range(q)
      BY <1>1 DEF Range
  <2>3. \A y \in o : y \notin Range(e) \cup Range(u)
    <3>1. \A y \in o : ~(y < y)
        BY <2>2
    <3> QED
        BY <1>5, <2>2, <3>1
  <2> QED
      BY <1>3, <1>4, <2>1, <2>3
<1>10. d \cup o \subseteq 1..n
    BY DEF InLine
<1> QED
    BY <1>1, <1>2, <1>3, <1>4, <1>7, <1>8, <1>9, <1>10 DEF InLine

(***************************************************************************)
(* The ids of a sequence of signals.                                       *)
(***************************************************************************)
LEMMA IdsAre ==
    ASSUME NEW s \in Seq(Signal)
    PROVE  /\ IdsOf(s) \in Seq(Nat) /\ Len(IdsOf(s)) = Len(s)
           /\ DOMAIN IdsOf(s) = DOMAIN s /\ \A i \in DOMAIN s : IdsOf(s)[i] = s[i].id
           /\ Range(IdsOf(s)) = {s[i].id : i \in DOMAIN s}
<1>1. \A i \in DOMAIN s : s[i].id \in Nat
  <2>1. \A x \in Signal : x.id \in Nat
      BY SignalPathAssumption DEF Signal
  <2>2. \A i \in DOMAIN s : s[i] \in Signal
      OBVIOUS
  <2> QED
      BY <2>1, <2>2
<1>2. DOMAIN s = 1..Len(s) /\ Len(s) \in Nat
    OBVIOUS
<1>3. IdsOf(s) \in Seq(Nat) /\ Len(IdsOf(s)) = Len(s)
    BY <1>1, <1>2 DEF IdsOf
<1>4. DOMAIN IdsOf(s) = DOMAIN s /\ \A i \in DOMAIN s : IdsOf(s)[i] = s[i].id
    BY DEF IdsOf
<1>5. Range(IdsOf(s)) = {s[i].id : i \in DOMAIN s}
    BY DEF IdsOf, Range
<1> QED
    BY <1>3, <1>4, <1>5

LEMMA IdsOfJoined ==
    ASSUME NEW a \in Seq(Signal), NEW b \in Seq(Signal), NEW c, c = a \o b
    PROVE  IdsOf(c) = IdsOf(a) \o IdsOf(b)
<1>0. JoinOf(Signal, a, b, c)
    BY JoinIs
<1>1. /\ c \in Seq(Signal) /\ Len(c) = Len(a) + Len(b)
      /\ \A i \in DOMAIN a : i \in DOMAIN c /\ c[i] = a[i]
      /\ \A j \in DOMAIN b : j + Len(a) \in DOMAIN c /\ c[j + Len(a)] = b[j]
    BY <1>0 DEF JoinOf
<1>2. PICK x : x = IdsOf(a)
    OBVIOUS
<1>3. PICK y : y = IdsOf(b)
    OBVIOUS
<1>4. PICK z : z = IdsOf(c)
    OBVIOUS
<1>5. /\ x \in Seq(Nat) /\ Len(x) = Len(a) /\ DOMAIN x = DOMAIN a
      /\ \A i \in DOMAIN a : x[i] = a[i].id
    BY <1>2, IdsAre
<1>6. /\ y \in Seq(Nat) /\ Len(y) = Len(b) /\ DOMAIN y = DOMAIN b
      /\ \A i \in DOMAIN b : y[i] = b[i].id
    BY <1>3, IdsAre
<1>7. /\ z \in Seq(Nat) /\ Len(z) = Len(c) /\ DOMAIN z = DOMAIN c
      /\ \A i \in DOMAIN c : z[i] = c[i].id
    BY <1>1, <1>4, IdsAre
<1>8. PICK w : w = x \o y
    OBVIOUS
<1>9a. JoinOf(Nat, x, y, w)
    BY <1>5, <1>6, <1>8, JoinIs
<1>9. /\ w \in Seq(Nat) /\ Len(w) = Len(x) + Len(y)
      /\ \A i \in DOMAIN x : i \in DOMAIN w /\ w[i] = x[i]
      /\ \A j \in DOMAIN y : j + Len(x) \in DOMAIN w /\ w[j + Len(x)] = y[j]
      /\ \A k \in DOMAIN w : k \in DOMAIN x \/ (k - Len(x) \in DOMAIN y /\ k > Len(x))
    BY <1>9a DEF JoinOf
<1>10. Len(z) = Len(w)
    BY <1>1, <1>5, <1>6, <1>7, <1>9
<1>11. DOMAIN z = 1..Len(z) /\ DOMAIN w = 1..Len(w) /\ Len(a) \in Nat
    BY <1>7, <1>9
<1>12. ASSUME NEW k \in DOMAIN w
       PROVE  z[k] = w[k]
  <2>1. CASE k \in DOMAIN a
    <3>1. w[k] = x[k] /\ x[k] = a[k].id
        BY <1>5, <1>9, <2>1
    <3>2. k \in DOMAIN c /\ c[k] = a[k]
        BY <1>1, <2>1
    <3>3. z[k] = c[k].id
        BY <1>7, <3>2
    <3> QED
        BY <3>1, <3>2, <3>3
  <2>2. CASE k - Len(a) \in DOMAIN b
    <3>1. PICK j \in DOMAIN b : j = k - Len(a)
        BY <2>2
    <3>2. j + Len(a) = k
        BY <1>11, <3>1
    <3>3. w[k] = y[j] /\ c[k] = b[j]
        BY <1>1, <1>5, <1>6, <1>9, <3>2
    <3>4. k \in DOMAIN c
        BY <1>1, <3>2
    <3> QED
        BY <1>6, <1>7, <3>3, <3>4
  <2> QED
      BY <1>5, <1>6, <1>9, <2>1, <2>2
<1>13. z = w
    BY <1>7, <1>9, <1>10, <1>11, <1>12, SameSequence
<1> QED
    BY <1>2, <1>3, <1>4, <1>8, <1>13

\* The first of a sequence and the rest of it.
LEMMA CutInTwo ==
    ASSUME NEW S, NEW s \in Seq(S), NEW n \in Nat
    PROVE  /\ FirstOf(s, n) \in Seq(S) /\ SubSeq(s, n + 1, Len(s)) \in Seq(S)
           /\ Len(FirstOf(s, n)) = IF n < Len(s) THEN n ELSE Len(s)
           /\ Len(SubSeq(s, n + 1, Len(s))) = IF n < Len(s) THEN Len(s) - n ELSE 0
           /\ s = FirstOf(s, n) \o SubSeq(s, n + 1, Len(s))
<1>1. PICK k \in Nat : k = IF n < Len(s) THEN n ELSE Len(s)
    OBVIOUS
<1>2. PICK a : a = SubSeq(s, 1, k)
    OBVIOUS
<1>3. PICK b : b = SubSeq(s, n + 1, Len(s))
    OBVIOUS
<1>4. FirstOf(s, n) = a
    BY <1>1, <1>2 DEF FirstOf
<1>5. /\ a \in Seq(S) /\ Len(a) = k /\ \A i \in 1..k : a[i] = s[i]
    BY <1>1, <1>2
<1>6. /\ b \in Seq(S) /\ Len(b) = IF n < Len(s) THEN Len(s) - n ELSE 0
      /\ \A i \in 1..Len(b) : b[i] = s[n + i]
    BY <1>1, <1>3
<1>7. PICK c : c = a \o b
    OBVIOUS
<1>8. JoinOf(S, a, b, c)
    BY <1>5, <1>6, <1>7, JoinIs
<1>9. c \in Seq(S) /\ Len(c) = Len(s) /\ Len(s) \in Nat
  <2>1. c \in Seq(S) /\ Len(c) = Len(a) + Len(b)
      BY <1>8 DEF JoinOf
  <2> QED
      BY <1>1, <1>5, <1>6, <2>1
<1>10. ASSUME NEW i \in 1..Len(s)
       PROVE  c[i] = s[i]
  <2>1. CASE i <= k
    <3>1. i \in 1..k /\ i \in DOMAIN a
        BY <1>1, <1>5, <2>1
    <3>2. c[i] = a[i]
        BY <1>8, <3>1 DEF JoinOf
    <3> QED
        BY <1>5, <3>1, <3>2
  <2>2. CASE i > k
    <3>1. n < Len(s) /\ k = n
        BY <1>1, <1>9, <2>2
    <3>2. i - n \in 1..Len(b) /\ n + (i - n) = i /\ (i - n) + Len(a) = i
        BY <1>5, <1>6, <1>9, <2>2, <3>1
    <3>3. i - n \in DOMAIN b
        BY <1>6, <3>2
    <3>4. c[(i - n) + Len(a)] = b[i - n]
        BY <1>8, <3>3 DEF JoinOf
    <3>5. b[i - n] = s[n + (i - n)]
        BY <1>6, <3>2
    <3> QED
        BY <3>2, <3>4, <3>5
  <2> QED
      BY <1>1, <2>1, <2>2
<1>11. c = s
    BY <1>9, <1>10, SameSequence
<1> QED
    BY <1>1, <1>3, <1>4, <1>5, <1>6, <1>7, <1>11

(***************************************************************************)
(* Matching: of rising signals, those that match, rising.                  *)
(***************************************************************************)
Grows(signals, f) ==
    f = [n \in 0..Len(signals) |->
            IF n = 0 THEN <<>>
            ELSE IF Matches(signals[n]) THEN Append(f[n - 1], signals[n])
            ELSE f[n - 1]]

LEMMA GrowingExists ==
    ASSUME NEW signals \in Seq(Signal)
    PROVE  \E f : Grows(signals, f)
<1>1. PICK n \in Nat : n = Len(signals)
    OBVIOUS
<1> DEFINE St == [p \in (1..n) \X Seq(Signal) |->
                    IF Matches(signals[p[1]]) THEN Append(p[2], signals[p[1]]) ELSE p[2]]
<1>0. PICK z : z = <<>>
    OBVIOUS
<1>2. z \in Seq(Signal)
    BY <1>0
<1>3. ASSUME NEW i \in 1..n, NEW x \in Seq(Signal)
      PROVE  /\ St[<<i, x>>] = IF Matches(signals[i]) THEN Append(x, signals[i]) ELSE x
             /\ St[<<i, x>>] \in Seq(Signal)
  <2>1. signals[i] \in Signal
      BY <1>1
  <2>2. St[<<i, x>>] = IF Matches(signals[i]) THEN Append(x, signals[i]) ELSE x
      OBVIOUS
  <2>3. Append(x, signals[i]) \in Seq(Signal)
      BY <2>1
  <2> QED
      BY <2>2, <2>3
<1> HIDE DEF St
<1>3a. \A i \in 1..n : \A x \in Seq(Signal) : St[<<i, x>>] \in Seq(Signal)
    BY <1>3
<1>4. PICK g \in [0..n -> Seq(Signal)] : Recursive(g, n, z, St)
    BY <1>2, <1>3a, RecursionExists
<1>5. ASSUME NEW i \in 0..n
      PROVE  g[i] = IF i = 0 THEN <<>>
                    ELSE IF Matches(signals[i]) THEN Append(g[i - 1], signals[i])
                    ELSE g[i - 1]
  <2>1. CASE i = 0
      BY <1>0, <1>4, <2>1 DEF Recursive
  <2>2. CASE i # 0
    <3>1. i \in 1..n /\ i - 1 \in 0..n
        BY <2>2
    <3>2. g[i - 1] \in Seq(Signal)
        BY <1>4, <3>1
    <3>3. g[i] = St[<<i, g[i - 1]>>]
        BY <1>4, <3>1 DEF Recursive
    <3> QED
        BY <1>3, <2>2, <3>1, <3>2, <3>3
  <2> QED
      BY <2>1, <2>2
<1>6. g = [i \in 0..n |-> g[i]]
    BY <1>4
<1>7. Grows(signals, g)
    BY <1>1, <1>5, <1>6 DEF Grows
<1> QED
    BY <1>7

\* What the first k of the signals have given.
HitsOf(signals, k) == {signals[i].id : i \in {j \in 1..k : Matches(signals[j])}}

MatchedUpTo(signals, h, k) ==
    /\ h \in Seq(Signal) /\ Len(h) <= k
    /\ Rising(IdsOf(h)) /\ Range(IdsOf(h)) = HitsOf(signals, k)

LEMMA MatchesOn ==
    ASSUME NEW signals \in Seq(Signal), Rising(IdsOf(signals)), NEW k \in 1..Len(signals),
           NEW h, MatchedUpTo(signals, h, k - 1),
           NEW f, f = IF Matches(signals[k]) THEN Append(h, signals[k]) ELSE h
    PROVE  MatchedUpTo(signals, f, k)
<1>1. /\ h \in Seq(Signal) /\ Len(h) <= k - 1 /\ Rising(IdsOf(h))
      /\ Range(IdsOf(h)) = HitsOf(signals, k - 1)
    BY DEF MatchedUpTo
<1>2. PICK x \in Signal : x = signals[k]
    OBVIOUS
<1>3. Len(h) \in Nat
    BY <1>1
<1>4. 1..k = (1..(k - 1)) \cup {k}
    OBVIOUS
<1>5. CASE ~Matches(x)
  <2>1. {j \in 1..k : Matches(signals[j])} = {j \in 1..(k - 1) : Matches(signals[j])}
      BY <1>2, <1>4, <1>5
  <2>2. HitsOf(signals, k) = HitsOf(signals, k - 1)
      BY <2>1 DEF HitsOf
  <2>3. f = h /\ Len(h) <= k
      BY <1>1, <1>2, <1>3, <1>5
  <2> QED
      BY <1>1, <2>2, <2>3 DEF MatchedUpTo
<1>6. CASE Matches(x)
  <2>1. PICK t : t = <<x>>
      OBVIOUS
  <2>2. t \in Seq(Signal) /\ Len(t) = 1 /\ DOMAIN t = {1} /\ t[1] = x
      BY <2>1
  <2>3. f = h \o t
    <3>1. f = Append(h, x)
        BY <1>2, <1>6
    <3> QED
        BY <1>1, <2>1, <3>1
  <2>4. f \in Seq(Signal) /\ Len(f) <= k
    <3>1. JoinOf(Signal, h, t, f)
        BY <1>1, <2>2, <2>3, JoinIs
    <3>2. f \in Seq(Signal) /\ Len(f) = Len(h) + Len(t)
        BY <3>1 DEF JoinOf
    <3> QED
        BY <1>1, <1>3, <2>2, <3>2
  <2>5. IdsOf(f) = IdsOf(h) \o IdsOf(t)
      BY <1>1, <2>2, <2>3, IdsOfJoined
  <2>6. IdsOf(t) \in Seq(Nat) /\ IdsOf(h) \in Seq(Nat)
      BY <1>1, <2>2, IdsAre
  <2>7. Range(IdsOf(t)) = {x.id} /\ Rising(IdsOf(t))
    <3>1. DOMAIN IdsOf(t) = {1} /\ IdsOf(t)[1] = x.id
        BY <2>2 DEF IdsOf
    <3> QED
        BY <3>1 DEF Rising, Range
  <2>8. \A y \in HitsOf(signals, k - 1) : y < x.id
    <3>1. ASSUME NEW j \in 1..(k - 1)
          PROVE  signals[j].id < x.id
      <4>1. j \in DOMAIN signals /\ k \in DOMAIN signals /\ j < k
          OBVIOUS
      <4>2. IdsOf(signals)[j] = signals[j].id /\ IdsOf(signals)[k] = signals[k].id
          BY <4>1 DEF IdsOf
      <4>3. DOMAIN IdsOf(signals) = DOMAIN signals
          BY DEF IdsOf
      <4> QED
          BY <1>2, <4>1, <4>2, <4>3 DEF Rising
    <3> QED
        BY <3>1 DEF HitsOf
  <2>9. Below(IdsOf(h), IdsOf(t))
      BY <1>1, <2>7, <2>8, BelowIs
  <2>10. Rising(IdsOf(f)) /\ Range(IdsOf(f)) = Range(IdsOf(h)) \cup Range(IdsOf(t))
      BY <1>1, <2>5, <2>6, <2>7, <2>9, JoinedNumbers
  <2>11. HitsOf(signals, k) = HitsOf(signals, k - 1) \cup {x.id}
    <3>1. {j \in 1..k : Matches(signals[j])} = {j \in 1..(k - 1) : Matches(signals[j])} \cup {k}
        BY <1>2, <1>4, <1>6
    <3> QED
        BY <1>2, <3>1 DEF HitsOf
  <2> QED
      BY <1>1, <2>4, <2>7, <2>10, <2>11 DEF MatchedUpTo
<1> QED
    BY <1>5, <1>6

LEMMA MatchingIs ==
    ASSUME NEW signals \in Seq(Signal), Rising(IdsOf(signals)),
           NEW m, m = Matching(signals)
    PROVE  MatchedUpTo(signals, m, Len(signals))
<1>1. PICK f : f = CHOOSE g : Grows(signals, g)
    OBVIOUS
<1>2. Grows(signals, f)
    BY <1>1, GrowingExists
<1>3. PICK n \in Nat : n = Len(signals)
    OBVIOUS
<1>4. m = f[n]
    BY <1>1, <1>3 DEF Matching, Grows
<1>5. f[0] = <<>>
    BY <1>2, <1>3 DEF Grows
<1> DEFINE T == {k \in 0..n : MatchedUpTo(signals, f[k], k)}
<1>6. 0 \in T
  <2>1. PICK z : z = <<>>
      OBVIOUS
  <2>2. z \in Seq(Signal) /\ Len(z) = 0 /\ DOMAIN z = {}
      BY <2>1
  <2>3. Rising(IdsOf(z)) /\ Range(IdsOf(z)) = {}
      BY <2>2 DEF Rising, Range, IdsOf
  <2>4. HitsOf(signals, 0) = {}
      BY DEF HitsOf
  <2>5. MatchedUpTo(signals, z, 0)
      BY <2>2, <2>3, <2>4 DEF MatchedUpTo
  <2> QED
      BY <1>3, <1>5, <2>1, <2>5
<1>7. ASSUME NEW k \in 1..n, k - 1 \in T
      PROVE  k \in T
  <2>1. PICK h : h = f[k - 1]
      OBVIOUS
  <2>2. MatchedUpTo(signals, h, k - 1) /\ k \in 0..n /\ k \in 1..Len(signals)
      BY <1>3, <1>7, <2>1
  <2>3. k \in 0..Len(signals) /\ k # 0
      BY <1>3
  <2>4. f[k] = IF Matches(signals[k]) THEN Append(h, signals[k]) ELSE h
      BY <1>2, <2>1, <2>3 DEF Grows
  <2>5. MatchedUpTo(signals, f[k], k)
      BY <2>2, <2>4, MatchesOn
  <2> QED
      BY <2>2, <2>5
<1>8. \A k \in 1..n : k - 1 \in T => k \in T
    BY <1>7
<1>9. n \in 0..n
    BY <1>3
<1>10. n \in T
  <2> HIDE DEF T
  <2> QED
      BY <1>6, <1>8, <1>9, UpTo
<1> QED
    BY <1>3, <1>4, <1>10

(***************************************************************************)
(* What one activation of the pump sees of the source's queue, in which a  *)
(* sentinel can only be the last element.                                  *)
(***************************************************************************)
UpcomingOf(s) == IF Contains(s, Sentinel)
                 THEN SubSeq(s, 1, SelectInSeq(s, LAMBDA e : e = Sentinel) - 1)
                 ELSE s

SentinelLast(s) == \A i \in DOMAIN s : s[i] = Sentinel => i = Len(s)

\* u are the signals of s, which end at the sentinel.
Signals(s, u) ==
    /\ u \in Seq(Signal)
    /\ \/ ~Contains(s, Sentinel) /\ s = u
       \/ Contains(s, Sentinel) /\ s = Append(u, Sentinel)

LEMMA SentinelIsNone == Sentinel \notin Signal
  BY DEF Sentinel, Signal

LEMMA UpcomingIs ==
    ASSUME NEW s \in Seq(Signal \cup {Sentinel}), SentinelLast(s)
    PROVE  Signals(s, UpcomingOf(s))
<1>1. DOMAIN s = 1..Len(s) /\ Len(s) \in Nat /\ \A i \in 1..Len(s) : s[i] \in Signal \cup {Sentinel}
    OBVIOUS
<1>2. CASE ~Contains(s, Sentinel)
  <2>1. UpcomingOf(s) = s
      BY <1>2 DEF UpcomingOf
  <2>2. \A i \in 1..Len(s) : s[i] \in Signal
      BY <1>1, <1>2 DEF Contains
  <2>3. s \in Seq(Signal)
      BY <1>1, <2>2
  <2> QED
      BY <1>2, <2>1, <2>3 DEF Signals
<1>3. CASE Contains(s, Sentinel)
  <2>1. PICK n \in 1..Len(s) : s[n] = Sentinel
      BY <1>3 DEF Contains
  <2>2. n = Len(s) /\ \A i \in 1..Len(s) : s[i] = Sentinel => i = n
      BY <1>1, <2>1 DEF SentinelLast
  <2>3. SelectInSeq(s, LAMBDA e : e = Sentinel) = n
    <3>1. PICK I : I = {i \in 1..Len(s) : s[i] = Sentinel}
        OBVIOUS
    <3>2. I = {n}
        BY <2>1, <2>2, <3>1
    <3>3. Min(I) = n
        BY <3>2, <2>1 DEF Min
    <3> QED
        BY <3>1, <3>2, <3>3 DEF SelectInSeq
  <2>4. PICK u : u = SubSeq(s, 1, n - 1)
      OBVIOUS
  <2>5. UpcomingOf(s) = u
      BY <1>3, <2>3, <2>4 DEF UpcomingOf
  <2>6. u \in Seq(Signal \cup {Sentinel}) /\ Len(u) = n - 1 /\ \A i \in 1..(n - 1) : u[i] = s[i]
      BY <1>1, <2>1, <2>4
  <2>7. \A i \in 1..(n - 1) : u[i] \in Signal
    <3>1. \A i \in 1..(n - 1) : i \in 1..Len(s) /\ i # n
        BY <1>1, <2>1
    <3>2. \A i \in 1..(n - 1) : s[i] \in Signal
        BY <1>1, <2>2, <3>1
    <3> QED
        BY <2>6, <3>2
  <2>8. u \in Seq(Signal)
      BY <2>6, <2>7
  <2>9. PICK v : v = Append(u, Sentinel)
      OBVIOUS
  <2>10. /\ v \in Seq(Signal \cup {Sentinel}) /\ Len(v) = n
         /\ \A i \in 1..(n - 1) : v[i] = u[i]
         /\ v[n] = Sentinel
      BY <2>1, <2>6, <2>9
  <2>11. \A i \in 1..Len(v) : v[i] = s[i]
      BY <2>1, <2>6, <2>10
  <2>12. v = s
      BY <2>2, <2>10, <2>11, SameSequence
  <2> QED
      BY <1>3, <2>5, <2>8, <2>9, <2>12 DEF Signals
<1> QED
    BY <1>2, <1>3

\* A queue without the sentinel, and the same with it.
LEMMA AllSignals ==
    ASSUME NEW s \in Seq(Signal)
    PROVE  /\ s \in Seq(Signal \cup {Sentinel})
           /\ ~Contains(s, Sentinel) /\ SentinelLast(s) /\ UpcomingOf(s) = s
<1>1. DOMAIN s = 1..Len(s) /\ \A i \in 1..Len(s) : s[i] \in Signal
    OBVIOUS
<1>2. \A i \in 1..Len(s) : s[i] # Sentinel
    BY <1>1, SentinelIsNone
<1>3. ~Contains(s, Sentinel) /\ SentinelLast(s)
    BY <1>1, <1>2 DEF Contains, SentinelLast
<1>4. s \in Seq(Signal \cup {Sentinel})
    OBVIOUS
<1>5. UpcomingOf(s) = s
    BY <1>3 DEF UpcomingOf
<1> QED
    BY <1>3, <1>4, <1>5

LEMMA ThenSentinel ==
    ASSUME NEW s \in Seq(Signal), NEW c, c = Append(s, Sentinel)
    PROVE  /\ c \in Seq(Signal \cup {Sentinel})
           /\ Contains(c, Sentinel) /\ SentinelLast(c) /\ UpcomingOf(c) = s
<1>0. s \in Seq(Signal \cup {Sentinel}) /\ ~Contains(s, Sentinel) /\ Len(s) \in Nat
    BY AllSignals
<1>1. /\ c \in Seq(Signal \cup {Sentinel}) /\ Len(c) = Len(s) + 1
      /\ \A i \in 1..Len(s) : c[i] = s[i]
      /\ c[Len(s) + 1] = Sentinel
      /\ DOMAIN c = 1..(Len(s) + 1)
    BY <1>0
<1>2. \A i \in 1..Len(s) : c[i] # Sentinel
    BY <1>0, <1>1 DEF Contains
<1>3. SentinelLast(c)
    BY <1>0, <1>1, <1>2 DEF SentinelLast
<1>4. Contains(c, Sentinel)
    BY <1>0, <1>1 DEF Contains
<1>5. Signals(c, UpcomingOf(c))
    BY <1>1, <1>3, UpcomingIs
<1>6. PICK u \in Seq(Signal) : u = UpcomingOf(c) /\ c = Append(u, Sentinel)
    BY <1>4, <1>5 DEF Signals
<1>7. u = s
  <2>1. PICK T : T = Signal \cup {Sentinel}
      OBVIOUS
  <2>2. u \in Seq(T) /\ s \in Seq(T) /\ Sentinel \in T
      BY <1>0, <1>6, <2>1, AllSignals
  <2>3. Len(u) + 1 = Len(c) /\ \A i \in 1..Len(u) : c[i] = u[i]
      BY <1>6, <2>2
  <2>4. Len(u) = Len(s)
      BY <1>1, <2>2, <2>3
  <2> QED
      BY <1>1, <2>2, <2>3, <2>4, SameSequence
<1> QED
    BY <1>1, <1>3, <1>4, <1>6, <1>7

\* One signal more.
LEMMA IdsOfMore ==
    ASSUME NEW s \in Seq(Signal), NEW x \in Signal, NEW c, c = Append(s, x)
    PROVE  c \in Seq(Signal) /\ Len(c) = Len(s) + 1 /\ IdsOf(c) = IdsOf(s) \o <<x.id>>
<1>1. PICK t : t = <<x>>
    OBVIOUS
<1>2. t \in Seq(Signal) /\ DOMAIN t = {1} /\ t[1] = x /\ c = s \o t
    BY <1>1
<1>3. IdsOf(t) = [i \in {1} |-> x.id]
    BY <1>2 DEF IdsOf
<1>4. IdsOf(t) = <<x.id>>
    BY <1>3
<1>5. IdsOf(c) = IdsOf(s) \o IdsOf(t)
    BY <1>2, IdsOfJoined
<1> QED
    BY <1>4, <1>5

(***************************************************************************)
(* The invariant: a sentinel is the last of the source's queue and there   *)
(* only after close(), and the signals stand in line.                      *)
(***************************************************************************)
SignalsInv ==
    /\ SignalsTypeOK
    /\ SentinelLast(source) /\ (Contains(source, Sentinel) => closing = "closed")
    /\ InLine(emitted, IdsOf(queue), IdsOf(Upcoming), Len(accepted), dropped)

LEMMA UpcomingNow == Upcoming = UpcomingOf(source)
BY DEF Upcoming, UpcomingOf

LEMMA UpcomingNext == Upcoming' = UpcomingOf(source')
<1>1. (Upcoming = UpcomingOf(source))'
    BY UpcomingNow, PTL
<1> QED
    BY <1>1

LEMMA SignalsStart == SignalsInit => SignalsInv
<1>1. SUFFICES ASSUME SignalsInit PROVE SignalsInv
    OBVIOUS
<1>2. PICK z : z = <<>>
    OBVIOUS
<1>3. z \in Seq(Signal) /\ z \in Seq(Nat) /\ z \in Seq(1..MaxSignals) /\ Len(z) = 0 /\ DOMAIN z = {}
    BY <1>2
<1>4. accepted = z /\ source = z /\ queue = z /\ emitted = z /\ dropped = {}
    BY <1>1, <1>2 DEF SignalsInit
<1>5. /\ z \in Seq(Signal \cup {Sentinel})
      /\ ~Contains(z, Sentinel) /\ SentinelLast(z) /\ UpcomingOf(z) = z
    BY <1>3, AllSignals
<1>6. SignalsTypeOK
    BY <1>1, <1>3, <1>4, <1>5, SignalPathAssumption DEF SignalsTypeOK, SignalsInit
<1>7. IdsOf(z) = z
    BY <1>2, <1>3 DEF IdsOf
<1>8. Rising(z) /\ Below(z, z) /\ Range(z) = {}
    BY <1>3 DEF Rising, Below, Range
<1>9. InLine(z, z, z, 0, {})
    BY <1>3, <1>8 DEF InLine
<1>10. Upcoming = z
    BY <1>4, <1>5, UpcomingNow
<1> QED
    BY <1>3, <1>4, <1>5, <1>6, <1>7, <1>9, <1>10 DEF SignalsInv

\* As many signals as the bound of the model admits.
LEMMA AcceptedFit ==
    ASSUME NEW a \in Seq(Signal), \A i \in DOMAIN a : a[i].id = i
    PROVE  Len(a) \in Nat /\ Len(a) <= MaxSignals
<1>1. Len(a) \in Nat /\ DOMAIN a = 1..Len(a) /\ \A i \in DOMAIN a : a[i] \in Signal
    OBVIOUS
<1>2. \A x \in Signal : x.id \in 1..MaxSignals
    BY DEF Signal
<1>3. CASE Len(a) = 0
    BY <1>3, SignalPathAssumption
<1>4. CASE Len(a) # 0
  <2>1. Len(a) \in DOMAIN a
      BY <1>1, <1>4
  <2>2. a[Len(a)].id \in 1..MaxSignals
      BY <1>1, <1>2, <2>1
  <2> QED
      BY <1>1, <2>1, <2>2
<1> QED
    BY <1>1, <1>3, <1>4

\* A step that moves no signal.
LEMMA SignalsStay ==
    ASSUME SignalsInv, UNCHANGED <<accepted, dropped, source, queue, emitted>>,
           closing' \in {"open", "client", "putting", "closed"},
           pump' \in {"off", "running", "done"},
           closing = "closed" => closing' = "closed"
    PROVE  SignalsInv'
<1>1. Upcoming' = Upcoming
    BY UpcomingNow, UpcomingNext
<1>2. SignalsTypeOK'
    BY DEF SignalsInv, SignalsTypeOK
<1>3. (SentinelLast(source) /\ (Contains(source, Sentinel) => closing = "closed"))'
    BY DEF SignalsInv
<1>4. InLine(emitted, IdsOf(queue), IdsOf(Upcoming), Len(accepted), dropped)'
    BY <1>1 DEF SignalsInv
<1> QED
    BY <1>2, <1>3, <1>4 DEF SignalsInv

LEMMA MessageKeeps ==
    ASSUME SignalsInv, NEW kind, Message(kind)
    PROVE  SignalsInv'
<1>1. PICK n \in Nat : n = Len(accepted)
    BY DEF SignalsInv, SignalsTypeOK
<1>2. PICK signal \in Signal :
        /\ signal.id = n + 1 /\ accepted' = Append(accepted, signal)
        /\ Enqueue(signal)
  <2>1. PICK x \in Parse(kind) : accepted' = Append(accepted, x) /\ Enqueue(x)
      BY DEF Message
  <2>2. x = [id |-> n + 1, symbol |-> kind] /\ kind \in SignalSymbols
      BY <1>1, <2>1 DEF Parse
  <2>3. n < MaxSignals /\ MaxSignals \in Nat
      BY <1>1, SignalPathAssumption DEF Message
  <2>4. n + 1 \in 1..MaxSignals
      BY <1>1, <2>3
  <2> QED
      BY <2>1, <2>2, <2>4 DEF Signal
<1>3. /\ UNCHANGED <<closing, pump, queue, emitted>> /\ closing # "closed"
    BY DEF Message
<1>4. /\ accepted \in Seq(Signal) /\ \A i \in DOMAIN accepted : accepted[i].id = i
      /\ source \in Seq(Signal \cup {Sentinel}) /\ Len(source) <= SourceSize
      /\ dropped \subseteq 1..MaxSignals
    BY DEF SignalsInv, SignalsTypeOK
<1>5. accepted' \in Seq(Signal) /\ Len(accepted') = n + 1
    BY <1>1, <1>2, <1>4
<1>6. \A i \in DOMAIN accepted' : accepted'[i].id = i
  <2>1. DOMAIN accepted' = 1..(n + 1) /\ DOMAIN accepted = 1..n
      BY <1>1, <1>4, <1>5
  <2>2. \A i \in 1..n : accepted'[i] = accepted[i]
      BY <1>1, <1>2, <1>4
  <2>3. accepted'[n + 1] = signal
      BY <1>1, <1>2, <1>4
  <2>4. \A i \in 1..(n + 1) : i \in 1..n \/ i = n + 1
      BY <1>1
  <2> QED
      BY <1>2, <1>4, <2>1, <2>2, <2>3, <2>4
<1>7. source \in Seq(Signal) /\ Upcoming = source
  <2>1. SentinelLast(source) /\ ~Contains(source, Sentinel)
      BY <1>3 DEF SignalsInv
  <2>2. Signals(source, UpcomingOf(source))
      BY <1>4, <2>1, UpcomingIs
  <2> QED
      BY <2>1, <2>2, UpcomingNow DEF Signals
<1>8. InLine(emitted, IdsOf(queue), IdsOf(source), n, dropped)
    BY <1>1, <1>7 DEF SignalsInv
<1>9. CASE Len(source) < SourceSize
  <2>1. source' = Append(source, signal) /\ dropped' = dropped
      BY <1>2, <1>9 DEF Enqueue
  <2>2. PICK c : c = Append(source, signal)
      OBVIOUS
  <2>3. c \in Seq(Signal) /\ Len(c) = Len(source) + 1 /\ IdsOf(c) = IdsOf(source) \o <<n + 1>>
      BY <1>2, <1>7, <2>2, IdsOfMore
  <2>4. /\ c \in Seq(Signal \cup {Sentinel})
        /\ ~Contains(c, Sentinel) /\ SentinelLast(c) /\ UpcomingOf(c) = c
      BY <2>3, AllSignals
  <2>5. InLine(emitted, IdsOf(queue), IdsOf(c), n + 1, dropped)
      BY <1>8, <2>3, LineGrows
  <2>6. source' = c /\ Upcoming' = c
      BY <2>1, <2>2, <2>4, UpcomingNext
  <2>7. Len(c) <= SourceSize
      BY <1>7, <1>9, <2>3, SignalPathAssumption
  <2>8. SignalsTypeOK'
      BY <1>3, <1>5, <1>6, <2>1, <2>4, <2>6, <2>7 DEF SignalsInv, SignalsTypeOK
  <2>9. InLine(emitted, IdsOf(queue), IdsOf(Upcoming), Len(accepted), dropped)'
      BY <1>3, <1>5, <2>1, <2>5, <2>6
  <2> QED
      BY <2>4, <2>6, <2>8, <2>9 DEF SignalsInv
<1>10. CASE ~(Len(source) < SourceSize)
  <2>1. source' = source /\ dropped' = dropped \cup {n + 1}
      BY <1>2, <1>10 DEF Enqueue
  <2>2. InLine(emitted, IdsOf(queue), IdsOf(source), n + 1, dropped \cup {n + 1})
      BY <1>8, LineSkips
  <2>3. Upcoming' = source
      BY <1>7, <2>1, UpcomingNow, UpcomingNext
  <2>4. n + 1 \in 1..MaxSignals
      BY <1>2 DEF Signal
  <2>5. dropped' \subseteq 1..MaxSignals
      BY <1>4, <2>1, <2>4
  <2>6. SignalsTypeOK'
      BY <1>3, <1>5, <1>6, <2>1, <2>5 DEF SignalsInv, SignalsTypeOK
  <2>7. InLine(emitted, IdsOf(queue), IdsOf(Upcoming), Len(accepted), dropped)'
      BY <1>3, <1>5, <2>1, <2>2, <2>3
  <2>8. SentinelLast(source') /\ ~Contains(source', Sentinel)
      BY <1>3, <2>1 DEF SignalsInv
  <2> QED
      BY <2>6, <2>7, <2>8 DEF SignalsInv
<1> QED
    BY <1>9, <1>10

LEMMA PutSentinelKeeps ==
    ASSUME SignalsInv, PutSentinel
    PROVE  SignalsInv'
<1>1. /\ source' = Append(source, Sentinel) /\ closing' = "closed" /\ closing # "closed"
      /\ Len(source) < SourceSize
      /\ UNCHANGED <<accepted, dropped, pump, queue, emitted>>
    BY DEF PutSentinel
<1>2. source \in Seq(Signal) /\ Upcoming = source
  <2>1. source \in Seq(Signal \cup {Sentinel})
      BY DEF SignalsInv, SignalsTypeOK
  <2>2. SentinelLast(source) /\ ~Contains(source, Sentinel)
      BY <1>1 DEF SignalsInv
  <2>3. Signals(source, UpcomingOf(source))
      BY <2>1, <2>2, UpcomingIs
  <2> QED
      BY <2>2, <2>3, UpcomingNow DEF Signals
<1>3. /\ source' \in Seq(Signal \cup {Sentinel})
      /\ SentinelLast(source') /\ UpcomingOf(source') = source
    BY <1>1, <1>2, ThenSentinel
<1>4. Len(source') <= SourceSize
    BY <1>1, <1>2, SignalPathAssumption
<1>5. SignalsTypeOK'
    BY <1>1, <1>3, <1>4 DEF SignalsInv, SignalsTypeOK
<1>6. Upcoming' = Upcoming
    BY <1>2, <1>3, UpcomingNext
<1>7. InLine(emitted, IdsOf(queue), IdsOf(Upcoming), Len(accepted), dropped)'
    BY <1>1, <1>6 DEF SignalsInv
<1> QED
    BY <1>1, <1>3, <1>5, <1>7 DEF SignalsInv

(***************************************************************************)
(* The pump empties the source's queue.                                    *)
(***************************************************************************)
LEMMA PumpEmpties ==
    ASSUME SignalsInv, Pump
    PROVE  source' = <<>>
<1>1. PICK u : u = Upcoming
    OBVIOUS
<1>2. source' = SubSeq(source, Len(u) + 2, Len(source))
    BY <1>1 DEF Pump
<1>3. source \in Seq(Signal \cup {Sentinel}) /\ Signals(source, u)
  <2>1. source \in Seq(Signal \cup {Sentinel}) /\ SentinelLast(source)
      BY DEF SignalsInv, SignalsTypeOK
  <2> QED
      BY <1>1, <2>1, UpcomingIs, UpcomingNow
<1>4. u \in Seq(Signal) /\ (source = u \/ source = Append(u, Sentinel))
    BY <1>3 DEF Signals
<1>5. source' = <<>>
  <2>1. u \in Seq(Signal \cup {Sentinel}) /\ Len(u) \in Nat
      BY <1>4, AllSignals
  <2>2. Len(source) \in Nat /\ Len(source) < Len(u) + 2
    <3>1. CASE source = u
        BY <2>1, <3>1
    <3>2. CASE source = Append(u, Sentinel)
      <4>1. Len(source) = Len(u) + 1
          BY <2>1, <3>2
      <4> QED
          BY <2>1, <4>1
    <3> QED
        BY <1>4, <3>1, <3>2
  <2>3. PICK k \in Nat : k = Len(u) + 2
      BY <2>1
  <2>4. PICK l \in Nat : l = Len(source)
      BY <2>2
  <2>5. SubSeq(source, k, l) = <<>>
      BY <1>3, <2>2, <2>3, <2>4
  <2> QED
      BY <1>2, <2>3, <2>4, <2>5
<1> QED
    BY <1>5

LEMMA PumpKeeps ==
    ASSUME SignalsInv, Pump
    PROVE  SignalsInv'
<1>1. PICK u : u = Upcoming
    OBVIOUS
<1>2. PICK room : room = QueueSize - Len(queue)
    OBVIOUS
<1>3. PICK t : t = FirstOf(u, room)
    OBVIOUS
<1>4. PICK r : r = SubSeq(u, room + 1, Len(u))
    OBVIOUS
<1>5. /\ queue' = queue \o t
      /\ dropped' = dropped \cup {r[i].id : i \in DOMAIN r}
      /\ source' = SubSeq(source, Len(u) + 2, Len(source))
      /\ pump' \in {"running", "done"}
      /\ UNCHANGED <<accepted, closing, emitted>>
    BY <1>1, <1>2, <1>3, <1>4 DEF Pump
<1>6. source \in Seq(Signal \cup {Sentinel}) /\ Signals(source, u)
  <2>1. source \in Seq(Signal \cup {Sentinel}) /\ SentinelLast(source)
      BY DEF SignalsInv, SignalsTypeOK
  <2> QED
      BY <1>1, <2>1, UpcomingIs, UpcomingNow
<1>7. u \in Seq(Signal) /\ (source = u \/ source = Append(u, Sentinel))
    BY <1>6 DEF Signals
<1>8. source' = <<>>
    BY PumpEmpties
<1>9. /\ queue \in Seq(Signal) /\ Len(queue) \in Nat /\ room \in Nat
      /\ room + Len(queue) = QueueSize
  <2>1. queue \in Seq(Signal) /\ Len(queue) <= QueueSize
      BY DEF SignalsInv, SignalsTypeOK
  <2>2. Len(queue) \in Nat
      BY <2>1
  <2> QED
      BY <1>2, <2>1, <2>2, SignalPathAssumption
<1>10. /\ t \in Seq(Signal) /\ r \in Seq(Signal) /\ Len(t) <= room /\ u = t \o r
  <2>1. /\ t \in Seq(Signal) /\ r \in Seq(Signal) /\ u = t \o r
        /\ Len(t) = IF room < Len(u) THEN room ELSE Len(u)
      BY <1>3, <1>4, <1>7, <1>9, CutInTwo
  <2>2. Len(u) \in Nat
      BY <1>7
  <2> QED
      BY <1>9, <2>1, <2>2
<1>11. /\ IdsOf(t) \in Seq(Nat) /\ IdsOf(r) \in Seq(Nat)
       /\ Range(IdsOf(r)) = {r[i].id : i \in DOMAIN r}
    BY <1>10, IdsAre
<1>12. IdsOf(u) = IdsOf(t) \o IdsOf(r)
    BY <1>10, IdsOfJoined
<1>13. PICK q : q = queue \o t
    OBVIOUS
<1>14. q \in Seq(Signal) /\ Len(q) <= QueueSize /\ IdsOf(q) = IdsOf(queue) \o IdsOf(t)
  <2>1. JoinOf(Signal, queue, t, q)
      BY <1>9, <1>10, <1>13, JoinIs
  <2>2. q \in Seq(Signal) /\ Len(q) = Len(queue) + Len(t) /\ Len(t) \in Nat
      BY <2>1 DEF JoinOf
  <2>3. Len(q) <= QueueSize
      BY <1>9, <1>10, <2>2, SignalPathAssumption
  <2> QED
      BY <1>9, <1>10, <1>13, <2>2, <2>3, IdsOfJoined
<1>15. InLine(emitted, IdsOf(queue), IdsOf(u), Len(accepted), dropped)
    BY <1>1 DEF SignalsInv
<1>16. InLine(emitted, IdsOf(q), <<>>, Len(accepted), dropped')
  <2>1. InLine(emitted, IdsOf(queue) \o IdsOf(t), <<>>, Len(accepted), dropped \cup Range(IdsOf(r)))
      BY <1>11, <1>12, <1>15, LinePumps
  <2> QED
      BY <1>5, <1>11, <1>14, <2>1
<1>17. PICK z : z = <<>>
    OBVIOUS
<1>18. z \in Seq(Signal) /\ Len(z) = 0 /\ IdsOf(z) = <<>>
    BY <1>17 DEF IdsOf
<1>19. /\ z \in Seq(Signal \cup {Sentinel})
       /\ ~Contains(z, Sentinel) /\ SentinelLast(z) /\ UpcomingOf(z) = z
    BY <1>18, AllSignals
<1>20. source' = z /\ Upcoming' = z
    BY <1>8, <1>17, <1>19, UpcomingNext
<1>21. Len(accepted) <= MaxSignals /\ Len(accepted) \in Nat
  <2>1. accepted \in Seq(Signal) /\ \A i \in DOMAIN accepted : accepted[i].id = i
      BY DEF SignalsInv, SignalsTypeOK
  <2> QED
      BY <2>1, AcceptedFit
<1>22. dropped' \subseteq 1..MaxSignals
  <2>1. dropped' \subseteq 1..Len(accepted)
      BY <1>16 DEF InLine
  <2> QED
      BY <1>21, <2>1, SignalPathAssumption
<1>23. SignalsTypeOK'
    BY <1>5, <1>13, <1>14, <1>18, <1>19, <1>20, <1>22, SignalPathAssumption
    DEF SignalsInv, SignalsTypeOK
<1>24. InLine(emitted, IdsOf(queue), IdsOf(Upcoming), Len(accepted), dropped)'
    BY <1>5, <1>13, <1>16, <1>18, <1>20
<1> QED
    BY <1>19, <1>20, <1>23, <1>24 DEF SignalsInv

(***************************************************************************)
(* A bar drains the deque.                                                 *)
(***************************************************************************)
LEMMA SignalBarKeeps ==
    ASSUME SignalsInv, SignalBar
    PROVE  SignalsInv'
<1>1. PICK m : m = Matching(queue)
    OBVIOUS
<1>2. PICK t : t = FirstOf(m, MaxPerBar)
    OBVIOUS
<1>3. PICK r : r = SubSeq(m, MaxPerBar + 1, Len(m))
    OBVIOUS
<1>4. PICK o : o = {queue[i].id : i \in {j \in DOMAIN queue : ~Matches(queue[j])}}
    OBVIOUS
<1>5. /\ emitted' = emitted \o IdsOf(t) /\ queue' = r /\ dropped' = dropped \cup o
      /\ UNCHANGED <<accepted, source, closing, pump>>
    BY <1>1, <1>2, <1>3, <1>4 DEF SignalBar, Intent, IdsOf
<1>6. queue \in Seq(Signal) /\ Len(queue) <= QueueSize /\ Len(queue) \in Nat
  <2>1. queue \in Seq(Signal) /\ Len(queue) <= QueueSize
      BY DEF SignalsInv, SignalsTypeOK
  <2> QED
      BY <2>1
<1>7. InLine(emitted, IdsOf(queue), IdsOf(Upcoming), Len(accepted), dropped)
    BY DEF SignalsInv
<1>8. Rising(IdsOf(queue))
    BY <1>7 DEF InLine
<1>9. /\ m \in Seq(Signal) /\ Len(m) <= Len(queue) /\ Rising(IdsOf(m))
      /\ Range(IdsOf(m)) = HitsOf(queue, Len(queue))
  <2>1. MatchedUpTo(queue, m, Len(queue))
      BY <1>1, <1>6, <1>8, MatchingIs
  <2> QED
      BY <2>1 DEF MatchedUpTo
<1>10. /\ t \in Seq(Signal) /\ r \in Seq(Signal) /\ m = t \o r
       /\ Len(r) = IF MaxPerBar < Len(m) THEN Len(m) - MaxPerBar ELSE 0
    BY <1>2, <1>3, <1>9, CutInTwo, SignalPathAssumption
<1>11. Len(r) <= QueueSize
  <2>1. Len(m) \in Nat
      BY <1>9
  <2> QED
      BY <1>6, <1>9, <1>10, <2>1, SignalPathAssumption
<1>12. IdsOf(m) = IdsOf(t) \o IdsOf(r)
    BY <1>10, IdsOfJoined
<1>13. IdsOf(t) \in Seq(Nat) /\ IdsOf(r) \in Seq(Nat)
    BY <1>10, IdsAre
<1>14. DOMAIN queue = 1..Len(queue)
    BY <1>6
<1>15. Range(IdsOf(queue)) = {queue[i].id : i \in DOMAIN queue}
    BY <1>6, IdsAre
<1>16. HitsOf(queue, Len(queue)) = {queue[i].id : i \in {j \in DOMAIN queue : Matches(queue[j])}}
    BY <1>14 DEF HitsOf
<1>17. Range(IdsOf(queue)) = Range(IdsOf(m)) \cup o
    BY <1>4, <1>9, <1>15, <1>16
<1>18. Range(IdsOf(m)) \cap o = {}
  <2>1. \A i, j \in DOMAIN queue : queue[i].id = queue[j].id => i = j
    <3>1. \A i \in DOMAIN queue : IdsOf(queue)[i] = queue[i].id /\ queue[i].id \in Nat
      <4>1. /\ DOMAIN IdsOf(queue) = DOMAIN queue /\ IdsOf(queue) \in Seq(Nat)
            /\ \A i \in DOMAIN queue : IdsOf(queue)[i] = queue[i].id
          BY <1>6, IdsAre
      <4>2. \A i \in DOMAIN IdsOf(queue) : IdsOf(queue)[i] \in Nat
          BY <4>1
      <4> QED
          BY <4>1, <4>2
    <3>2. DOMAIN IdsOf(queue) = DOMAIN queue
        BY DEF IdsOf
    <3>3. ASSUME NEW i \in DOMAIN queue, NEW j \in DOMAIN queue, i < j
          PROVE  queue[i].id # queue[j].id
      <4>1. queue[i].id < queue[j].id
          BY <1>8, <3>1, <3>2, <3>3 DEF Rising
      <4> QED
          BY <3>1, <4>1
    <3>4. \A i, j \in DOMAIN queue : i < j \/ j < i \/ i = j
        BY <1>6, <1>14
    <3> QED
        BY <3>3, <3>4
  <2> QED
      BY <1>4, <1>9, <1>16, <2>1
<1>19. InLine(emitted', IdsOf(r), IdsOf(Upcoming), Len(accepted), dropped')
  <2>1. InLine(emitted \o IdsOf(t), IdsOf(r), IdsOf(Upcoming), Len(accepted), dropped \cup o)
      BY <1>7, <1>9, <1>12, <1>13, <1>17, <1>18, LineDrains
  <2> QED
      BY <1>5, <2>1
<1>20. Upcoming' = Upcoming
    BY <1>5, UpcomingNow, UpcomingNext
<1>21. Len(accepted) <= MaxSignals /\ Len(accepted) \in Nat
  <2>1. accepted \in Seq(Signal) /\ \A i \in DOMAIN accepted : accepted[i].id = i
      BY DEF SignalsInv, SignalsTypeOK
  <2> QED
      BY <2>1, AcceptedFit
<1>22. dropped' \subseteq 1..MaxSignals
  <2>1. dropped' \subseteq 1..Len(accepted)
      BY <1>19 DEF InLine
  <2> QED
      BY <1>21, <2>1, SignalPathAssumption
<1>23. emitted' \in Seq(1..MaxSignals)
  <2>1. IdsOf(t) \in Seq(1..MaxSignals)
    <3>1. PICK w : w = IdsOf(t)
        OBVIOUS
    <3>2. w \in Seq(Nat) /\ DOMAIN w = DOMAIN t /\ \A i \in DOMAIN t : w[i] = t[i].id
        BY <1>10, <3>1, IdsAre
    <3>3. \A i \in DOMAIN t : t[i] \in Signal
        BY <1>10
    <3>4. \A i \in DOMAIN t : t[i].id \in 1..MaxSignals
        BY <3>3 DEF Signal
    <3>5. \A i \in DOMAIN w : w[i] \in 1..MaxSignals
        BY <3>2, <3>4
    <3>6. PICK T : T = 1..MaxSignals
        OBVIOUS
    <3>7. w \in Seq(T)
      <4>1. Len(w) \in Nat /\ DOMAIN w = 1..Len(w)
          BY <3>2
      <4>2. \A i \in 1..Len(w) : w[i] \in T
          BY <3>5, <3>6, <4>1
      <4>3. w = [i \in 1..Len(w) |-> w[i]]
          BY <3>2, <4>1
      <4> QED
          BY <4>1, <4>2, <4>3
    <3> QED
        BY <3>1, <3>6, <3>7
  <2>2. emitted \in Seq(1..MaxSignals)
      BY DEF SignalsInv, SignalsTypeOK
  <2> QED
      BY <1>5, <2>1, <2>2
<1>24. SignalsTypeOK'
    BY <1>5, <1>10, <1>11, <1>22, <1>23 DEF SignalsInv, SignalsTypeOK
<1>25. InLine(emitted, IdsOf(queue), IdsOf(Upcoming), Len(accepted), dropped)'
    BY <1>5, <1>19, <1>20
<1>26. (SentinelLast(source) /\ (Contains(source, Sentinel) => closing = "closed"))'
    BY <1>5 DEF SignalsInv
<1> QED
    BY <1>24, <1>25, <1>26 DEF SignalsInv

LEMMA SignalsStep == SignalsInv /\ [SignalsNext]_signalVars => SignalsInv'
<1>1. SUFFICES ASSUME SignalsInv, [SignalsNext]_signalVars
               PROVE  SignalsInv'
    OBVIOUS
<1>2. /\ closing \in {"open", "client", "putting", "closed"}
      /\ pump \in {"off", "running", "done"}
    BY <1>1 DEF SignalsInv, SignalsTypeOK
<1>3. CASE \E kind \in MessageKinds : Message(kind)
    BY <1>1, <1>3, MessageKeeps
<1>4. CASE CloseSource
    BY <1>1, <1>2, <1>4, SignalsStay DEF CloseSource
<1>5. CASE ClientClosed
    BY <1>1, <1>2, <1>5, SignalsStay DEF ClientClosed
<1>6. CASE PutSentinel
    BY <1>1, <1>6, PutSentinelKeeps
<1>7. CASE StartPump
    BY <1>1, <1>2, <1>7, SignalsStay DEF StartPump
<1>8. CASE StopPump
    BY <1>1, <1>2, <1>8, SignalsStay DEF StopPump
<1>9. CASE Pump
    BY <1>1, <1>9, PumpKeeps
<1>10. CASE SignalBar
    BY <1>1, <1>10, SignalBarKeeps
<1>11. CASE UNCHANGED signalVars
    BY <1>1, <1>2, <1>11, SignalsStay DEF signalVars
<1> QED
    BY <1>1, <1>3, <1>4, <1>5, <1>6, <1>7, <1>8, <1>9, <1>10, <1>11 DEF SignalsNext

LEMMA SignalsInvHolds == SignalsSpec => []SignalsInv
BY SignalsStart, SignalsStep, PTL DEF SignalsSpec

\* The types of the source's and the strategy's state, and their queues within
\* their limits (discord_source.py 70-118, signal_strategy.py 75-190).
THEOREM SignalTypes == SignalsSpec => []SignalsTypeOK
<1>1. SignalsInv => SignalsTypeOK
    BY DEF SignalsInv
<1> QED
    BY <1>1, SignalsInvHolds, PTL

LEMMA LineIsUnbroken == SignalsInv => Unbroken
<1>1. SUFFICES ASSUME SignalsInv PROVE Unbroken
    OBVIOUS
<1>2. PICK l : l = emitted \o IdsOf(queue) \o IdsOf(Upcoming)
    OBVIOUS
<1>3. Rising(l) /\ Range(l) = (1..Len(accepted)) \ dropped
    BY <1>1, <1>2, LineRises DEF SignalsInv
<1>4. DOMAIN accepted = 1..Len(accepted)
    BY <1>1 DEF SignalsInv, SignalsTypeOK
<1>5. /\ \A i, j \in DOMAIN l : i < j => l[i] < l[j]
      /\ Range(l) = DOMAIN accepted \ dropped
    BY <1>3, <1>4 DEF Rising
<1> QED
    BY <1>2, <1>5 DEF Unbroken, IdsOf

\* No signal is lost unseen, emitted twice or overtaken, however messages, the
\* pump, its restarts, close() and the bars follow each other
\* (discord_source.py 105-118, signal_strategy.py 110-190).
THEOREM SignalsStayInLine == SignalsSpec => []Unbroken
    BY LineIsUnbroken, SignalsInvHolds, PTL

\* Of the steps only SignalBar changes emitted, or the deque and not the source.
LEMMA QuotaStep ==
    SignalsInv /\ [SignalsNext]_signalVars =>
        [emitted' # emitted \/ (queue' # queue /\ source' = source) =>
             \/ Len(emitted') = Len(emitted) + MaxPerBar
             \/ queue' = <<>>]_signalVars
<1>1. SUFFICES ASSUME SignalsInv, SignalsNext,
                      emitted' # emitted \/ (queue' # queue /\ source' = source)
               PROVE  Len(emitted') = Len(emitted) + MaxPerBar \/ queue' = <<>>
    BY DEF signalVars
<1>2. ~Pump
  <2>1. ASSUME Pump PROVE FALSE
    <3>1. source # <<>> /\ emitted' = emitted
        BY <2>1 DEF Pump
    <3>2. source' = <<>>
        BY <1>1, <2>1, PumpEmpties
    <3> QED
        BY <1>1, <3>1, <3>2
  <2> QED
      BY <2>1
<1>3. SignalBar
  <2>1. ASSUME emitted' = emitted, queue' = queue PROVE FALSE
      BY <1>1, <2>1
  <2>2. \A kind : Message(kind) => emitted' = emitted /\ queue' = queue
      BY DEF Message
  <2>3. CloseSource \/ ClientClosed \/ PutSentinel \/ StartPump \/ StopPump
            => emitted' = emitted /\ queue' = queue
      BY DEF CloseSource, ClientClosed, PutSentinel, StartPump, StopPump
  <2> QED
      BY <1>1, <1>2, <2>1, <2>2, <2>3 DEF SignalsNext
<1>4. PICK m : m = Matching(queue)
    OBVIOUS
<1>5. PICK t : t = FirstOf(m, MaxPerBar)
    OBVIOUS
<1>6. PICK r : r = SubSeq(m, MaxPerBar + 1, Len(m))
    OBVIOUS
<1>7. emitted' = emitted \o IdsOf(t) /\ queue' = r
    BY <1>3, <1>4, <1>5, <1>6 DEF SignalBar, Intent, IdsOf
<1>8. m \in Seq(Signal)
  <2>1. queue \in Seq(Signal) /\ Rising(IdsOf(queue))
      BY <1>1 DEF SignalsInv, SignalsTypeOK, InLine
  <2>2. MatchedUpTo(queue, m, Len(queue))
      BY <1>4, <2>1, MatchingIs
  <2> QED
      BY <2>2 DEF MatchedUpTo
<1>9. /\ t \in Seq(Signal) /\ r \in Seq(Signal)
      /\ Len(t) = IF MaxPerBar < Len(m) THEN MaxPerBar ELSE Len(m)
      /\ Len(r) = IF MaxPerBar < Len(m) THEN Len(m) - MaxPerBar ELSE 0
    BY <1>5, <1>6, <1>8, CutInTwo, SignalPathAssumption
<1>10. CASE MaxPerBar < Len(m)
  <2>1. IdsOf(t) \in Seq(Nat) /\ Len(IdsOf(t)) = Len(t)
      BY <1>9, IdsAre
  <2>2. emitted \in Seq(Nat)
      BY <1>1 DEF SignalsInv, InLine
  <2>3. JoinOf(Nat, emitted, IdsOf(t), emitted')
      BY <1>7, <2>1, <2>2, JoinIs
  <2>4. Len(emitted') = Len(emitted) + Len(IdsOf(t))
      BY <2>3 DEF JoinOf
  <2> QED
      BY <1>9, <1>10, <2>1, <2>4
<1>11. CASE ~(MaxPerBar < Len(m))
  <2>1. Len(r) = 0
      BY <1>9, <1>11
  <2> QED
      BY <1>7, <1>9, <2>1
<1> QED
    BY <1>10, <1>11

\* A bar that emits or drops anything emits its full quota or leaves the deque
\* empty: signals for other symbols take no place (signal_strategy.py 157-181).
THEOREM QuotaIsForMatches == SignalsSpec => QuotaGoesToMatches
<1>1. SignalsInv /\ [SignalsNext]_signalVars =>
        [emitted' # emitted \/ (queue' # queue /\ source' = source) =>
             \/ Len(emitted') = Len(emitted) + MaxPerBar
             \/ queue' = <<>>]_signalVars
    BY QuotaStep
<1> QED
    BY <1>1, SignalsInvHolds, PTL DEF SignalsSpec, QuotaGoesToMatches

(***************************************************************************)
(* BarFeed: BarsComeOnceAndInOrder and BarsAreWhole.                       *)
(***************************************************************************)

\* Intervals start at or before their ticks, and in the order of the ticks.
LEMMA FloorIs ==
    ASSUME NEW t \in Nat \ {0}
    PROVE  FloorToInterval(t) \in Nat \ {0} /\ FloorToInterval(t) <= t
<1>1. PICK q \in Int : q = (t - 1) \div PerBar
    BY DivBelow, BarFeedAssumption
<1>2. t - 1 \in Int /\ PerBar \in Nat \ {0}
    BY BarFeedAssumption
<1>3. q * PerBar <= t - 1 /\ t - 1 < (q + 1) * PerBar
    BY <1>1, <1>2, DivBelow
<1>4. q >= 0
  <2>1. ASSUME q < 0 PROVE FALSE
    <3>1. q + 1 <= 0
        BY <1>1, <2>1
    <3>2. (q + 1) * PerBar <= 0
        BY <1>1, <1>2, <3>1
    <3> QED
        BY <1>1, <1>2, <1>3, <3>2
  <2> QED
      BY <1>1, <2>1
<1>5. q * PerBar \in Nat
    BY <1>1, <1>2, <1>4
<1>6. FloorToInterval(t) = q * PerBar + 1
    BY <1>1 DEF FloorToInterval
<1> QED
    BY <1>2, <1>3, <1>5, <1>6

LEMMA FloorRises ==
    ASSUME NEW t \in Nat \ {0}, NEW u \in Nat \ {0}, t <= u
    PROVE  FloorToInterval(t) <= FloorToInterval(u)
<1>1. PICK q \in Int : q = (t - 1) \div PerBar
    BY DivBelow, BarFeedAssumption
<1>2. PICK r \in Int : r = (u - 1) \div PerBar
    BY DivBelow, BarFeedAssumption
<1>3. q <= r
  <2>1. t - 1 \in Int /\ u - 1 \in Int /\ t - 1 <= u - 1 /\ PerBar \in Nat \ {0}
      BY BarFeedAssumption
  <2> QED
      BY <1>1, <1>2, <2>1, DivMonotone
<1>4. PICK p \in Nat : p = PerBar
    BY BarFeedAssumption
<1>5. q * p <= r * p
    BY <1>3
<1>6. FloorToInterval(t) = q * p + 1 /\ FloorToInterval(u) = r * p + 1
    BY <1>1, <1>2, <1>4 DEF FloorToInterval
<1> QED
    BY <1>5, <1>6

\* The larger and the smaller of two numbers.
LEMMA MaxOfTwo ==
    ASSUME NEW a \in Nat, NEW b \in Nat, NEW m, m = Max({a, b})
    PROVE  m \in {a, b} /\ a <= m /\ b <= m
BY DEF Max

LEMMA MinOfTwo ==
    ASSUME NEW a \in Nat, NEW b \in Nat, NEW m, m = Min({a, b})
    PROVE  m \in {a, b} /\ m <= a /\ m <= b
BY DEF Min

(***************************************************************************)
(* The state of an aggregator, and what one tick makes of it.              *)
(***************************************************************************)
Aggs == [last : 0..MaxTime, current : Bar \cup {NoBar}, out : Seq(Bar), raised : BOOLEAN]

\* The tick is refused, opens the first bar, closes one and opens the next, or
\* is merged.
FeedsTo(agg, rtb, new) ==
    \/ new.last = agg.last /\ new.current = agg.current /\ new.out = agg.out
    \/ /\ rtb.time > agg.last /\ agg.current = NoBar
       /\ new.last = rtb.time /\ new.current = OpenedBar(rtb) /\ new.out = agg.out
    \/ /\ rtb.time > agg.last /\ agg.current # NoBar
       /\ FloorToInterval(rtb.time) > agg.current.start
       /\ new.last = rtb.time /\ new.current = OpenedBar(rtb)
       /\ new.out = Append(agg.out, agg.current)
    \/ /\ rtb.time > agg.last /\ agg.current # NoBar
       /\ ~(FloorToInterval(rtb.time) > agg.current.start)
       /\ new.last = rtb.time /\ new.current = Merged(agg.current, rtb)
       /\ new.out = agg.out

LEMMA FeedIs ==
    ASSUME NEW agg \in Aggs, NEW rtb \in Rtb, NEW new, new = Feed(agg, rtb)
    PROVE  /\ FeedsTo(agg, rtb, new)
           /\ new = [last |-> new.last, current |-> new.current, out |-> new.out,
                     raised |-> new.raised]
           /\ new.raised \in BOOLEAN
           /\ ~agg.raised /\ rtb.time > agg.last =>
                new.last = rtb.time /\ ~new.raised
<1>1. PICK l \in 0..MaxTime, c \in Bar \cup {NoBar}, o \in Seq(Bar), r \in BOOLEAN :
        agg = [last |-> l, current |-> c, out |-> o, raised |-> r]
    BY DEF Aggs
<1>2. agg.last = l /\ agg.current = c /\ agg.out = o /\ agg.raised = r
    BY <1>1
<1>3. CASE r
  <2>1. new = agg
      BY <1>2, <1>3 DEF Feed
  <2> QED
      BY <1>1, <1>2, <1>3, <2>1 DEF FeedsTo
<1>4. CASE ~r /\ rtb.time <= l
  <2>1. rtb.time \in Int /\ l \in Int
      BY DEF Rtb
  <2>2. ~(rtb.time > l)
      BY <1>4, <2>1
  <2>3. new = [agg EXCEPT !.raised = TRUE]
      BY <1>2, <1>4, <2>2 DEF Feed
  <2>4. new = [last |-> l, current |-> c, out |-> o, raised |-> TRUE]
      BY <1>1, <2>3
  <2> QED
      BY <1>2, <2>2, <2>4 DEF FeedsTo
<1>5. CASE ~r /\ ~(rtb.time <= l)
  <2>1. rtb.time > l
    <3>1. rtb.time \in Int /\ l \in Int
        BY DEF Rtb
    <3> QED
        BY <1>5, <3>1
  <2>2. CASE c = NoBar
    <3>1. new = [[agg EXCEPT !.last = rtb.time] EXCEPT !.current = OpenedBar(rtb)]
        BY <1>2, <1>5, <2>1, <2>2 DEF Feed
    <3>2. new = [last |-> rtb.time, current |-> OpenedBar(rtb), out |-> o, raised |-> r]
        BY <1>1, <3>1
    <3> QED
        BY <1>2, <1>5, <2>1, <2>2, <3>2 DEF FeedsTo
  <2>3. CASE c # NoBar /\ FloorToInterval(rtb.time) > c.start
    <3>1. new = [[agg EXCEPT !.last = rtb.time] EXCEPT !.current = OpenedBar(rtb), !.out = Append(@, c)]
        BY <1>2, <1>5, <2>1, <2>3 DEF Feed
    <3>2. new = [last |-> rtb.time, current |-> OpenedBar(rtb), out |-> Append(o, c), raised |-> r]
        BY <1>1, <3>1
    <3> QED
        BY <1>2, <1>5, <2>1, <2>3, <3>2 DEF FeedsTo
  <2>4. CASE c # NoBar /\ ~(FloorToInterval(rtb.time) > c.start)
    <3>1. new = [[agg EXCEPT !.last = rtb.time] EXCEPT !.current = Merged(@, rtb)]
        BY <1>2, <1>5, <2>1, <2>4 DEF Feed
    <3>2. new = [last |-> rtb.time, current |-> Merged(c, rtb), out |-> o, raised |-> r]
        BY <1>1, <3>1
    <3> QED
        BY <1>2, <1>5, <2>1, <2>4, <3>2 DEF FeedsTo
  <2> QED
      BY <2>2, <2>3, <2>4
<1> QED
    BY <1>3, <1>4, <1>5

(***************************************************************************)
(* What holds of an aggregator with the last tick l, the bar c in the      *)
(* making and the closed bars o, at time m: the closed bars are of rising  *)
(* intervals, all before that of the bar in the making, and that is the    *)
(* interval of the last tick.                                              *)
(***************************************************************************)
BarsRise(o, c) ==
    /\ \A i, j \in DOMAIN o : i < j => o[i].start < o[j].start
    /\ \A i \in DOMAIN o : o[i].start < c.start

AggIs(l, c, o, m) ==
    /\ l \in 0..MaxTime /\ l <= m /\ c \in Bar \cup {NoBar} /\ o \in Seq(Bar)
    /\ \/ l = 0 /\ c = NoBar /\ o = <<>>
       \/ l > 0 /\ c # NoBar /\ c.start = FloorToInterval(l) /\ c.volume <= l
    /\ BarsRise(o, c)

AggOK(agg, m) ==
    agg \in Aggs /\ AggIs(agg.last, agg.current, agg.out, m)

LEMMA BarIs ==
    ASSUME NEW b \in Bar
    PROVE  /\ b.start \in Nat \ {0} /\ b.volume \in Nat \ {0} /\ b # NoBar
           /\ b.high \in Prices /\ b.low \in Prices /\ b.high \in Nat /\ b.low \in Nat
           /\ b.open \in Prices /\ b.close \in Prices
           /\ b = [start |-> b.start, open |-> b.open, high |-> b.high, low |-> b.low,
                   close |-> b.close, volume |-> b.volume]
<1>1. Prices \subseteq Nat /\ MaxTime \in Nat
    BY BarFeedAssumption
<1>2. /\ b.start \in 1..MaxTime /\ b.volume \in 1..MaxTime
      /\ b.high \in Prices /\ b.low \in Prices /\ b.open \in Prices /\ b.close \in Prices
    BY DEF Bar
<1>3. b = [start |-> b.start, open |-> b.open, high |-> b.high, low |-> b.low,
           close |-> b.close, volume |-> b.volume]
    BY DEF Bar
<1>4. b.start \in Nat \ {0} /\ b.volume \in Nat \ {0}
    BY <1>1, <1>2
<1>5. NoBar.start = 0
    BY DEF NoBar
<1>6. b # NoBar
    BY <1>4, <1>5
<1> QED
    BY <1>1, <1>2, <1>3, <1>4, <1>6

LEMMA OpenedIs ==
    ASSUME NEW rtb \in Rtb, NEW b, b = OpenedBar(rtb)
    PROVE  /\ b \in Bar /\ b # NoBar /\ b.start = FloorToInterval(rtb.time) /\ b.volume = 1
           /\ b.open = rtb.close /\ b.high = rtb.close /\ b.low = rtb.close
           /\ b.close = rtb.close
<1>1. rtb.time \in 1..MaxTime /\ rtb.close \in Prices /\ MaxTime \in Nat
    BY BarFeedAssumption DEF Rtb
<1>2. PICK t \in Nat \ {0} : t = rtb.time
    BY <1>1
<1>3. PICK f : f = FloorToInterval(t)
    OBVIOUS
<1>4. f \in Nat \ {0} /\ f <= t
    BY <1>3, FloorIs
<1>5. f \in 1..MaxTime /\ 1 \in 1..MaxTime
    BY <1>1, <1>2, <1>4
<1>6. b = [start |-> f, open |-> rtb.close, high |-> rtb.close, low |-> rtb.close,
           close |-> rtb.close, volume |-> 1]
    BY <1>2, <1>3 DEF OpenedBar
<1>7. b \in Bar
    BY <1>1, <1>5, <1>6 DEF Bar
<1> QED
    BY <1>2, <1>3, <1>6, <1>7, BarIs

LEMMA MergedIs ==
    ASSUME NEW c \in Bar, NEW rtb \in Rtb, NEW b, b = Merged(c, rtb),
           c.volume < MaxTime
    PROVE  /\ b \in Bar /\ b # NoBar /\ b.start = c.start /\ b.volume = c.volume + 1
           /\ b.open = c.open /\ b.close = rtb.close
           /\ b.high = Max({c.high, rtb.close}) /\ b.low = Min({c.low, rtb.close})
<1>1. /\ c.start \in Nat \ {0} /\ c.volume \in Nat \ {0}
      /\ c.high \in Prices /\ c.low \in Prices /\ c.high \in Nat /\ c.low \in Nat
      /\ c.open \in Prices /\ c.close \in Prices
      /\ c = [start |-> c.start, open |-> c.open, high |-> c.high, low |-> c.low,
                   close |-> c.close, volume |-> c.volume]
    BY BarIs
<1>2. rtb.close \in Prices /\ rtb.close \in Nat /\ MaxTime \in Nat /\ c.start \in 1..MaxTime
    BY BarFeedAssumption DEF Rtb, Bar
<1>3. PICK h : h = Max({c.high, rtb.close})
    OBVIOUS
<1>4. PICK l : l = Min({c.low, rtb.close})
    OBVIOUS
<1>5. h \in Prices /\ l \in Prices
  <2>1. h \in {c.high, rtb.close}
    <3>1. c.high \in Nat /\ rtb.close \in Nat
        BY <1>1, <1>2
    <3> QED
        BY <1>3, <3>1, MaxOfTwo
  <2>2. l \in {c.low, rtb.close}
    <3>1. c.low \in Nat /\ rtb.close \in Nat
        BY <1>1, <1>2
    <3> QED
        BY <1>4, <3>1, MinOfTwo
  <2> QED
      BY <1>1, <1>2, <2>1, <2>2
<1>6. b = [start |-> c.start, open |-> c.open, high |-> h, low |-> l,
           close |-> rtb.close, volume |-> c.volume + 1]
    BY <1>1, <1>3, <1>4 DEF Merged
<1>7. c.volume + 1 \in 1..MaxTime
    BY <1>1, <1>2
<1>8. b \in Bar
    BY <1>1, <1>2, <1>5, <1>6, <1>7 DEF Bar
<1> QED
    BY <1>3, <1>4, <1>6, <1>8, BarIs

\* A bar of a later interval behind rising ones.
LEMMA BarsRiseOn ==
    ASSUME NEW o \in Seq(Bar), NEW c \in Bar, BarsRise(o, c),
           NEW p, p = Append(o, c), NEW d \in Bar, c.start < d.start
    PROVE  p \in Seq(Bar) /\ BarsRise(p, d)
<1>1. /\ p \in Seq(Bar) /\ Len(p) = Len(o) + 1 /\ Len(o) \in Nat
      /\ DOMAIN p = 1..(Len(o) + 1) /\ DOMAIN o = 1..Len(o)
      /\ p[Len(o) + 1] = c
    OBVIOUS
<1>1a. \A i \in DOMAIN o : p[i] = o[i]
    OBVIOUS
<1>2. \A i \in DOMAIN p : i \in DOMAIN o \/ i = Len(o) + 1
    BY <1>1
<1>3. /\ c.start \in Nat /\ d.start \in Nat
      /\ \A i \in DOMAIN o : o[i].start \in Nat /\ o[i].start < c.start
  <2>1. \A x \in Bar : x.start \in Nat
      BY BarIs
  <2>2. \A i \in DOMAIN o : o[i] \in Bar
      OBVIOUS
  <2>3. \A i \in DOMAIN o : o[i].start < c.start
      BY DEF BarsRise
  <2> QED
      BY <2>1, <2>2, <2>3
<1>4. \A i \in DOMAIN o : o[i].start < d.start
    BY <1>3
<1>5. ASSUME NEW i \in DOMAIN p PROVE p[i].start < d.start
    BY <1>1, <1>1a, <1>2, <1>4
<1>6. ASSUME NEW i \in DOMAIN p, NEW j \in DOMAIN p, i < j
      PROVE  p[i].start < p[j].start
  <2>1. i \in DOMAIN o
      BY <1>1, <1>2, <1>6
  <2>2. CASE j \in DOMAIN o
    <3>1. o[i].start < o[j].start
        BY <1>6, <2>1, <2>2 DEF BarsRise
    <3> QED
        BY <1>1a, <2>1, <2>2, <3>1
  <2>3. CASE j = Len(o) + 1
      BY <1>1, <1>1a, <1>3, <2>1, <2>3
  <2> QED
      BY <1>2, <2>2, <2>3
<1> QED
    BY <1>1, <1>5, <1>6 DEF BarsRise

\* One tick keeps all of this.
LEMMA FeedKeeps ==
    ASSUME NEW m \in 0..MaxTime, NEW agg, AggOK(agg, m),
           NEW rtb \in Rtb, rtb.time <= m, NEW new, new = Feed(agg, rtb)
    PROVE  AggOK(new, m)
<1>0. agg \in Aggs /\ AggIs(agg.last, agg.current, agg.out, m)
    BY DEF AggOK
<1>1. /\ FeedsTo(agg, rtb, new)
      /\ new = [last |-> new.last, current |-> new.current, out |-> new.out,
                raised |-> new.raised]
      /\ new.raised \in BOOLEAN
    BY <1>0, FeedIs
<1>2. PICK b : b = OpenedBar(rtb)
    OBVIOUS
<1>3. /\ b \in Bar /\ b # NoBar /\ b.start = FloorToInterval(rtb.time) /\ b.volume = 1
    BY <1>2, OpenedIs
<1>4. rtb.time \in 1..MaxTime /\ rtb.time \in Nat \ {0} /\ rtb.time \in 0..MaxTime
      /\ MaxTime \in Nat /\ m \in Nat
    BY BarFeedAssumption DEF Rtb
<1>5. AggIs(new.last, new.current, new.out, m)
  <2>1. CASE new.last = agg.last /\ new.current = agg.current /\ new.out = agg.out
      BY <1>0, <2>1
  <2>2. CASE /\ rtb.time > agg.last /\ agg.current = NoBar
             /\ new.last = rtb.time /\ new.current = b /\ new.out = agg.out
    <3>1. agg.out = <<>>
        BY <1>0, <2>2 DEF AggIs
    <3>2. BarsRise(<<>>, b)
        BY DEF BarsRise
    <3>3. agg.out \in Seq(Bar) /\ BarsRise(agg.out, b)
        BY <1>0, <3>1, <3>2 DEF AggIs
    <3>4. b.volume <= rtb.time /\ rtb.time > 0
        BY <1>3, <1>4
    <3> QED
        BY <1>3, <1>4, <2>2, <3>3, <3>4 DEF AggIs
  <2>3. CASE /\ rtb.time > agg.last /\ agg.current # NoBar
             /\ FloorToInterval(rtb.time) > agg.current.start
             /\ new.last = rtb.time /\ new.current = b
             /\ new.out = Append(agg.out, agg.current)
    <3>1. agg.out \in Seq(Bar) /\ BarsRise(agg.out, agg.current) /\ agg.current \in Bar
        BY <1>0, <2>3 DEF AggIs
    <3>2. agg.current.start < b.start
      <4>1. b.start \in Nat /\ agg.current.start \in Nat
          BY <1>3, <3>1, BarIs
      <4> QED
          BY <1>3, <2>3, <4>1
    <3>3. new.out \in Seq(Bar) /\ BarsRise(new.out, b)
        BY <1>3, <2>3, <3>1, <3>2, BarsRiseOn
    <3>4. b.volume <= rtb.time /\ rtb.time > 0
        BY <1>3, <1>4
    <3> QED
        BY <1>3, <1>4, <2>3, <3>3, <3>4 DEF AggIs
  <2>4. CASE /\ rtb.time > agg.last /\ agg.current # NoBar
             /\ ~(FloorToInterval(rtb.time) > agg.current.start)
             /\ new.last = rtb.time /\ new.current = Merged(agg.current, rtb)
             /\ new.out = agg.out
    <3>1. /\ agg.out \in Seq(Bar) /\ BarsRise(agg.out, agg.current) /\ agg.current \in Bar
          /\ agg.last > 0 /\ agg.last \in 0..MaxTime
          /\ agg.current.start = FloorToInterval(agg.last) /\ agg.current.volume <= agg.last
        BY <1>0, <2>4 DEF AggIs
    <3>2. agg.last \in Nat \ {0} /\ agg.last < rtb.time
        BY <1>4, <2>4, <3>1
    <3>3. agg.current.volume \in Nat /\ agg.current.start \in Nat
        BY <3>1, BarIs
    <3>4. agg.current.volume < MaxTime /\ agg.current.volume + 1 <= rtb.time
        BY <1>4, <3>1, <3>2, <3>3
    <3>5. PICK d : d = Merged(agg.current, rtb)
        OBVIOUS
    <3>6. d \in Bar /\ d # NoBar /\ d.start = agg.current.start /\ d.volume = agg.current.volume + 1
        BY <3>1, <3>4, <3>5, MergedIs
    <3>7. d.start = FloorToInterval(rtb.time)
      <4>1. FloorToInterval(agg.last) <= FloorToInterval(rtb.time)
          BY <1>4, <3>2, FloorRises
      <4>2. FloorToInterval(rtb.time) \in Nat
          BY <1>4, FloorIs
      <4> QED
          BY <2>4, <3>1, <3>3, <3>6, <4>1, <4>2
    <3>8. BarsRise(agg.out, d)
        BY <3>1, <3>6 DEF BarsRise
    <3> QED
        BY <1>4, <2>4, <3>1, <3>4, <3>5, <3>6, <3>7, <3>8 DEF AggIs
  <2> QED
      BY <1>1, <1>2, <2>1, <2>2, <2>3, <2>4 DEF FeedsTo
<1>6. new \in Aggs
  <2>1. new.last \in 0..MaxTime /\ new.current \in Bar \cup {NoBar} /\ new.out \in Seq(Bar)
      BY <1>5 DEF AggIs
  <2> QED
      BY <1>1, <2>1 DEF Aggs
<1> QED
    BY <1>5, <1>6 DEF AggOK

(***************************************************************************)
(* The interval x is over: later bars, those in the queue and the one in   *)
(* the making are of later ones, for ticks as in bars.                     *)
(***************************************************************************)
Past(x, c, o, bars) ==
    /\ c # NoBar => x < c.start
    /\ c = NoBar => \A i \in DOMAIN bars : x < FloorToInterval(bars[i].time)
    /\ \A k \in DOMAIN o : x < o[k].start

LEMMA FeedPast ==
    ASSUME NEW m \in 0..MaxTime, NEW agg, AggOK(agg, m),
           NEW bars \in Seq(Rtb), NEW n \in DOMAIN bars,
           NEW new, new = Feed(agg, bars[n]),
           NEW x \in Nat, Past(x, agg.current, agg.out, bars)
    PROVE  Past(x, new.current, new.out, bars)
<1>0. agg \in Aggs /\ AggIs(agg.last, agg.current, agg.out, m)
    BY DEF AggOK
<1>1. PICK rtb \in Rtb : rtb = bars[n]
    OBVIOUS
<1>2. FeedsTo(agg, rtb, new)
    BY <1>0, <1>1, FeedIs
<1>3. PICK b : b = OpenedBar(rtb)
    OBVIOUS
<1>4. b \in Bar /\ b # NoBar /\ b.start = FloorToInterval(rtb.time) /\ b.start \in Nat
    BY <1>3, OpenedIs, BarIs
<1>5. CASE new.last = agg.last /\ new.current = agg.current /\ new.out = agg.out
    BY <1>5
<1>6. CASE /\ agg.current = NoBar /\ new.current = b /\ new.out = agg.out
  <2>1. x < b.start
      BY <1>1, <1>4, <1>6 DEF Past
  <2> QED
      BY <1>4, <1>6, <2>1 DEF Past
<1>7. CASE /\ agg.current # NoBar
           /\ FloorToInterval(rtb.time) > agg.current.start
           /\ new.current = b
           /\ new.out = Append(agg.out, agg.current)
  <2>1. agg.out \in Seq(Bar) /\ agg.current \in Bar
      BY <1>0, <1>7 DEF AggIs
  <2>2. x < agg.current.start /\ agg.current.start \in Nat
      BY <1>7, <2>1, BarIs DEF Past
  <2>3. x < b.start
      BY <1>4, <1>7, <2>2
  <2>4. ASSUME NEW k \in DOMAIN new.out PROVE x < new.out[k].start
    <3>1. \/ k \in DOMAIN agg.out /\ new.out[k] = agg.out[k]
          \/ new.out[k] = agg.current
        BY <1>7, <2>1
    <3> QED
        BY <2>2, <3>1 DEF Past
  <2> QED
      BY <1>4, <1>7, <2>3, <2>4 DEF Past
<1>8. CASE /\ rtb.time > agg.last /\ agg.current # NoBar
           /\ new.current = Merged(agg.current, rtb)
           /\ new.out = agg.out
  <2>1. /\ agg.current \in Bar /\ agg.last \in 0..MaxTime /\ agg.current.volume <= agg.last
      BY <1>0, <1>8 DEF AggIs
  <2>2. rtb.time \in 1..MaxTime /\ MaxTime \in Nat /\ agg.current.volume \in Nat
      BY <2>1, BarIs, BarFeedAssumption DEF Rtb
  <2>3. agg.current.volume < MaxTime
      BY <1>8, <2>1, <2>2
  <2>4. PICK d : d = Merged(agg.current, rtb)
      OBVIOUS
  <2>5. d # NoBar /\ d.start = agg.current.start
      BY <2>1, <2>3, <2>4, MergedIs
  <2> QED
      BY <1>8, <2>4, <2>5 DEF Past
<1> QED
    BY <1>2, <1>3, <1>5, <1>6, <1>7, <1>8 DEF FeedsTo

(***************************************************************************)
(* A whole slice of the client's list.                                     *)
(***************************************************************************)
TillNow(bars, m) == \A i \in DOMAIN bars : bars[i].time <= m

BaseOf(s) == [last |-> last[s], current |-> current[s], out |-> <<>>, raised |-> FALSE]

Folds(k, z, bars, g) ==
    g = [i \in 0..Len(bars) |-> IF i <= k THEN z ELSE Feed(g[i - 1], bars[i])]

\* The table Consumed builds.
Table(k, z, bars, g) ==
    /\ g[0] = z
    /\ \A i \in 1..Len(bars) :
            g[i] = IF i <= k THEN z ELSE Feed(g[i - 1], bars[i])

LEMMA FoldExists ==
    ASSUME NEW m \in 0..MaxTime,
           NEW k \in Nat, NEW z, AggOK(z, m),
           NEW bars \in Seq(Rtb), TillNow(bars, m)
    PROVE  \E h : Folds(k, z, bars, h)
<1>1. PICK n \in Nat : n = Len(bars)
    OBVIOUS
<1>3. PICK A : A = {agg \in Aggs : AggOK(agg, m)}
    OBVIOUS
<1> DEFINE St == [p \in (1..n) \X A |-> IF p[1] <= k THEN z ELSE Feed(p[2], bars[p[1]])]
<1>4. z \in A
    BY <1>3 DEF AggOK
<1>5. ASSUME NEW i \in 1..n, NEW x \in A
      PROVE  /\ St[<<i, x>>] = IF i <= k THEN z ELSE Feed(x, bars[i])
             /\ St[<<i, x>>] \in A
  <2>1. St[<<i, x>>] = IF i <= k THEN z ELSE Feed(x, bars[i])
      OBVIOUS
  <2>2. bars[i] \in Rtb /\ bars[i].time <= m
      BY <1>1 DEF TillNow
  <2>3. AggOK(x, m)
      BY <1>3
  <2>4. PICK f : f = Feed(x, bars[i])
      OBVIOUS
  <2>5. AggOK(f, m)
      BY <2>2, <2>3, <2>4, FeedKeeps
  <2>6. f \in A
      BY <1>3, <2>5 DEF AggOK
  <2> QED
      BY <1>4, <2>1, <2>4, <2>6
<1> HIDE DEF St
<1>6. \A i \in 1..n : \A x \in A : St[<<i, x>>] \in A
    BY <1>5
<1>7. PICK g \in [0..n -> A] : Recursive(g, n, z, St)
    BY <1>4, <1>6, RecursionExists
<1>8. ASSUME NEW i \in 0..n
      PROVE  g[i] = IF i <= k THEN z ELSE Feed(g[i - 1], bars[i])
  <2>1. CASE i = 0
      BY <1>7, <2>1 DEF Recursive
  <2>2. CASE i # 0
    <3>1. i \in 1..n /\ i - 1 \in 0..n
        BY <2>2
    <3>2. g[i - 1] \in A
        BY <1>7, <3>1
    <3>3. g[i] = St[<<i, g[i - 1]>>]
        BY <1>7, <3>1 DEF Recursive
    <3> QED
        BY <1>5, <3>1, <3>2, <3>3
  <2> QED
      BY <2>1, <2>2
<1>9. g = [i \in 0..n |-> g[i]]
    BY <1>7
<1>10. Folds(k, z, bars, g)
    BY <1>1, <1>8, <1>9 DEF Folds
<1> QED
    BY <1>10

LEMMA ConsumedIs ==
    ASSUME NEW s \in Streams, NEW m \in 0..MaxTime,
           NEW k \in Nat, k = seen[s], NEW z, z = BaseOf(s), AggOK(z, m),
           NEW bars \in Seq(Rtb), TillNow(bars, m)
    PROVE  \E g : Table(k, z, bars, g) /\ Consumed(s, bars) = g[Len(bars)]
<1>1. PICK g : g = CHOOSE h : Folds(k, z, bars, h)
    OBVIOUS
<1>2. Folds(k, z, bars, g)
  <2>1. \E h : Folds(k, z, bars, h)
      BY FoldExists
  <2> QED
      BY <1>1, <2>1
<1>3. Consumed(s, bars) = g[Len(bars)]
    BY <1>1 DEF Consumed, Folds, BaseOf
<1>4. Len(bars) \in Nat /\ 0 \in 0..Len(bars) /\ 0 <= k
    OBVIOUS
<1>5. Table(k, z, bars, g)
  <2>1. g[0] = z
      BY <1>2, <1>4 DEF Folds
  <2>2. ASSUME NEW i \in 1..Len(bars)
        PROVE  g[i] = IF i <= k THEN z ELSE Feed(g[i - 1], bars[i])
    <3>1. i \in 0..Len(bars)
        OBVIOUS
    <3> QED
        BY <1>2, <3>1 DEF Folds
  <2> QED
      BY <2>1, <2>2 DEF Table
<1> QED
    BY <1>3, <1>5

\* What a slice keeps, and what it cannot lose.
LEMMA ConsumedKeeps ==
    ASSUME NEW s \in Streams, NEW m \in 0..MaxTime,
           NEW k \in Nat, k = seen[s], NEW z, z = BaseOf(s), AggOK(z, m),
           NEW bars \in Seq(Rtb), TillNow(bars, m),
           NEW a, a = Consumed(s, bars)
    PROVE  /\ AggOK(a, m) /\ z.last <= a.last
           /\ \A x \in Nat : Past(x, z.current, z.out, bars) => Past(x, a.current, a.out, bars)
<1>1. PICK g : Table(k, z, bars, g) /\ Consumed(s, bars) = g[Len(bars)]
    BY ConsumedIs
<1>2. PICK n \in Nat : n = Len(bars)
    OBVIOUS
<1>3. a = g[n]
    BY <1>1, <1>2
<1>4. g[0] = z /\ \A i \in 1..n : g[i] = IF i <= k THEN z ELSE Feed(g[i - 1], bars[i])
    BY <1>1, <1>2 DEF Table
<1>5. \A i \in 1..n : i \in DOMAIN bars /\ bars[i] \in Rtb /\ bars[i].time <= m
    BY <1>2 DEF TillNow
<1> DEFINE T == {i \in 0..n : AggOK(g[i], m) /\ z.last <= g[i].last}
<1>6. z.last \in Int /\ z.last <= z.last
    BY DEF AggOK, AggIs
<1>7. 0 \in T
    BY <1>4, <1>6
<1>8. ASSUME NEW i \in 1..n, i - 1 \in T
      PROVE  i \in T
  <2>1. PICK h : h = g[i - 1]
      OBVIOUS
  <2>2. AggOK(h, m) /\ z.last <= h.last /\ i \in 0..n
      BY <1>8, <2>1
  <2>3. CASE i <= k
      BY <1>4, <1>6, <2>2, <2>3
  <2>4. CASE ~(i <= k)
    <3>1. PICK f : f = Feed(h, bars[i])
        OBVIOUS
    <3>2. g[i] = f
        BY <1>4, <2>1, <2>4, <3>1
    <3>3. AggOK(f, m)
        BY <1>5, <2>2, <3>1, FeedKeeps
    <3>4. f.last = h.last \/ f.last > h.last
      <4>1. h \in Aggs
          BY <2>2 DEF AggOK
      <4>2. FeedsTo(h, bars[i], f)
          BY <1>5, <3>1, <4>1, FeedIs
      <4> QED
          BY <4>2 DEF FeedsTo
    <3>5. h.last \in Int /\ f.last \in Int
        BY <2>2, <3>3 DEF AggOK, AggIs
    <3>6. z.last <= f.last
        BY <1>6, <2>2, <3>4, <3>5
    <3> QED
        BY <2>2, <3>2, <3>3, <3>6
  <2> QED
      BY <2>3, <2>4
<1>9. \A i \in 1..n : i - 1 \in T => i \in T
    BY <1>8
<1>10. \A i \in 0..n : i \in T
  <2> HIDE DEF T
  <2> QED
      BY <1>7, <1>9, UpTo
<1>11. \A i \in 0..n : AggOK(g[i], m) /\ z.last <= g[i].last
    BY <1>10
<1>12. ASSUME NEW x \in Nat, Past(x, z.current, z.out, bars)
       PROVE  Past(x, a.current, a.out, bars)
  <2> DEFINE P == {i \in 0..n : Past(x, g[i].current, g[i].out, bars)}
  <2>1. 0 \in P
      BY <1>4, <1>12
  <2>2. ASSUME NEW i \in 1..n, i - 1 \in P
        PROVE  i \in P
    <3>1. PICK h : h = g[i - 1]
        OBVIOUS
    <3>2. Past(x, h.current, h.out, bars) /\ i \in 0..n /\ i - 1 \in 0..n
        BY <2>2, <3>1
    <3>3. AggOK(h, m)
        BY <1>11, <3>1, <3>2
    <3>4. CASE i <= k
        BY <1>4, <1>12, <3>2, <3>4
    <3>5. CASE ~(i <= k)
      <4>1. PICK f : f = Feed(h, bars[i])
          OBVIOUS
      <4>2. g[i] = f
          BY <1>4, <3>1, <3>5, <4>1
      <4>3. Past(x, f.current, f.out, bars)
          BY <1>5, <3>2, <3>3, <4>1, FeedPast
      <4> QED
          BY <3>2, <4>2, <4>3
    <3> QED
        BY <3>4, <3>5
  <2>3. \A i \in 1..n : i - 1 \in P => i \in P
      BY <2>2
  <2>4. n \in P
    <3>1. n \in 0..n
        BY <1>2
    <3> HIDE DEF P
    <3> QED
        BY <2>1, <2>3, <3>1, UpTo
  <2> QED
      BY <1>3, <2>4
<1>13. n \in 0..n
    BY <1>2
<1> QED
    BY <1>3, <1>11, <1>12, <1>13

(***************************************************************************)
(* The closed bars of a queue and, after them, those of a slice.           *)
(***************************************************************************)
Carries(c, o, c2, o2, bars) ==
    \A x \in Nat : Past(x, c, o, bars) => Past(x, c2, o2, bars)

LEMMA QueueGrows ==
    ASSUME NEW l, NEW c, NEW o, NEW m, AggIs(l, c, o, m),
           NEW l2, NEW c2, NEW o2, AggIs(l2, c2, o2, m), l <= l2,
           NEW bars, NEW e, e = <<>>, Carries(c, e, c2, o2, bars), NEW p, p = o \o o2
    PROVE  AggIs(l2, c2, p, m) /\ Carries(c, o, c2, p, bars)
<1>1. o \in Seq(Bar) /\ o2 \in Seq(Bar) /\ BarsRise(o, c) /\ BarsRise(o2, c2)
    BY DEF AggIs
<1>2. JoinOf(Bar, o, o2, p)
    BY <1>1, JoinIs
<1>3. /\ p \in Seq(Bar) /\ Len(o) \in Nat
      /\ DOMAIN o = 1..Len(o) /\ DOMAIN o2 = 1..Len(o2) /\ DOMAIN p = 1..Len(p)
      /\ \A i \in DOMAIN o : i \in DOMAIN p /\ p[i] = o[i]
      /\ \A j \in DOMAIN o2 : j + Len(o) \in DOMAIN p /\ p[j + Len(o)] = o2[j]
      /\ \A k \in DOMAIN p : k \in DOMAIN o \/ (k - Len(o) \in DOMAIN o2 /\ k > Len(o))
    BY <1>2 DEF JoinOf
<1>3a. Len(o2) \in Nat /\ Len(p) \in Nat
    BY <1>1, <1>3
<1>4. ASSUME NEW k \in DOMAIN p
      PROVE  \/ k \in DOMAIN o /\ p[k] = o[k]
             \/ \E j \in DOMAIN o2 : k = j + Len(o) /\ p[k] = o2[j]
  <2>1. CASE k \in DOMAIN o
      BY <1>3, <2>1
  <2>2. CASE k - Len(o) \in DOMAIN o2
    <3>1. PICK j \in DOMAIN o2 : j = k - Len(o)
        BY <2>2
    <3>2. k = j + Len(o)
        BY <1>3, <3>1
    <3> QED
        BY <1>3, <3>2
  <2> QED
      BY <1>3, <2>1, <2>2
<1>5. \A i \in DOMAIN o : o[i].start \in Nat
  <2>1. \A i \in DOMAIN o : o[i] \in Bar
      BY <1>1
  <2>2. \A b \in Bar : b.start \in Nat
      BY BarIs
  <2> QED
      BY <2>1, <2>2
<1>6. ASSUME NEW i \in DOMAIN o
      PROVE  /\ c # NoBar /\ c2 # NoBar
             /\ o[i].start < c2.start
             /\ \A j \in DOMAIN o2 : o[i].start < o2[j].start
  <2>1. c # NoBar
      BY <1>6 DEF AggIs
  <2>2. l > 0 /\ l \in Int /\ l2 \in Int
      BY <2>1 DEF AggIs
  <2>3. l2 > 0
      BY <2>2
  <2>4. c2 # NoBar
      BY <2>2, <2>3 DEF AggIs
  <2>5. Past(o[i].start, c, e, bars)
    <3>1. o[i].start < c.start
        BY <1>1 DEF BarsRise
    <3> QED
        BY <2>1, <3>1 DEF Past
  <2>6. Past(o[i].start, c2, o2, bars)
      BY <1>5, <2>5 DEF Carries
  <2> QED
      BY <2>1, <2>4, <2>6 DEF Past
<1>7. BarsRise(p, c2)
  <2>1. ASSUME NEW k \in DOMAIN p PROVE p[k].start < c2.start
      BY <1>1, <1>4, <1>6 DEF BarsRise
  <2>2. ASSUME NEW i \in DOMAIN p, NEW j \in DOMAIN p, i < j
        PROVE  p[i].start < p[j].start
    <3>1. CASE j \in DOMAIN o /\ p[j] = o[j]
      <4>1. i \in DOMAIN o
          BY <1>3, <2>2, <3>1
      <4> QED
          BY <1>1, <1>3, <2>2, <3>1, <4>1 DEF BarsRise
    <3>2. CASE \E y \in DOMAIN o2 : j = y + Len(o) /\ p[j] = o2[y]
      <4>1. PICK y \in DOMAIN o2 : j = y + Len(o) /\ p[j] = o2[y]
          BY <3>2
      <4>2. CASE i \in DOMAIN o /\ p[i] = o[i]
          BY <1>6, <4>1, <4>2
      <4>3. CASE \E x \in DOMAIN o2 : i = x + Len(o) /\ p[i] = o2[x]
        <5>1. PICK x \in DOMAIN o2 : i = x + Len(o) /\ p[i] = o2[x]
            BY <4>3
        <5>2. x < y
            BY <1>3, <1>3a, <2>2, <4>1, <5>1
        <5> QED
            BY <1>1, <4>1, <5>1, <5>2 DEF BarsRise
      <4> QED
          BY <1>4, <4>2, <4>3
    <3> QED
        BY <1>4, <3>1, <3>2
  <2> QED
      BY <2>1, <2>2 DEF BarsRise
<1>8. l2 = 0 => p = <<>>
  <2>1. ASSUME l2 = 0 PROVE p = <<>>
    <3>1. o2 = <<>> /\ l = 0
        BY <2>1 DEF AggIs
    <3>2. o = <<>>
        BY <3>1 DEF AggIs
    <3> QED
        BY <3>1, <3>2
  <2> QED
      BY <2>1
<1>9. AggIs(l2, c2, p, m)
    BY <1>3, <1>7, <1>8 DEF AggIs
<1>10. ASSUME NEW x \in Nat, Past(x, c, o, bars)
       PROVE  Past(x, c2, p, bars)
  <2>1. Past(x, c, e, bars)
      BY <1>10 DEF Past
  <2>2. Past(x, c2, o2, bars)
      BY <2>1 DEF Carries
  <2>3. ASSUME NEW k \in DOMAIN p PROVE x < p[k].start
      BY <1>4, <1>10, <2>2 DEF Past
  <2> QED
      BY <2>2, <2>3 DEF Past
<1> QED
    BY <1>9, <1>10 DEF Carries

(***************************************************************************)
(* The invariant: every aggregator is as AggIs says, and the interval of   *)
(* every bar that was delivered is over, for good: it began before that of *)
(* the present time, and before all that its stream may still deliver.     *)
(***************************************************************************)
Taken == [stream : Streams, bar : Bar]

BarsTypes ==
    /\ now \in 0..MaxTime /\ connects \in 1..MaxConnects
    /\ open \subseteq Streams /\ shared \in BOOLEAN
    /\ list \in [Streams -> Seq(Rtb)] /\ seen \in [Streams -> 0..MaxTime]
    /\ last \in [Streams -> 0..MaxTime] /\ current \in [Streams -> Bar \cup {NoBar}]
    /\ closed \in [Streams -> Seq(Bar)]
    /\ delivered \in Seq(Taken)

ListIs(l, m) == l \in Seq(Rtb) /\ TillNow(l, m) /\ Len(l) <= m

StreamsOK ==
    \A s \in Streams : /\ ListIs(list[s], now)
                       /\ AggIs(last[s], current[s], closed[s], now)

\* The interval x is over at time m, with the bars c and o and the lists ls.
Over(x, m, c, o, ls) ==
    /\ m > 0 /\ x < FloorToInterval(m)
    /\ \A t \in Streams : Past(x, c, o, ls[t])

DeliveredOK ==
    \A i \in DOMAIN delivered :
        Over(delivered[i].bar.start, now, current[delivered[i].stream],
             closed[delivered[i].stream], list)

BarsInv == BarsTypes /\ StreamsOK /\ DeliveredOK /\ BarsComeOnceAndInOrder

LEMMA BarsStart == ASSUME Init PROVE BarsInv
<1>1. PICK z : z = <<>>
    OBVIOUS
<1>2. z \in Seq(Rtb) /\ z \in Seq(Bar) /\ z \in Seq(Taken) /\ DOMAIN z = {} /\ Len(z) = 0
    BY <1>1
<1>3. /\ now = 0 /\ connects = 1 /\ open = {} /\ shared = FALSE /\ delivered = z
      /\ list = [s \in Streams |-> z] /\ closed = [s \in Streams |-> z]
      /\ seen = [s \in Streams |-> 0] /\ last = [s \in Streams |-> 0]
      /\ current = [s \in Streams |-> NoBar]
    BY <1>1 DEF Init, ForEach
<1>4. 0 \in 0..MaxTime /\ 1 \in 1..MaxConnects
    BY BarFeedAssumption
<1>5. BarsTypes
    BY <1>2, <1>3, <1>4 DEF BarsTypes
<1>6. ListIs(z, 0)
    BY <1>2 DEF ListIs, TillNow
<1>7. AggIs(0, NoBar, z, 0)
    BY <1>1, <1>2, <1>4 DEF AggIs, BarsRise
<1>8. StreamsOK
    BY <1>3, <1>6, <1>7 DEF StreamsOK
<1>9. DeliveredOK /\ BarsComeOnceAndInOrder
    BY <1>2, <1>3 DEF DeliveredOK, BarsComeOnceAndInOrder
<1> QED
    BY <1>5, <1>8, <1>9 DEF BarsInv

LEMMA SubscribeKeeps ==
    ASSUME BarsInv, NEW s \in Streams, Subscribe(s)
    PROVE  BarsInv'
<1>1. /\ open' = open \cup {s} /\ shared' = (shared \/ open # {})
      /\ UNCHANGED <<now, connects, list, seen, last, current, closed, delivered>>
    BY DEF Subscribe
<1>2. BarsTypes'
    BY <1>1 DEF BarsInv, BarsTypes
<1>3. StreamsOK' /\ DeliveredOK' /\ BarsComeOnceAndInOrder'
    BY <1>1 DEF BarsInv, StreamsOK, DeliveredOK, BarsComeOnceAndInOrder
<1> QED
    BY <1>2, <1>3 DEF BarsInv

LEMMA ReconnectKeeps ==
    ASSUME BarsInv, ConnectAgain
    PROVE  BarsInv'
<1>1. PICK z : z = <<>>
    OBVIOUS
<1>2. z \in Seq(Rtb) /\ z \in Seq(Bar) /\ DOMAIN z = {} /\ Len(z) = 0
    BY <1>1
<1>3. /\ connects' = connects + 1 /\ connects < MaxConnects
      /\ open' = {} /\ shared' = FALSE
      /\ list' = [s \in Streams |-> z] /\ closed' = [s \in Streams |-> z]
      /\ seen' = [s \in Streams |-> 0] /\ last' = [s \in Streams |-> 0]
      /\ current' = [s \in Streams |-> NoBar]
      /\ now' = now /\ delivered' = delivered
    BY <1>1 DEF ConnectAgain, ForEach
<1>4. BarsTypes
    BY DEF BarsInv
<1>5. /\ 0 \in 0..MaxTime /\ connects' \in 1..MaxConnects /\ now \in 0..MaxTime /\ 0 <= now
      /\ now \in Int
    BY <1>3, <1>4, BarFeedAssumption DEF BarsTypes
<1>6. BarsTypes'
    BY <1>2, <1>3, <1>4, <1>5 DEF BarsTypes
<1>7. ListIs(z, now)
    BY <1>2, <1>5 DEF ListIs, TillNow
<1>8. AggIs(0, NoBar, z, now)
    BY <1>1, <1>2, <1>5 DEF AggIs, BarsRise
<1>9. StreamsOK'
    BY <1>3, <1>7, <1>8 DEF StreamsOK
<1>10. DeliveredOK'
  <2>1. ASSUME NEW i \in DOMAIN delivered
        PROVE  Over(delivered[i].bar.start, now, NoBar, z, list')
    <3>1. now > 0 /\ delivered[i].bar.start < FloorToInterval(now)
        BY DEF BarsInv, DeliveredOK, Over
    <3>2. \A t \in Streams : list'[t] = z
        BY <1>3
    <3>3. Past(delivered[i].bar.start, NoBar, z, z)
        BY <1>2 DEF Past
    <3> QED
        BY <3>1, <3>2, <3>3 DEF Over
  <2>2. \A i \in DOMAIN delivered : delivered[i].stream \in Streams
    <3>1. \A i \in DOMAIN delivered : delivered[i] \in Taken
        BY <1>4 DEF BarsTypes
    <3> QED
        BY <3>1 DEF Taken
  <2>3. \A i \in DOMAIN delivered : /\ current'[delivered[i].stream] = NoBar
                                    /\ closed'[delivered[i].stream] = z
      BY <1>3, <2>2
  <2> QED
      BY <1>3, <2>1, <2>3 DEF DeliveredOK
<1>11. BarsComeOnceAndInOrder'
    BY <1>3 DEF BarsInv, BarsComeOnceAndInOrder
<1> QED
    BY <1>6, <1>9, <1>10, <1>11 DEF BarsInv

LEMMA TradeKeeps ==
    ASSUME BarsInv, NEW price \in Prices, Trade(price)
    PROVE  BarsInv'
<1>1. PICK rtb : rtb = [time |-> now + 1, close |-> price]
    OBVIOUS
<1>2. /\ now < MaxTime /\ now' = now + 1
      /\ list' = [s \in Streams |-> IF s \in open THEN Append(list[s], rtb) ELSE list[s]]
      /\ UNCHANGED <<connects, open, seen, last, current, closed, delivered, shared>>
    BY <1>1 DEF Trade
<1>3. BarsTypes
    BY DEF BarsInv
<1>4. now \in Nat /\ MaxTime \in Nat /\ now + 1 \in 0..MaxTime /\ now + 1 \in 1..MaxTime
    BY <1>2, <1>3, BarFeedAssumption DEF BarsTypes
<1>5. rtb \in Rtb /\ rtb.time = now + 1
    BY <1>1, <1>4 DEF Rtb
<1>6. ASSUME NEW s \in Streams
      PROVE  ListIs(list'[s], now + 1)
  <2>1. ListIs(list[s], now)
      BY DEF BarsInv, StreamsOK
  <2>2. PICK l \in Seq(Rtb) : l = list[s] /\ TillNow(l, now) /\ Len(l) <= now
      BY <2>1 DEF ListIs
  <2>3. Len(l) \in Nat /\ DOMAIN l = 1..Len(l)
      BY <2>2
  <2>4. \A i \in DOMAIN l : l[i].time <= now + 1
    <3>1. \A i \in DOMAIN l : l[i].time <= now /\ l[i] \in Rtb
        BY <2>2 DEF TillNow
    <3>2. \A r \in Rtb : r.time \in Int
        BY DEF Rtb
    <3> QED
        BY <1>4, <3>1, <3>2
  <2>5. CASE list'[s] = l
      BY <1>4, <2>2, <2>3, <2>4, <2>5 DEF ListIs, TillNow
  <2>6. CASE list'[s] = Append(l, rtb)
    <3>1. PICK p : p = Append(l, rtb)
        OBVIOUS
    <3>2. /\ p \in Seq(Rtb) /\ Len(p) = Len(l) + 1 /\ DOMAIN p = 1..(Len(l) + 1)
          /\ p[Len(l) + 1] = rtb
        BY <1>5, <3>1
    <3>3. \A i \in DOMAIN l : p[i] = l[i]
        BY <2>2, <3>1
    <3>4. \A i \in DOMAIN p : i \in DOMAIN l \/ i = Len(l) + 1
        BY <2>3, <3>2
    <3>5. now + 1 <= now + 1
        BY <1>4
    <3>6. TillNow(p, now + 1)
        BY <1>5, <2>4, <3>2, <3>3, <3>4, <3>5 DEF TillNow
    <3>7. Len(p) <= now + 1
        BY <1>4, <2>2, <2>3, <3>2
    <3> QED
        BY <2>6, <3>1, <3>2, <3>6, <3>7 DEF ListIs
  <2> QED
      BY <1>2, <2>2, <2>5, <2>6
<1>7. ASSUME NEW s \in Streams
      PROVE  AggIs(last[s], current[s], closed[s], now + 1)
  <2>1. AggIs(last[s], current[s], closed[s], now)
      BY DEF BarsInv, StreamsOK
  <2>2. last[s] \in Int /\ last[s] <= now
      BY <2>1 DEF AggIs
  <2>3. last[s] <= now + 1
      BY <1>4, <2>2
  <2> QED
      BY <2>1, <2>3 DEF AggIs
<1>8. StreamsOK'
    BY <1>2, <1>6, <1>7 DEF StreamsOK
<1>9. BarsTypes'
  <2>1. \A s \in Streams : list'[s] \in Seq(Rtb)
      BY <1>6 DEF ListIs
  <2>2. list' \in [Streams -> Seq(Rtb)]
      BY <1>2, <2>1
  <2> QED
      BY <1>2, <1>3, <1>4, <2>2 DEF BarsTypes
<1>10. ASSUME NEW x \in Nat, NEW c, NEW o, Over(x, now, c, o, list)
       PROVE  Over(x, now + 1, c, o, list')
  <2>1. now > 0 /\ x < FloorToInterval(now) /\ now \in Nat \ {0} /\ now + 1 \in Nat \ {0}
      BY <1>4, <1>10 DEF Over
  <2>2. /\ FloorToInterval(now) <= FloorToInterval(now + 1)
        /\ FloorToInterval(now) \in Nat /\ FloorToInterval(now + 1) \in Nat
    <3>1. now <= now + 1
        BY <1>4
    <3> QED
        BY <2>1, <3>1, FloorRises, FloorIs
  <2>3. now + 1 > 0 /\ x < FloorToInterval(now + 1)
      BY <1>4, <2>1, <2>2
  <2>4. ASSUME NEW t \in Streams
        PROVE  Past(x, c, o, list'[t])
    <3>1. Past(x, c, o, list[t])
        BY <1>10 DEF Over
    <3>2. PICK l \in Seq(Rtb) : l = list[t]
        BY <1>3 DEF BarsTypes
    <3>3. CASE list'[t] = l
        BY <3>1, <3>2, <3>3
    <3>4. CASE list'[t] = Append(l, rtb)
      <4>1. PICK p : p = Append(l, rtb)
          OBVIOUS
      <4>2. \A i \in DOMAIN p : (i \in DOMAIN l /\ p[i] = l[i]) \/ p[i] = rtb
          BY <3>2, <4>1
      <4>3. c = NoBar => \A i \in DOMAIN p : x < FloorToInterval(p[i].time)
          BY <1>5, <2>3, <3>1, <3>2, <4>2 DEF Past
      <4> QED
          BY <3>1, <3>4, <4>1, <4>3 DEF Past
    <3> QED
        BY <1>2, <3>2, <3>3, <3>4
  <2> QED
      BY <2>3, <2>4 DEF Over
<1>11. DeliveredOK'
  <2>1. \A i \in DOMAIN delivered : delivered[i].bar.start \in Nat
    <3>1. \A i \in DOMAIN delivered : delivered[i] \in Taken
        BY <1>3 DEF BarsTypes
    <3>2. \A d \in Taken : d.bar.start \in Nat
      <4>1. \A d \in Taken : d.bar \in Bar
          BY DEF Taken
      <4> QED
          BY <4>1, BarIs
    <3> QED
        BY <3>1, <3>2
  <2> QED
      BY <1>2, <1>10, <2>1 DEF BarsInv, DeliveredOK
<1>12. BarsComeOnceAndInOrder'
    BY <1>2 DEF BarsInv, BarsComeOnceAndInOrder
<1> QED
    BY <1>8, <1>9, <1>11, <1>12 DEF BarsInv

\* The consumer takes the bar at the head of the queue.
LEMMA DeliverKeeps ==
    ASSUME BarsInv, NEW s \in Streams, Deliver(s)
    PROVE  BarsInv'
<1>1. PICK o : o = closed[s]
    OBVIOUS
<1>2. PICK q : q = Tail(o)
    OBVIOUS
<1>3. PICK d : d = [stream |-> s, bar |-> Head(o)]
    OBVIOUS
<1>4. /\ o # <<>> /\ delivered' = Append(delivered, d) /\ closed' = [closed EXCEPT ![s] = q]
      /\ UNCHANGED <<now, connects, list, open, seen, last, current, shared>>
    BY <1>1, <1>2, <1>3 DEF Deliver
<1>5. BarsTypes /\ o \in Seq(Bar) /\ now \in Nat /\ MaxTime \in Nat
    BY <1>1, BarFeedAssumption DEF BarsInv, BarsTypes
<1>6. /\ q \in Seq(Bar) /\ Len(q) = Len(o) - 1 /\ Len(o) \in Nat /\ Len(o) > 0
      /\ DOMAIN q = 1..Len(q) /\ DOMAIN o = 1..Len(o)
      /\ \A i \in DOMAIN q : i + 1 \in DOMAIN o /\ q[i] = o[i + 1]
      /\ Head(o) = o[1] /\ 1 \in DOMAIN o /\ o[1] \in Bar
    BY <1>2, <1>4, <1>5
<1>7. d \in Taken /\ d.stream = s /\ d.bar = o[1]
    BY <1>3, <1>6 DEF Taken
<1>8. AggIs(last[s], current[s], o, now) /\ ListIs(list[s], now)
    BY <1>1 DEF BarsInv, StreamsOK
<1>9. /\ BarsRise(o, current[s]) /\ last[s] > 0 /\ last[s] <= now /\ last[s] \in 0..MaxTime
      /\ current[s] # NoBar /\ current[s].start = FloorToInterval(last[s])
    BY <1>4, <1>8 DEF AggIs
<1>10. BarsRise(q, current[s])
  <2>1. \A i \in DOMAIN q : q[i].start < current[s].start
      BY <1>6, <1>9 DEF BarsRise
  <2>2. ASSUME NEW i \in DOMAIN q, NEW j \in DOMAIN q, i < j
        PROVE  q[i].start < q[j].start
    <3>1. i + 1 < j + 1
        BY <1>6, <2>2
    <3> QED
        BY <1>6, <1>9, <3>1 DEF BarsRise
  <2> QED
      BY <2>1, <2>2 DEF BarsRise
<1>11. AggIs(last[s], current[s], q, now)
    BY <1>6, <1>8, <1>9, <1>10 DEF AggIs
<1>12. closed'[s] = q /\ \A t \in Streams : t # s => closed'[t] = closed[t]
    BY <1>4, <1>5 DEF BarsTypes
<1>13. StreamsOK'
    BY <1>4, <1>11, <1>12 DEF BarsInv, StreamsOK
<1>14. BarsTypes'
    BY <1>4, <1>5, <1>6, <1>7 DEF BarsTypes
<1>15. Over(o[1].start, now, current[s], q, list)
  <2>1. last[s] \in Nat \ {0} /\ now \in Nat \ {0}
      BY <1>5, <1>9
  <2>2. o[1].start < current[s].start /\ o[1].start \in Nat
      BY <1>6, <1>9, BarIs DEF BarsRise
  <2>3. FloorToInterval(last[s]) <= FloorToInterval(now) /\ FloorToInterval(now) \in Nat
        /\ FloorToInterval(last[s]) \in Nat
      BY <1>9, <2>1, FloorRises, FloorIs
  <2>4. o[1].start < FloorToInterval(now)
      BY <1>9, <2>2, <2>3
  <2>5. \A i \in DOMAIN q : o[1].start < q[i].start
    <3>1. \A i \in DOMAIN q : 1 < i + 1
        BY <1>6
    <3> QED
        BY <1>6, <1>9, <3>1 DEF BarsRise
  <2>6. \A t \in Streams : Past(o[1].start, current[s], q, list[t])
      BY <1>9, <2>2, <2>5 DEF Past
  <2> QED
      BY <2>1, <2>4, <2>6 DEF Over
<1>16. /\ Len(delivered) \in Nat
       /\ DOMAIN delivered' = 1..(Len(delivered) + 1) /\ DOMAIN delivered = 1..Len(delivered)
       /\ delivered'[Len(delivered) + 1] = d
       /\ \A i \in DOMAIN delivered : delivered'[i] = delivered[i]
  <2>1. delivered \in Seq(Taken)
      BY <1>5 DEF BarsTypes
  <2>2. delivered' = Append(delivered, d)
      BY <1>4
  <2> QED
      BY <2>1, <2>2
<1>17. ASSUME NEW i \in DOMAIN delivered
       PROVE  /\ Over(delivered[i].bar.start, now, current[delivered[i].stream],
                      closed'[delivered[i].stream], list)
              /\ delivered[i].stream = s => delivered[i].bar.start < o[1].start
  <2>1. PICK x : x = delivered[i].bar.start
      OBVIOUS
  <2>2. PICK t \in Streams : t = delivered[i].stream
    <3>1. delivered[i] \in Taken
        BY <1>5 DEF BarsTypes
    <3> QED
        BY <3>1 DEF Taken
  <2>3. Over(x, now, current[t], closed[t], list)
      BY <2>1, <2>2 DEF BarsInv, DeliveredOK
  <2>4. CASE t # s
      BY <1>12, <2>1, <2>2, <2>3, <2>4
  <2>5. CASE t = s
    <3>1. \A u \in Streams : Past(x, current[s], o, list[u])
        BY <1>1, <2>3, <2>5 DEF Over
    <3>2. \A u \in Streams : Past(x, current[s], q, list[u])
        BY <1>6, <3>1 DEF Past
    <3>3. x < o[1].start
        BY <1>6, <3>1 DEF Past
    <3> QED
        BY <1>12, <2>1, <2>2, <2>3, <2>5, <3>2, <3>3 DEF Over
  <2> QED
      BY <2>4, <2>5
<1>18. \A i \in DOMAIN delivered' : i \in DOMAIN delivered \/ i = Len(delivered) + 1
    BY <1>16
<1>19. DeliveredOK'
  <2>1. ASSUME NEW i \in DOMAIN delivered'
        PROVE  Over(delivered'[i].bar.start, now, current[delivered'[i].stream],
                    closed'[delivered'[i].stream], list)
    <3>1. CASE i \in DOMAIN delivered
        BY <1>16, <1>17, <3>1
    <3>2. CASE i = Len(delivered) + 1
        BY <1>7, <1>12, <1>15, <1>16, <3>2
    <3> QED
        BY <1>18, <3>1, <3>2
  <2> QED
      BY <1>4, <2>1 DEF DeliveredOK
<1>20. BarsComeOnceAndInOrder'
  <2>1. ASSUME NEW i \in DOMAIN delivered', NEW j \in DOMAIN delivered',
               i < j, delivered'[i].stream = delivered'[j].stream
        PROVE  delivered'[i].bar.start < delivered'[j].bar.start
    <3>1. i \in DOMAIN delivered
        BY <1>16, <2>1
    <3>2. CASE j \in DOMAIN delivered
        BY <1>16, <2>1, <3>1, <3>2 DEF BarsInv, BarsComeOnceAndInOrder
    <3>3. CASE j = Len(delivered) + 1
        BY <1>7, <1>16, <1>17, <2>1, <3>1, <3>3
    <3> QED
        BY <1>18, <3>2, <3>3
  <2> QED
      BY <2>1 DEF BarsComeOnceAndInOrder
<1> QED
    BY <1>13, <1>14, <1>19, <1>20 DEF BarsInv

(***************************************************************************)
(* An update of the list of t, as every open handler takes it.             *)
(***************************************************************************)
\* What a stream becomes: l, c and o are last, current and closed before, and
\* l2, c2 and o2 after.
Advances(l, c, o, l2, c2, o2, m, bars) ==
    /\ AggIs(l2, c2, o2, m)
    /\ Carries(c, o, c2, o2, bars)
    /\ c # NoBar => c2 # NoBar

LEMMA UpdateStream ==
    ASSUME BarsInv, NEW t \in Streams, OnBarUpdate(t), NEW s \in Streams, s \in open
    PROVE  Advances(last[s], current[s], closed[s], last'[s], current'[s], closed'[s], now, list[t])
<1>1. PICK a : a = Consumed(s, list[t])
    OBVIOUS
<1>2. /\ last'[s] = a.last /\ current'[s] = a.current /\ closed'[s] = closed[s] \o a.out
    BY <1>1 DEF OnBarUpdate
<1>3. /\ now \in 0..MaxTime /\ seen[s] \in Nat /\ last[s] \in 0..MaxTime
      /\ current[s] \in Bar \cup {NoBar}
    BY DEF BarsInv, BarsTypes
<1>4. PICK bars \in Seq(Rtb) : bars = list[t] /\ TillNow(bars, now)
    BY DEF BarsInv, StreamsOK, ListIs
<1>5. AggIs(last[s], current[s], closed[s], now)
    BY DEF BarsInv, StreamsOK
<1>6. PICK z : z = BaseOf(s)
    OBVIOUS
<1>7. PICK e : e = <<>>
    OBVIOUS
<1>8. /\ z = [last |-> last[s], current |-> current[s], out |-> e, raised |-> FALSE]
      /\ e \in Seq(Bar) /\ DOMAIN e = {}
    BY <1>6, <1>7 DEF BaseOf
<1>9. z \in Aggs /\ z.last = last[s] /\ z.current = current[s] /\ z.out = e
    BY <1>3, <1>8 DEF Aggs
<1>10. AggIs(last[s], current[s], e, now)
    BY <1>5, <1>7, <1>8 DEF AggIs, BarsRise
<1>11. AggOK(z, now)
    BY <1>9, <1>10 DEF AggOK
<1>12. PICK k \in Nat : k = seen[s]
    BY <1>3
<1>13. /\ AggOK(a, now) /\ z.last <= a.last
       /\ \A x \in Nat : Past(x, z.current, z.out, bars) => Past(x, a.current, a.out, bars)
    BY <1>1, <1>3, <1>4, <1>6, <1>11, <1>12, ConsumedKeeps
<1>14. /\ AggIs(a.last, a.current, a.out, now) /\ last[s] <= a.last
       /\ \A x \in Nat : Past(x, current[s], <<>>, bars) => Past(x, a.current, a.out, bars)
    BY <1>7, <1>9, <1>13 DEF AggOK
<1>15. PICK p : p = closed[s] \o a.out
    OBVIOUS
<1>16. /\ AggIs(a.last, a.current, p, now)
       /\ Carries(current[s], closed[s], a.current, p, bars)
  <2>1. PICK l, c, o : l = last[s] /\ c = current[s] /\ o = closed[s]
      OBVIOUS
  <2>2. PICK l2, c2, o2 : l2 = a.last /\ c2 = a.current /\ o2 = a.out
      OBVIOUS
  <2>3. AggIs(l, c, o, now) /\ AggIs(l2, c2, o2, now) /\ l <= l2 /\ p = o \o o2
      BY <1>5, <1>14, <1>15, <2>1, <2>2
  <2>4. Carries(c, e, c2, o2, bars)
      BY <1>7, <1>14, <2>1, <2>2 DEF Carries
  <2>5. AggIs(l2, c2, p, now) /\ Carries(c, o, c2, p, bars)
      BY <1>7, <2>3, <2>4, QueueGrows
  <2> QED
      BY <2>1, <2>2, <2>5
<1>17. current[s] # NoBar => a.current # NoBar
  <2>1. last[s] \in Int /\ a.last \in Int
      BY <1>5, <1>14 DEF AggIs
  <2>2. current[s] # NoBar => last[s] > 0
      BY <1>5 DEF AggIs
  <2>3. a.last > 0 => a.current # NoBar
      BY <1>14, <2>1 DEF AggIs
  <2> QED
      BY <1>14, <2>1, <2>2, <2>3
<1> QED
    BY <1>2, <1>4, <1>15, <1>16, <1>17 DEF Advances

LEMMA UpdateKeeps ==
    ASSUME BarsInv, NEW t \in Streams, OnBarUpdate(t)
    PROVE  BarsInv'
<1>1. /\ t \in open
      /\ UNCHANGED <<now, connects, list, open, delivered, shared>>
    BY DEF OnBarUpdate
<1>2. BarsTypes /\ now \in 0..MaxTime /\ MaxTime \in Nat /\ now \in Nat
    BY BarFeedAssumption DEF BarsInv, BarsTypes
<1>3. \A s \in Streams : s \notin open =>
        /\ last'[s] = last[s] /\ current'[s] = current[s] /\ closed'[s] = closed[s]
    BY DEF OnBarUpdate
<1>4. ASSUME NEW s \in Streams
      PROVE  Advances(last[s], current[s], closed[s], last'[s], current'[s], closed'[s], now, list[t])
  <2>1. CASE s \in open
      BY <2>1, UpdateStream
  <2>2. CASE s \notin open
    <3>1. AggIs(last[s], current[s], closed[s], now)
        BY DEF BarsInv, StreamsOK
    <3> QED
        BY <1>3, <2>2, <3>1 DEF Advances, Carries
  <2> QED
      BY <2>1, <2>2
<1>5. \A s \in Streams : AggIs(last'[s], current'[s], closed'[s], now)
    BY <1>4 DEF Advances
<1>6. StreamsOK'
    BY <1>1, <1>5 DEF BarsInv, StreamsOK
<1>7. BarsTypes'
  <2>1. /\ last' = [s \in Streams |-> last'[s]] /\ current' = [s \in Streams |-> current'[s]]
        /\ closed' = [s \in Streams |-> closed'[s]]
      BY DEF OnBarUpdate
  <2>2. \A s \in Streams : /\ last'[s] \in 0..MaxTime /\ current'[s] \in Bar \cup {NoBar}
                           /\ closed'[s] \in Seq(Bar)
      BY <1>5 DEF AggIs
  <2>3. /\ last' \in [Streams -> 0..MaxTime] /\ current' \in [Streams -> Bar \cup {NoBar}]
        /\ closed' \in [Streams -> Seq(Bar)]
      BY <2>1, <2>2
  <2>4. Len(list[t]) \in 0..MaxTime
    <3>1. ListIs(list[t], now)
        BY DEF BarsInv, StreamsOK
    <3>2. Len(list[t]) \in Nat /\ Len(list[t]) <= now
        BY <3>1 DEF ListIs
    <3> QED
        BY <1>2, <3>2
  <2>5. seen' \in [Streams -> 0..MaxTime]
    <3>1. seen' = [s \in Streams |-> IF s \in open THEN Len(list[t]) ELSE seen[s]]
        BY DEF OnBarUpdate
    <3>2. seen \in [Streams -> 0..MaxTime]
        BY <1>2 DEF BarsTypes
    <3> QED
        BY <2>4, <3>1, <3>2
  <2> QED
      BY <1>1, <1>2, <2>3, <2>5 DEF BarsTypes
<1>8. DeliveredOK'
  <2>1. ASSUME NEW i \in DOMAIN delivered
        PROVE  Over(delivered[i].bar.start, now, current'[delivered[i].stream],
                    closed'[delivered[i].stream], list)
    <3>0. delivered[i] \in Taken
        BY <1>2 DEF BarsTypes
    <3>1. PICK x \in Nat : x = delivered[i].bar.start
      <4>1. delivered[i].bar \in Bar
          BY <3>0 DEF Taken
      <4> QED
          BY <4>1, BarIs
    <3>2. PICK s \in Streams : s = delivered[i].stream
        BY <3>0 DEF Taken
    <3>3. Over(x, now, current[s], closed[s], list)
        BY <3>1, <3>2 DEF BarsInv, DeliveredOK
    <3>4. Past(x, current'[s], closed'[s], list[t])
        BY <1>4, <3>3 DEF Over, Advances, Carries
    <3>5. current'[s] = NoBar => current[s] = NoBar
        BY <1>4 DEF Advances
    <3>6. \A u \in Streams : Past(x, current'[s], closed'[s], list[u])
        BY <3>3, <3>4, <3>5 DEF Past, Over
    <3> QED
        BY <3>1, <3>2, <3>3, <3>6 DEF Over
  <2> QED
      BY <1>1, <2>1 DEF DeliveredOK
<1>9. BarsComeOnceAndInOrder'
    BY <1>1 DEF BarsInv, BarsComeOnceAndInOrder
<1> QED
    BY <1>6, <1>7, <1>8, <1>9 DEF BarsInv

LEMMA BarsStep == BarsInv /\ [Next]_feedVars => BarsInv'
<1>1. SUFFICES ASSUME BarsInv, [Next]_feedVars PROVE BarsInv'
    OBVIOUS
<1>2. ASSUME NEW s \in Streams, Subscribe(s) PROVE BarsInv'
    BY <1>1, <1>2, SubscribeKeeps
<1>3. ASSUME NEW s \in Streams, OnBarUpdate(s) PROVE BarsInv'
    BY <1>1, <1>3, UpdateKeeps
<1>4. ASSUME NEW s \in Streams, Deliver(s) PROVE BarsInv'
    BY <1>1, <1>4, DeliverKeeps
<1>5. ASSUME NEW price \in Prices, Trade(price) PROVE BarsInv'
    BY <1>1, <1>5, TradeKeeps
<1>6. CASE ConnectAgain
    BY <1>1, <1>6, ReconnectKeeps
<1>7. CASE UNCHANGED feedVars
    BY <1>1, <1>7 DEF feedVars, BarsInv, BarsTypes, StreamsOK, DeliveredOK, BarsComeOnceAndInOrder
<1> QED
    BY <1>1, <1>2, <1>3, <1>4, <1>5, <1>6, <1>7 DEF Next

LEMMA BarsInvHolds == Spec => []BarsInv
<1>1. Init => BarsInv
    BY BarsStart
<1>2. BarsInv /\ [Next]_feedVars => BarsInv'
    BY BarsStep
<1> QED
    BY <1>1, <1>2, PTL DEF Spec

\* What the loop gets of a stream is later bar by bar, over late updates, updates
\* meant for another subscription and reconnects (live_ib.py 66-139,
\* aggregator.py 53-110, bar_source.py 26-32).
THEOREM BarsKeepTheirOrder == Spec => []BarsComeOnceAndInOrder
<1>1. BarsInv => BarsComeOnceAndInOrder
    BY DEF BarsInv
<1> QED
    BY <1>1, BarsInvHolds, PTL

\* The types of the feed's state; in particular the bars are bars of the
\* prices, with as many ticks as there were at most.
THEOREM BarTypes == Spec => []TypeOK
<1>1. BarsInv => TypeOK
    BY DEF BarsInv, BarsTypes, TypeOK
<1> QED
    BY <1>1, BarsInvHolds, PTL

(***************************************************************************)
(* BarsAreWhole.  Of the ticks 1..n of a list, those of the interval x,    *)
(* and that the bar b is made of them: the bounds are witnessed by ticks.  *)
(***************************************************************************)
TicksOf(x, bars, n) == {i \in 1..n : FloorToInterval(bars[i].time) = x}

MadeOf(b, bars, T) ==
    /\ b.volume = Cardinality(T)
    /\ \E i \in T : b.open = bars[i].close /\ \A j \in T : i <= j
    /\ \E i \in T : b.close = bars[i].close /\ \A j \in T : j <= i
    /\ \E i \in T : b.high = bars[i].close /\ \A j \in T : bars[j].close <= bars[i].close
    /\ \E i \in T : b.low = bars[i].close /\ \A j \in T : bars[i].close <= bars[j].close

WholeOf(b, bars, n) == MadeOf(b, bars, TicksOf(b.start, bars, n))

\* A bar as the property has it.
PricesOf(bars, T) == {bars[i].close : i \in T}

IsBarOf(b, bars, T, P) ==
    /\ b.volume = Cardinality(T)
    /\ b.open = bars[Min(T)].close
    /\ b.close = bars[Max(T)].close
    /\ b.high = Max(P) /\ b.low = Min(P)

LEMMA MadeOfIs ==
    ASSUME NEW bars \in Seq(Rtb), NEW T, T \subseteq DOMAIN bars,
           NEW b, MadeOf(b, bars, T), NEW P, P = PricesOf(bars, T)
    PROVE  IsBarOf(b, bars, T, P)
<1>0. P = {bars[i].close : i \in T}
    BY DEF PricesOf
<1>1. \A i \in T : i \in Nat /\ bars[i].close \in Nat
  <2>1. \A i \in T : i \in Nat /\ bars[i] \in Rtb
      OBVIOUS
  <2>2. \A r \in Rtb : r.close \in Nat
      BY BarFeedAssumption DEF Rtb
  <2> QED
      BY <2>1, <2>2
<1>2. b.open = bars[Min(T)].close
  <2>1. PICK i \in T : b.open = bars[i].close /\ \A j \in T : i <= j
      BY DEF MadeOf
  <2>2. \A x \in T : (\A y \in T : x =< y) => x = i
      BY <1>1, <2>1
  <2>3. Min(T) = i
      BY <2>1, <2>2 DEF Min
  <2> QED
      BY <2>1, <2>3
<1>3. b.close = bars[Max(T)].close
  <2>1. PICK i \in T : b.close = bars[i].close /\ \A j \in T : j <= i
      BY DEF MadeOf
  <2>2. \A x \in T : (\A y \in T : x >= y) => x = i
      BY <1>1, <2>1
  <2>3. Max(T) = i
      BY <1>1, <2>1, <2>2 DEF Max
  <2> QED
      BY <2>1, <2>3
<1>4. \A p \in P : p \in Nat
    BY <1>0, <1>1
<1>5. b.high = Max(P)
  <2>1. PICK i \in T : b.high = bars[i].close /\ \A j \in T : bars[j].close <= bars[i].close
      BY DEF MadeOf
  <2>2. b.high \in P /\ \A p \in P : p <= b.high
      BY <1>0, <2>1
  <2>3. ASSUME NEW x \in P, \A y \in P : x >= y PROVE x = b.high
    <3>1. x \in Nat /\ b.high \in Nat
        BY <1>4, <2>2
    <3>2. x >= b.high /\ x <= b.high
        BY <2>2, <2>3
    <3> QED
        BY <3>1, <3>2
  <2>4. \A y \in P : b.high >= y
      BY <1>4, <2>2
  <2> QED
      BY <2>2, <2>3, <2>4 DEF Max
<1>6. b.low = Min(P)
  <2>1. PICK i \in T : b.low = bars[i].close /\ \A j \in T : bars[i].close <= bars[j].close
      BY DEF MadeOf
  <2>2. b.low \in P /\ \A p \in P : b.low <= p
      BY <1>0, <2>1
  <2>3. ASSUME NEW x \in P, \A y \in P : x =< y PROVE x = b.low
    <3>1. x \in Nat /\ b.low \in Nat
        BY <1>4, <2>2
    <3>2. x =< b.low /\ b.low <= x
        BY <2>2, <2>3
    <3> QED
        BY <3>1, <3>2
  <2> QED
      BY <2>2, <2>3 DEF Min
<1> QED
    BY <1>2, <1>3, <1>5, <1>6 DEF MadeOf, IsBarOf

LEMMA TicksAre ==
    ASSUME NEW x, NEW bars, NEW n \in Nat
    PROVE  /\ TicksOf(x, bars, n) \subseteq 1..n
           /\ IsFiniteSet(TicksOf(x, bars, n))
<1>1. TicksOf(x, bars, n) \subseteq 1..n
    BY DEF TicksOf
<1>2. IsFiniteSet(1..n)
    BY FS_Interval
<1> QED
    BY <1>1, <1>2, FS_Subset

\* A bar of one tick, the first of its interval.
LEMMA OpenedWhole ==
    ASSUME NEW bars \in Seq(Rtb), NEW n \in DOMAIN bars,
           NEW b, b = OpenedBar(bars[n]),
           \A i \in 1..(n - 1) : FloorToInterval(bars[i].time) # b.start
    PROVE  WholeOf(b, bars, n)
<1>1. n \in Nat \ {0} /\ bars[n] \in Rtb
    OBVIOUS
<1>2. /\ b.start = FloorToInterval(bars[n].time) /\ b.volume = 1
      /\ b.open = bars[n].close /\ b.high = bars[n].close /\ b.low = bars[n].close
      /\ b.close = bars[n].close
    BY <1>1, OpenedIs
<1>3. 1..n = 1..(n - 1) \cup {n}
    BY <1>1
<1>4. TicksOf(b.start, bars, n) = {n}
    BY <1>1, <1>2, <1>3 DEF TicksOf
<1>5. Cardinality({n}) = 1
    BY FS_Singleton
<1>6. bars[n].close \in Nat
    BY <1>1, BarFeedAssumption DEF Rtb
<1>7. n <= n /\ bars[n].close <= bars[n].close
    BY <1>1, <1>6
<1>8. MadeOf(b, bars, {n})
    BY <1>2, <1>5, <1>7 DEF MadeOf
<1> QED
    BY <1>4, <1>8 DEF WholeOf

\* One tick more of the same interval.
LEMMA MergedWhole ==
    ASSUME NEW bars \in Seq(Rtb), NEW n \in DOMAIN bars,
           NEW c \in Bar, c.volume < MaxTime, WholeOf(c, bars, n - 1),
           c.start = FloorToInterval(bars[n].time),
           NEW b, b = Merged(c, bars[n])
    PROVE  WholeOf(b, bars, n)
<1>1. n \in Nat \ {0} /\ n - 1 \in Nat /\ bars[n] \in Rtb
    OBVIOUS
<1>2. PICK p \in Nat : p = bars[n].close
    BY <1>1, BarFeedAssumption DEF Rtb
<1>3. /\ b.start = c.start /\ b.volume = c.volume + 1
      /\ b.open = c.open /\ b.close = p
      /\ b.high = Max({c.high, p}) /\ b.low = Min({c.low, p})
    BY <1>1, <1>2, MergedIs
<1>4. PICK T : T = TicksOf(c.start, bars, n - 1)
    OBVIOUS
<1>5. T \subseteq 1..(n - 1) /\ IsFiniteSet(T) /\ n \notin T
  <2>1. T \subseteq 1..(n - 1) /\ IsFiniteSet(T)
      BY <1>1, <1>4, TicksAre
  <2> QED
      BY <1>1, <2>1
<1>6. 1..n = 1..(n - 1) \cup {n}
    BY <1>1
<1>7. TicksOf(b.start, bars, n) = T \cup {n}
    BY <1>1, <1>3, <1>4, <1>6 DEF TicksOf
<1>8. MadeOf(c, bars, T)
    BY <1>4 DEF WholeOf
<1>9. \A i \in T : i \in Nat /\ i <= n /\ bars[i].close \in Nat
  <2>1. \A i \in T : i \in DOMAIN bars /\ i \in Nat /\ i <= n
      BY <1>1, <1>5
  <2>2. \A i \in DOMAIN bars : bars[i] \in Rtb
      OBVIOUS
  <2>3. \A r \in Rtb : r.close \in Nat
      BY BarFeedAssumption DEF Rtb
  <2> QED
      BY <2>1, <2>2, <2>3
<1>10. b.volume = Cardinality(T \cup {n})
    BY <1>3, <1>5, <1>8, FS_AddElement DEF MadeOf
<1>11. \E i \in T \cup {n} : b.open = bars[i].close /\ \A j \in T \cup {n} : i <= j
    BY <1>3, <1>8, <1>9 DEF MadeOf
<1>12. \E i \in T \cup {n} : b.close = bars[i].close /\ \A j \in T \cup {n} : j <= i
  <2>1. n <= n
      BY <1>1
  <2> QED
      BY <1>2, <1>3, <1>9, <2>1
<1>13. \E i \in T \cup {n} : /\ b.high = bars[i].close
                             /\ \A j \in T \cup {n} : bars[j].close <= bars[i].close
  <2>1. PICK i \in T : c.high = bars[i].close /\ \A j \in T : bars[j].close <= bars[i].close
      BY <1>8 DEF MadeOf
  <2>2. PICK h \in Nat : h = c.high
      BY <1>9, <2>1
  <2>3. b.high \in {h, p} /\ h <= b.high /\ p <= b.high
      BY <1>3, <2>2, MaxOfTwo
  <2>4. \A j \in T \cup {n} : bars[j].close <= b.high
    <3>1. \A j \in T : bars[j].close <= h /\ bars[j].close \in Nat
        BY <1>9, <2>1, <2>2
    <3>2. b.high \in Nat
        BY <2>3
    <3>3. \A j \in T : bars[j].close <= b.high
        BY <2>3, <3>1, <3>2
    <3> QED
        BY <1>2, <2>3, <3>3
  <2>5. b.high = bars[i].close \/ b.high = bars[n].close
      BY <1>2, <2>1, <2>2, <2>3
  <2> QED
      BY <2>4, <2>5
<1>14. \E i \in T \cup {n} : /\ b.low = bars[i].close
                             /\ \A j \in T \cup {n} : bars[i].close <= bars[j].close
  <2>1. PICK i \in T : c.low = bars[i].close /\ \A j \in T : bars[i].close <= bars[j].close
      BY <1>8 DEF MadeOf
  <2>2. PICK l \in Nat : l = c.low
      BY <1>9, <2>1
  <2>3. b.low \in {l, p} /\ b.low <= l /\ b.low <= p
      BY <1>3, <2>2, MinOfTwo
  <2>4. \A j \in T \cup {n} : b.low <= bars[j].close
    <3>1. \A j \in T : l <= bars[j].close /\ bars[j].close \in Nat
        BY <1>9, <2>1, <2>2
    <3>2. b.low \in Nat
        BY <2>3
    <3>3. \A j \in T : b.low <= bars[j].close
        BY <2>3, <3>1, <3>2
    <3> QED
        BY <1>2, <2>3, <3>3
  <2>5. b.low = bars[i].close \/ b.low = bars[n].close
      BY <1>2, <2>1, <2>2, <2>3
  <2> QED
      BY <2>4, <2>5
<1>15. MadeOf(b, bars, T \cup {n})
    BY <1>10, <1>11, <1>12, <1>13, <1>14 DEF MadeOf
<1> QED
    BY <1>7, <1>15 DEF WholeOf

\* Later ticks, of other intervals, change nothing.
LEMMA StaysWhole ==
    ASSUME NEW b, NEW bars, NEW n \in Nat, NEW k \in Nat, n <= k, WholeOf(b, bars, n),
           \A i \in (n + 1)..k : FloorToInterval(bars[i].time) # b.start
    PROVE  WholeOf(b, bars, k)
<1>1. 1..k = 1..n \cup (n + 1)..k
    OBVIOUS
<1>2. TicksOf(b.start, bars, k) = TicksOf(b.start, bars, n)
    BY <1>1 DEF TicksOf
<1> QED
    BY <1>2 DEF WholeOf

\* Nor does what comes behind the n ticks.
LEMMA WholeOfSame ==
    ASSUME NEW b, NEW bars, NEW longer, NEW n \in Nat, WholeOf(b, bars, n),
           \A i \in 1..n : longer[i] = bars[i]
    PROVE  WholeOf(b, longer, n)
<1>1. TicksOf(b.start, longer, n) = TicksOf(b.start, bars, n)
    BY DEF TicksOf
<1>2. PICK T : T = TicksOf(b.start, bars, n)
    OBVIOUS
<1>3. \A i \in T : longer[i] = bars[i]
    BY <1>2 DEF TicksOf
<1>4. MadeOf(b, longer, T)
    BY <1>2, <1>3 DEF WholeOf, MadeOf
<1> QED
    BY <1>1, <1>2, <1>4 DEF WholeOf

(***************************************************************************)
(* What has been made of the first i ticks of a list: nothing of none, and *)
(* of the others the bar c in the making and the bars o that are closed.   *)
(***************************************************************************)
WholeAt(l, c, o, bars, i) ==
    \/ i = 0 /\ l = 0 /\ c = NoBar /\ o = <<>>
    \/ /\ i \in DOMAIN bars /\ l = bars[i].time /\ c # NoBar /\ WholeOf(c, bars, i)
       /\ \A j \in DOMAIN o : WholeOf(o[j], bars, i)

RisingTicks(bars) == \A i, j \in DOMAIN bars : i < j => bars[i].time < bars[j].time

\* The intervals of the ticks up to n, in a list whose ticks rise.
LEMMA FloorsRise ==
    ASSUME NEW bars \in Seq(Rtb), RisingTicks(bars),
           NEW i \in DOMAIN bars, NEW n \in DOMAIN bars, i <= n
    PROVE  /\ FloorToInterval(bars[i].time) \in Nat /\ FloorToInterval(bars[n].time) \in Nat
           /\ FloorToInterval(bars[i].time) <= FloorToInterval(bars[n].time)
<1>1. bars[i] \in Rtb /\ bars[n] \in Rtb /\ i \in Nat /\ n \in Nat
    OBVIOUS
<1>2. PICK t \in Nat \ {0} : t = bars[i].time
    BY <1>1, BarFeedAssumption DEF Rtb
<1>3. PICK u \in Nat \ {0} : u = bars[n].time
    BY <1>1, BarFeedAssumption DEF Rtb
<1>4. t <= u
  <2>1. CASE i = n
      BY <1>2, <1>3, <2>1
  <2>2. CASE i < n
      BY <1>2, <1>3, <2>2 DEF RisingTicks
  <2> QED
      BY <1>1, <2>1, <2>2
<1> QED
    BY <1>2, <1>3, <1>4, FloorRises, FloorIs

LEMMA WholeStep ==
    ASSUME NEW m \in 0..MaxTime, NEW agg, AggOK(agg, m), ~agg.raised,
           NEW bars \in Seq(Rtb), RisingTicks(bars), NEW n \in DOMAIN bars,
           WholeAt(agg.last, agg.current, agg.out, bars, n - 1),
           NEW new, new = Feed(agg, bars[n])
    PROVE  ~new.raised /\ WholeAt(new.last, new.current, new.out, bars, n)
<1>1. PICK l, c, o : l = agg.last /\ c = agg.current /\ o = agg.out
    OBVIOUS
<1>2. PICK rtb \in Rtb : rtb = bars[n]
    OBVIOUS
<1>3. AggIs(l, c, o, m) /\ agg \in Aggs /\ WholeAt(l, c, o, bars, n - 1)
    BY <1>1 DEF AggOK
<1>4. PICK t \in Nat \ {0} : t = rtb.time /\ t <= MaxTime
    BY BarFeedAssumption DEF Rtb
<1>5. /\ n \in Nat \ {0} /\ DOMAIN bars = 1..Len(bars) /\ Len(bars) \in Nat
      /\ l \in Nat /\ c \in Bar \cup {NoBar} /\ o \in Seq(Bar) /\ MaxTime \in Nat
    BY <1>3, BarFeedAssumption DEF AggIs
<1>6. t > l
  <2>1. CASE n - 1 = 0 /\ l = 0
      BY <1>4, <2>1
  <2>2. CASE n - 1 \in DOMAIN bars /\ l = bars[n - 1].time
    <3>1. n - 1 < n
        BY <1>5
    <3>2. bars[n - 1].time < bars[n].time
        BY <2>2, <3>1 DEF RisingTicks
    <3> QED
        BY <1>2, <1>4, <1>5, <2>2, <3>2
  <2> QED
      BY <1>3, <2>1, <2>2 DEF WholeAt
<1>7. ~new.raised /\ new.last = t /\ FeedsTo(agg, rtb, new)
    BY <1>1, <1>2, <1>3, <1>4, <1>6, FeedIs
<1>8. PICK f \in Nat : f = FloorToInterval(t)
    BY FloorIs
<1>9. PICK b : b = OpenedBar(rtb)
    OBVIOUS
<1>10. b \in Bar /\ b # NoBar /\ b.start = f
    BY <1>4, <1>8, <1>9, OpenedIs
\* The bar so far and the closed ones, when there are some.
<1>11. ASSUME c # NoBar
       PROVE  /\ n - 1 \in DOMAIN bars /\ n - 1 \in Nat /\ WholeOf(c, bars, n - 1)
              /\ \A j \in DOMAIN o : WholeOf(o[j], bars, n - 1) /\ o[j].start < c.start
                                     /\ o[j].start \in Nat
              /\ c \in Bar /\ c.start \in Nat /\ c.start <= f /\ c.volume \in Nat
              /\ c.volume < MaxTime
              /\ \A i \in 1..(n - 1) : /\ FloorToInterval(bars[i].time) \in Nat
                                       /\ FloorToInterval(bars[i].time) <= c.start
  <2>1. /\ n - 1 \in DOMAIN bars /\ l = bars[n - 1].time /\ WholeOf(c, bars, n - 1)
        /\ \A j \in DOMAIN o : WholeOf(o[j], bars, n - 1)
      BY <1>3, <1>11 DEF WholeAt
  <2>2. /\ l > 0 /\ c.start = FloorToInterval(l) /\ c.volume <= l
        /\ \A j \in DOMAIN o : o[j].start < c.start
      BY <1>3, <1>11 DEF AggIs, BarsRise
  <2>3. c \in Bar /\ c.start \in Nat /\ c.volume \in Nat
      BY <1>5, <1>11, BarIs
  <2>4. \A j \in DOMAIN o : o[j].start \in Nat
    <3>1. \A j \in DOMAIN o : o[j] \in Bar
        BY <1>5
    <3> QED
        BY <3>1, BarIs
  <2>5. c.start <= f
      BY <1>5, <1>6, <1>8, <2>2, FloorRises
  <2>6. c.volume < MaxTime
      BY <1>4, <1>5, <1>6, <2>2, <2>3
  <2>7. ASSUME NEW i \in 1..(n - 1)
        PROVE  /\ FloorToInterval(bars[i].time) \in Nat
               /\ FloorToInterval(bars[i].time) <= c.start
    <3>1. i \in DOMAIN bars /\ i <= n - 1
        BY <1>5, <2>7
    <3> QED
        BY <2>1, <2>2, <3>1, FloorsRise
  <2> QED
      BY <1>5, <2>1, <2>2, <2>3, <2>4, <2>5, <2>6, <2>7
\* No bar of an earlier interval changes.
<1>12. ASSUME NEW d, d.start \in Nat, d.start < f, WholeOf(d, bars, n - 1), n - 1 \in Nat
       PROVE  WholeOf(d, bars, n)
  <2>1. \A i \in ((n - 1) + 1)..n : FloorToInterval(bars[i].time) # d.start
    <3>1. \A i \in ((n - 1) + 1)..n : i = n
        BY <1>5
    <3> QED
        BY <1>2, <1>4, <1>8, <1>12, <3>1
  <2> QED
      BY <1>5, <1>12, <2>1, StaysWhole
<1>13. CASE c = NoBar /\ new.current = b /\ new.out = o
  <2>1. n - 1 = 0 /\ o = <<>>
      BY <1>3, <1>13 DEF WholeAt
  <2>2. \A i \in 1..(n - 1) : FloorToInterval(bars[i].time) # b.start
      BY <2>1
  <2>3. WholeOf(b, bars, n)
      BY <1>2, <1>9, <2>2, OpenedWhole
  <2>4. \A j \in DOMAIN o : FALSE
      BY <2>1
  <2> QED
      BY <1>2, <1>4, <1>7, <1>10, <1>13, <2>3, <2>4 DEF WholeAt
<1>14. CASE c # NoBar /\ f > c.start /\ new.current = b /\ new.out = Append(o, c)
  <2>1. \A i \in 1..(n - 1) : FloorToInterval(bars[i].time) # b.start
      BY <1>8, <1>10, <1>11, <1>14
  <2>2. WholeOf(b, bars, n)
      BY <1>2, <1>9, <2>1, OpenedWhole
  <2>3. PICK q : q = new.out
      OBVIOUS
  <2>4. \A j \in DOMAIN q : q[j] = c \/ \E i \in DOMAIN o : q[j] = o[i]
    <3>1. /\ q = Append(o, c) /\ Len(o) \in Nat /\ DOMAIN o = 1..Len(o)
          /\ DOMAIN q = 1..(Len(o) + 1) /\ q[Len(o) + 1] = c
          /\ \A i \in 1..Len(o) : q[i] = o[i]
        BY <1>5, <1>11, <1>14, <2>3
    <3> QED
        BY <3>1
  <2>5. WholeOf(c, bars, n)
      BY <1>11, <1>12, <1>14
  <2>6. \A i \in DOMAIN o : WholeOf(o[i], bars, n)
    <3>1. \A i \in DOMAIN o : o[i].start < f
        BY <1>11, <1>14
    <3> QED
        BY <1>11, <1>12, <1>14, <3>1
  <2>7. \A j \in DOMAIN q : WholeOf(q[j], bars, n)
      BY <2>4, <2>5, <2>6
  <2> QED
      BY <1>2, <1>4, <1>7, <1>10, <1>14, <2>2, <2>3, <2>7 DEF WholeAt
<1>15. CASE c # NoBar /\ ~(f > c.start) /\ new.current = Merged(c, rtb) /\ new.out = o
  <2>1. c.start = f
      BY <1>11, <1>15
  <2>2. PICK d : d = Merged(c, rtb)
      OBVIOUS
  <2>3. WholeOf(d, bars, n)
      BY <1>2, <1>4, <1>8, <1>11, <1>15, <2>1, <2>2, MergedWhole
  <2>4. d # NoBar
    <3>1. d.start = c.start /\ c.start # 0 /\ NoBar.start = 0
      <4>1. d.start = c.start
          BY <2>2 DEF Merged
      <4> QED
          BY <1>11, <1>15, <4>1, BarIs DEF NoBar
    <3> QED
        BY <3>1
  <2>5. \A j \in DOMAIN o : WholeOf(o[j], bars, n)
    <3>1. \A j \in DOMAIN o : o[j].start < f
        BY <1>11, <1>15, <2>1
    <3> QED
        BY <1>11, <1>12, <1>15, <3>1
  <2> QED
      BY <1>2, <1>4, <1>7, <1>15, <2>2, <2>3, <2>4, <2>5 DEF WholeAt
<1>16. ~(new.last = l)
    BY <1>4, <1>5, <1>6, <1>7
<1> QED
    BY <1>1, <1>4, <1>7, <1>8, <1>9, <1>13, <1>14, <1>15, <1>16 DEF FeedsTo

LEMMA ConsumedWhole ==
    ASSUME NEW s \in Streams, NEW m \in 0..MaxTime,
           NEW k \in Nat, k = seen[s], NEW z, z = BaseOf(s), AggOK(z, m),
           NEW bars \in Seq(Rtb), TillNow(bars, m), RisingTicks(bars), k <= Len(bars),
           WholeAt(z.last, z.current, z.out, bars, k),
           NEW a, a = Consumed(s, bars)
    PROVE  WholeAt(a.last, a.current, a.out, bars, Len(bars))
<1>1. PICK g : Table(k, z, bars, g) /\ Consumed(s, bars) = g[Len(bars)]
    BY ConsumedIs
<1>2. PICK n \in Nat : n = Len(bars)
    OBVIOUS
<1>3. a = g[n]
    BY <1>1, <1>2
<1>4. g[0] = z /\ \A i \in 1..n : g[i] = IF i <= k THEN z ELSE Feed(g[i - 1], bars[i])
    BY <1>1, <1>2 DEF Table
<1>5. \A i \in 1..n : i \in DOMAIN bars /\ bars[i] \in Rtb /\ bars[i].time <= m
    BY <1>2 DEF TillNow
<1>6. ~z.raised
    BY DEF BaseOf
<1> DEFINE T == {i \in 0..n : /\ AggOK(g[i], m) /\ ~g[i].raised
                              /\ i >= k => WholeAt(g[i].last, g[i].current, g[i].out, bars, i)}
<1>7. 0 \in T
  <2>1. 0 >= k => k = 0
      OBVIOUS
  <2> QED
      BY <1>4, <1>6, <2>1
<1>8. ASSUME NEW i \in 1..n, i - 1 \in T
      PROVE  i \in T
  <2>1. PICK h : h = g[i - 1]
      OBVIOUS
  <2>2. /\ AggOK(h, m) /\ ~h.raised /\ i \in 0..n /\ i \in DOMAIN bars
        /\ i - 1 >= k => WholeAt(h.last, h.current, h.out, bars, i - 1)
      BY <1>5, <1>8, <2>1
  <2>3. CASE i <= k
    <3>1. g[i] = z
        BY <1>4, <2>3
    <3>2. i >= k => i = k
        BY <2>3
    <3> QED
        BY <1>6, <2>2, <3>1, <3>2
  <2>4. CASE ~(i <= k)
    <3>1. PICK f : f = Feed(h, bars[i])
        OBVIOUS
    <3>2. g[i] = f
        BY <1>4, <2>1, <2>4, <3>1
    <3>3. AggOK(f, m)
        BY <1>5, <2>2, <3>1, FeedKeeps
    <3>4. i - 1 >= k
        BY <2>4
    <3>5. ~f.raised /\ WholeAt(f.last, f.current, f.out, bars, i)
        BY <2>2, <3>1, <3>4, WholeStep
    <3> QED
        BY <2>2, <3>2, <3>3, <3>5
  <2> QED
      BY <2>3, <2>4
<1>9. \A i \in 1..n : i - 1 \in T => i \in T
    BY <1>8
<1>10. n \in T
  <2>1. n \in 0..n
      BY <1>2
  <2> HIDE DEF T
  <2> QED
      BY <1>7, <1>9, <2>1, UpTo
<1> QED
    BY <1>2, <1>3, <1>10

\* The bars that are closed already stay whole while the list is consumed.
LEMMA QueueWhole ==
    ASSUME NEW m \in 0..MaxTime, NEW l, NEW c, NEW o, AggIs(l, c, o, m),
           NEW bars \in Seq(Rtb), RisingTicks(bars), NEW k \in Nat, k <= Len(bars),
           WholeAt(l, c, o, bars, k)
    PROVE  \A j \in DOMAIN o : WholeOf(o[j], bars, Len(bars))
<1>1. PICK n \in Nat : n = Len(bars) /\ DOMAIN bars = 1..n
    OBVIOUS
<1>2. CASE o = <<>>
  <2>1. DOMAIN o = {}
      BY <1>2
  <2> QED
      BY <2>1
<1>3. CASE k \in DOMAIN bars /\ l = bars[k].time /\ c # NoBar
  <2>1. l \in 0..MaxTime /\ c \in Bar \cup {NoBar} /\ o \in Seq(Bar)
      BY DEF AggIs
  <2>2. l > 0 /\ c.start = FloorToInterval(l) /\ \A j \in DOMAIN o : o[j].start < c.start
      BY <1>3 DEF AggIs, BarsRise
  <2>3. SUFFICES ASSUME NEW j \in DOMAIN o
                 PROVE  WholeOf(o[j], bars, n)
      BY <1>1
  <2>4. PICK d \in Bar : d = o[j]
      BY <2>1
  <2>5. d.start \in Nat /\ d.start < c.start
      BY <2>2, <2>4, BarIs
  <2>6. WholeOf(d, bars, k)
    <3>1. k > 0
        BY <1>1, <1>3
    <3> QED
        BY <2>4, <3>1 DEF WholeAt
  <2>7. ASSUME NEW i \in (k + 1)..n
        PROVE  FloorToInterval(bars[i].time) # d.start
    <3>1. i \in DOMAIN bars /\ k <= i
        BY <1>1
    <3>2. /\ FloorToInterval(bars[k].time) \in Nat /\ FloorToInterval(bars[i].time) \in Nat
          /\ FloorToInterval(bars[k].time) <= FloorToInterval(bars[i].time)
        BY <1>3, <3>1, FloorsRise
    <3> QED
        BY <1>3, <2>2, <2>5, <3>2
  <2>8. WholeOf(d, bars, n)
      BY <1>1, <2>6, <2>7, StaysWhole
  <2> QED
      BY <2>4, <2>8
<1> QED
    BY <1>2, <1>3 DEF WholeAt

(***************************************************************************)
(* The invariant: while a client has one subscription only, its handler    *)
(* has made whole bars of what it has seen of its list.                    *)
(***************************************************************************)
OneOpen == ~shared => \A s, t \in open : s = t

Fresh ==
    \A s \in Streams : s \notin open =>
        /\ list[s] = <<>> /\ closed[s] = <<>>
        /\ seen[s] = 0 /\ last[s] = 0 /\ current[s] = NoBar

ListsRise == \A s \in Streams : RisingTicks(list[s])

HandlersWhole ==
    ~shared => \A s \in open :
        /\ seen[s] \in Nat /\ seen[s] <= Len(list[s])
        /\ WholeAt(last[s], current[s], closed[s], list[s], seen[s])

WholeInv == OneOpen /\ Fresh /\ ListsRise /\ HandlersWhole

LEMMA WholeStart == ASSUME Init PROVE WholeInv
<1>1. PICK z : z = <<>>
    OBVIOUS
<1>2. DOMAIN z = {}
    BY <1>1
<1>3. /\ open = {} /\ shared = FALSE
      /\ list = [s \in Streams |-> z] /\ closed = [s \in Streams |-> z]
      /\ seen = [s \in Streams |-> 0] /\ last = [s \in Streams |-> 0]
      /\ current = [s \in Streams |-> NoBar]
    BY <1>1 DEF Init, ForEach
<1>4. Fresh
    BY <1>1, <1>3 DEF Fresh
<1>5. ListsRise
    BY <1>2, <1>3 DEF ListsRise, RisingTicks
<1>6. OneOpen /\ HandlersWhole
    BY <1>3 DEF OneOpen, HandlersWhole
<1> QED
    BY <1>4, <1>5, <1>6 DEF WholeInv

LEMMA SubscribeWhole ==
    ASSUME BarsInv, WholeInv, NEW s \in Streams, Subscribe(s)
    PROVE  WholeInv'
<1>1. /\ s \notin open /\ open' = open \cup {s} /\ shared' = (shared \/ open # {})
      /\ UNCHANGED <<now, connects, list, seen, last, current, closed, delivered>>
    BY DEF Subscribe
<1>2. ListsRise' /\ Fresh'
    BY <1>1 DEF WholeInv, ListsRise, Fresh
<1>3. ~shared' => ~shared /\ open' = {s}
    BY <1>1
<1>4. OneOpen'
    BY <1>3 DEF OneOpen
<1>5. PICK z : z = <<>> /\ Len(z) = 0
    OBVIOUS
<1>6. /\ list[s] = z /\ closed[s] = <<>> /\ seen[s] = 0 /\ last[s] = 0 /\ current[s] = NoBar
    BY <1>1, <1>5 DEF WholeInv, Fresh
<1>7. seen[s] \in Nat /\ seen[s] <= Len(list[s])
    BY <1>5, <1>6
<1>8. WholeAt(last[s], current[s], closed[s], list[s], seen[s])
    BY <1>6 DEF WholeAt
<1>9. HandlersWhole'
    BY <1>1, <1>3, <1>7, <1>8 DEF HandlersWhole
<1> QED
    BY <1>2, <1>4, <1>9 DEF WholeInv

LEMMA ReconnectWhole ==
    ASSUME BarsInv, WholeInv, ConnectAgain
    PROVE  WholeInv'
<1>1. PICK z : z = <<>>
    OBVIOUS
<1>2. DOMAIN z = {}
    BY <1>1
<1>3. /\ open' = {} /\ shared' = FALSE
      /\ list' = [s \in Streams |-> z] /\ closed' = [s \in Streams |-> z]
      /\ seen' = [s \in Streams |-> 0] /\ last' = [s \in Streams |-> 0]
      /\ current' = [s \in Streams |-> NoBar]
    BY <1>1 DEF ConnectAgain, ForEach
<1>4. Fresh'
    BY <1>1, <1>3 DEF Fresh
<1>5. ListsRise'
    BY <1>2, <1>3 DEF ListsRise, RisingTicks
<1>6. OneOpen' /\ HandlersWhole'
    BY <1>3 DEF OneOpen, HandlersWhole
<1> QED
    BY <1>4, <1>5, <1>6 DEF WholeInv

\* What has been made of a list stays so when the list grows.
LEMMA WholeAtSame ==
    ASSUME NEW l, NEW c, NEW o, NEW bars \in Seq(Rtb), NEW i \in Nat, WholeAt(l, c, o, bars, i),
           NEW r \in Rtb, NEW longer, longer = Append(bars, r)
    PROVE  WholeAt(l, c, o, longer, i)
<1>1. /\ Len(bars) \in Nat /\ DOMAIN bars = 1..Len(bars) /\ DOMAIN longer = 1..(Len(bars) + 1)
      /\ \A j \in DOMAIN bars : longer[j] = bars[j]
    OBVIOUS
<1>2. CASE i \in DOMAIN bars
  <2>1. \A j \in 1..i : longer[j] = bars[j]
      BY <1>1, <1>2
  <2>2. i \in DOMAIN longer /\ longer[i] = bars[i] /\ i # 0
      BY <1>1, <1>2
  <2>3. l = bars[i].time /\ c # NoBar /\ WholeOf(c, bars, i)
        /\ \A j \in DOMAIN o : WholeOf(o[j], bars, i)
      BY <2>2 DEF WholeAt
  <2>4. WholeOf(c, longer, i) /\ \A j \in DOMAIN o : WholeOf(o[j], longer, i)
      BY <2>1, <2>3, WholeOfSame
  <2> QED
      BY <2>2, <2>3, <2>4 DEF WholeAt
<1>3. CASE i \notin DOMAIN bars
    BY <1>3 DEF WholeAt
<1> QED
    BY <1>2, <1>3

LEMMA TradeWhole ==
    ASSUME BarsInv, WholeInv, NEW price \in Prices, Trade(price)
    PROVE  WholeInv'
<1>1. PICK rtb : rtb = [time |-> now + 1, close |-> price]
    OBVIOUS
<1>2. /\ now < MaxTime /\ now' = now + 1
      /\ list' = [s \in Streams |-> IF s \in open THEN Append(list[s], rtb) ELSE list[s]]
      /\ UNCHANGED <<connects, open, seen, last, current, closed, delivered, shared>>
    BY <1>1 DEF Trade
<1>3. now \in Nat /\ MaxTime \in Nat /\ now + 1 \in 1..MaxTime
    BY <1>2, BarFeedAssumption DEF BarsInv, BarsTypes
<1>4. rtb \in Rtb /\ rtb.time = now + 1
    BY <1>1, <1>3 DEF Rtb
<1>5. \A s \in Streams : list[s] \in Seq(Rtb) /\ TillNow(list[s], now) /\ RisingTicks(list[s])
    BY DEF BarsInv, StreamsOK, ListIs, WholeInv, ListsRise
<1>6. Fresh'
    BY <1>2 DEF WholeInv, Fresh
<1>7. OneOpen'
    BY <1>2 DEF WholeInv, OneOpen
<1>8. ListsRise'
  <2>1. SUFFICES ASSUME NEW s \in Streams
                 PROVE  RisingTicks(list'[s])
      BY DEF ListsRise
  <2>2. PICK l \in Seq(Rtb) : l = list[s] /\ TillNow(l, now) /\ RisingTicks(l)
      BY <1>5
  <2>3. PICK p : p = Append(l, rtb)
      OBVIOUS
  <2>4. /\ DOMAIN l = 1..Len(l) /\ Len(l) \in Nat /\ DOMAIN p = 1..(Len(l) + 1)
        /\ p[Len(l) + 1] = rtb /\ \A i \in DOMAIN l : p[i] = l[i] /\ l[i].time \in Nat
    <3>1. \A i \in DOMAIN l : l[i] \in Rtb
        BY <2>2
    <3>2. \A r \in Rtb : r.time \in Nat
        BY DEF Rtb
    <3> QED
        BY <1>4, <2>2, <2>3, <3>1, <3>2
  <2>5. \A i \in DOMAIN l : l[i].time < now + 1
      BY <1>3, <2>2, <2>4 DEF TillNow
  <2>6. RisingTicks(p)
    <3>1. SUFFICES ASSUME NEW i \in DOMAIN p, NEW j \in DOMAIN p, i < j
                   PROVE  p[i].time < p[j].time
        BY DEF RisingTicks
    <3>2. i \in DOMAIN l
        BY <2>4, <3>1
    <3>3. CASE j \in DOMAIN l
        BY <2>2, <2>4, <3>1, <3>2, <3>3 DEF RisingTicks
    <3>4. CASE j = Len(l) + 1
        BY <1>4, <2>4, <2>5, <3>2, <3>4
    <3> QED
        BY <2>4, <3>3, <3>4
  <2> QED
      BY <1>2, <2>2, <2>3, <2>6
<1>9. HandlersWhole'
  <2>1. SUFFICES ASSUME ~shared, NEW s \in open
                 PROVE  /\ seen[s] \in Nat /\ seen[s] <= Len(list'[s])
                        /\ WholeAt(last[s], current[s], closed[s], list'[s], seen[s])
      BY <1>2 DEF HandlersWhole
  <2>2. s \in Streams
      BY DEF BarsInv, BarsTypes
  <2>3. PICK l \in Seq(Rtb) : l = list[s]
      BY <1>5, <2>2
  <2>4. PICK i \in Nat : i = seen[s] /\ i <= Len(l)
      BY <2>1, <2>3 DEF WholeInv, HandlersWhole
  <2>5. WholeAt(last[s], current[s], closed[s], l, i)
      BY <2>1, <2>3, <2>4 DEF WholeInv, HandlersWhole
  <2>6. PICK p : p = Append(l, rtb)
      OBVIOUS
  <2>7. list'[s] = p /\ Len(p) = Len(l) + 1 /\ Len(l) \in Nat
      BY <1>2, <1>4, <2>2, <2>3, <2>6
  <2>8. WholeAt(last[s], current[s], closed[s], p, i)
      BY <1>4, <2>5, <2>6, WholeAtSame
  <2> QED
      BY <2>4, <2>7, <2>8
<1> QED
    BY <1>6, <1>7, <1>8, <1>9 DEF WholeInv

LEMMA DeliverWhole ==
    ASSUME BarsInv, WholeInv, NEW s \in Streams, Deliver(s)
    PROVE  WholeInv'
<1>1. PICK o \in Seq(Bar) : o = closed[s]
    BY DEF BarsInv, BarsTypes
<1>2. PICK q : q = Tail(o)
    OBVIOUS
<1>3. /\ o # <<>> /\ closed' = [closed EXCEPT ![s] = q]
      /\ UNCHANGED <<now, connects, list, open, seen, last, current, shared>>
    BY <1>1, <1>2 DEF Deliver
<1>4. \A i \in DOMAIN q : i + 1 \in DOMAIN o /\ q[i] = o[i + 1]
    BY <1>1, <1>2, <1>3
<1>5. closed'[s] = q /\ \A t \in Streams : t # s => closed'[t] = closed[t]
    BY <1>3 DEF BarsInv, BarsTypes
<1>6. s \in open
    BY <1>1, <1>3 DEF WholeInv, Fresh
<1>7. Fresh' /\ OneOpen' /\ ListsRise'
    BY <1>3, <1>5, <1>6 DEF WholeInv, Fresh, OneOpen, ListsRise
<1>8. HandlersWhole'
  <2>1. SUFFICES ASSUME ~shared, NEW t \in open
                 PROVE  /\ seen[t] \in Nat /\ seen[t] <= Len(list[t])
                        /\ WholeAt(last[t], current[t], closed'[t], list[t], seen[t])
      BY <1>3 DEF HandlersWhole
  <2>2. /\ seen[t] \in Nat /\ seen[t] <= Len(list[t])
        /\ WholeAt(last[t], current[t], closed[t], list[t], seen[t])
      BY <2>1 DEF WholeInv, HandlersWhole
  <2>3. CASE t = s
    <3>1. WholeAt(last[s], current[s], o, list[s], seen[s])
        BY <1>1, <2>2, <2>3
    <3>2. WholeAt(last[s], current[s], q, list[s], seen[s])
        BY <1>3, <1>4, <3>1 DEF WholeAt
    <3> QED
        BY <1>5, <2>2, <2>3, <3>2
  <2>4. CASE t # s
    <3>1. t \in Streams
        BY DEF BarsInv, BarsTypes
    <3> QED
        BY <1>5, <2>2, <2>4, <3>1
  <2> QED
      BY <2>3, <2>4
<1> QED
    BY <1>7, <1>8 DEF WholeInv

\* The only handler of a client takes an update of its own list.
LEMMA UpdateWhole ==
    ASSUME BarsInv, WholeInv, NEW t \in Streams, OnBarUpdate(t)
    PROVE  WholeInv'
<1>1. /\ t \in open /\ UNCHANGED <<now, connects, list, open, delivered, shared>>
    BY DEF OnBarUpdate
<1>2. Fresh'
  <2>1. \A s \in Streams : s \notin open =>
            /\ last'[s] = last[s] /\ current'[s] = current[s] /\ closed'[s] = closed[s]
            /\ seen'[s] = seen[s]
      BY DEF OnBarUpdate
  <2> QED
      BY <1>1, <2>1 DEF WholeInv, Fresh
<1>3. OneOpen' /\ ListsRise'
    BY <1>1 DEF WholeInv, OneOpen, ListsRise
<1>4. ASSUME ~shared
      PROVE  /\ seen'[t] \in Nat /\ seen'[t] <= Len(list[t])
             /\ WholeAt(last'[t], current'[t], closed'[t], list[t], seen'[t])
  <2>1. PICK bars \in Seq(Rtb) : bars = list[t] /\ TillNow(bars, now) /\ RisingTicks(bars)
      BY DEF BarsInv, StreamsOK, ListIs, WholeInv, ListsRise
  <2>2. PICK n \in Nat : n = Len(bars)
      BY <2>1
  <2>3. PICK a : a = Consumed(t, bars)
      OBVIOUS
  <2>4. PICK l, c, o : l = last[t] /\ c = current[t] /\ o = closed[t]
      OBVIOUS
  <2>5. /\ last'[t] = a.last /\ current'[t] = a.current /\ closed'[t] = o \o a.out
        /\ seen'[t] = n
      BY <1>1, <2>1, <2>2, <2>3, <2>4 DEF OnBarUpdate
  <2>6. PICK k \in Nat : k = seen[t] /\ k <= n /\ WholeAt(l, c, o, bars, k)
      BY <1>1, <1>4, <2>1, <2>2, <2>4 DEF WholeInv, HandlersWhole
  <2>7. AggIs(l, c, o, now) /\ now \in 0..MaxTime
      BY <2>4 DEF BarsInv, BarsTypes, StreamsOK
  <2>8. PICK e : e = <<>>
      OBVIOUS
  <2>9. e \in Seq(Bar) /\ DOMAIN e = {}
      BY <2>8
  <2>10. PICK z : z = BaseOf(t)
      OBVIOUS
  <2>11. z = [last |-> l, current |-> c, out |-> e, raised |-> FALSE]
      BY <2>4, <2>8, <2>10 DEF BaseOf
  <2>12. z.last = l /\ z.current = c /\ z.out = e /\ z \in Aggs
      BY <2>7, <2>9, <2>11 DEF Aggs, AggIs
  <2>13. AggOK(z, now)
    <3>1. AggIs(l, c, e, now)
        BY <2>7, <2>8, <2>9 DEF AggIs, BarsRise
    <3> QED
        BY <2>12, <3>1 DEF AggOK
  <2>14. WholeAt(z.last, z.current, z.out, bars, k)
    <3>1. WholeAt(l, c, e, bars, k)
        BY <2>6, <2>8, <2>9 DEF WholeAt
    <3> QED
        BY <2>12, <3>1
  <2>15. WholeAt(a.last, a.current, a.out, bars, n)
      BY <2>1, <2>2, <2>3, <2>6, <2>7, <2>10, <2>13, <2>14, ConsumedWhole
  <2>16. \A j \in DOMAIN o : WholeOf(o[j], bars, n)
      BY <2>1, <2>2, <2>6, <2>7, QueueWhole
  <2>17. AggOK(a, now)
      BY <2>1, <2>3, <2>6, <2>7, <2>10, <2>13, ConsumedKeeps
  <2>18. PICK p : p = o \o a.out
      OBVIOUS
  <2>19. \A j \in DOMAIN p : WholeOf(p[j], bars, n) \/ a.current = NoBar
    <3>1. PICK w : w = a.out
        OBVIOUS
    <3>2. o \in Seq(Bar) /\ w \in Seq(Bar)
        BY <2>7, <2>17, <3>1 DEF AggOK, AggIs
    <3>3. JoinOf(Bar, o, w, p)
        BY <2>18, <3>1, <3>2, JoinIs
    <3>4. a.current = NoBar \/ \A j \in DOMAIN w : WholeOf(w[j], bars, n)
        BY <2>15, <3>1 DEF WholeAt
    <3>5. \A j \in DOMAIN p :
            (\E i \in DOMAIN o : p[j] = o[i]) \/ (\E i \in DOMAIN w : p[j] = w[i])
      <4>1. SUFFICES ASSUME NEW j \in DOMAIN p
                     PROVE  (\E i \in DOMAIN o : p[j] = o[i]) \/ (\E i \in DOMAIN w : p[j] = w[i])
          OBVIOUS
      <4>2. /\ Len(o) \in Nat /\ DOMAIN p = 1..Len(p) /\ Len(p) = Len(o) + Len(w) /\ Len(w) \in Nat
            /\ \A i \in DOMAIN o : p[i] = o[i]
            /\ \A i \in DOMAIN w : p[i + Len(o)] = w[i]
            /\ j \in DOMAIN o \/ j - Len(o) \in DOMAIN w
          BY <3>3 DEF JoinOf
      <4>3. j \in Nat /\ (j - Len(o)) + Len(o) = j
          BY <4>2
      <4> QED
          BY <4>2, <4>3
    <3> QED
        BY <2>16, <3>4, <3>5
  <2>20. WholeAt(a.last, a.current, p, bars, n)
    <3>1. CASE a.current # NoBar
        BY <2>15, <2>19, <3>1 DEF WholeAt
    <3>2. CASE a.current = NoBar
      <4>1. n = 0 /\ a.last = 0 /\ a.out = <<>>
          BY <2>15, <3>2 DEF WholeAt
      <4>2. k = 0 /\ DOMAIN bars = {}
        <5>1. k = 0 /\ Len(bars) = 0
            BY <2>2, <2>6, <4>1
        <5>2. DOMAIN bars = 1..Len(bars)
            OBVIOUS
        <5> QED
            BY <5>1, <5>2
      <4>3. o = <<>>
          BY <2>6, <4>2 DEF WholeAt
      <4>4. p = <<>>
          BY <2>18, <4>1, <4>3
      <4> QED
          BY <3>2, <4>1, <4>4 DEF WholeAt
    <3> QED
        BY <3>1, <3>2
  <2> QED
      BY <2>1, <2>2, <2>5, <2>18, <2>20
<1>5. HandlersWhole'
  <2>1. ~shared => \A s \in open : s = t
      BY <1>1 DEF WholeInv, OneOpen
  <2> QED
      BY <1>1, <1>4, <2>1 DEF HandlersWhole
<1> QED
    BY <1>2, <1>3, <1>5 DEF WholeInv

LEMMA WholeInvHolds == Spec => [](BarsInv /\ WholeInv)
<1>1. Init => BarsInv /\ WholeInv
    BY BarsStart, WholeStart
<1>2. BarsInv /\ WholeInv /\ [Next]_feedVars => BarsInv' /\ WholeInv'
  <2>1. SUFFICES ASSUME BarsInv, WholeInv, [Next]_feedVars PROVE WholeInv'
      BY BarsStep
  <2>2. ASSUME NEW s \in Streams, Subscribe(s) PROVE WholeInv'
      BY <2>1, <2>2, SubscribeWhole
  <2>3. ASSUME NEW s \in Streams, OnBarUpdate(s) PROVE WholeInv'
      BY <2>1, <2>3, UpdateWhole
  <2>4. ASSUME NEW s \in Streams, Deliver(s) PROVE WholeInv'
      BY <2>1, <2>4, DeliverWhole
  <2>5. ASSUME NEW price \in Prices, Trade(price) PROVE WholeInv'
      BY <2>1, <2>5, TradeWhole
  <2>6. CASE ConnectAgain
      BY <2>1, <2>6, ReconnectWhole
  <2>7. CASE UNCHANGED feedVars
      BY <2>1, <2>7 DEF feedVars, WholeInv, OneOpen, Fresh, ListsRise, HandlersWhole
  <2> QED
      BY <2>1, <2>2, <2>3, <2>4, <2>5, <2>6, <2>7 DEF Next
<1> QED
    BY <1>1, <1>2, PTL DEF Spec

LEMMA WholeIs ==
    ASSUME NEW bars \in Seq(Rtb), NEW n \in DOMAIN bars,
           NEW b, WholeOf(b, bars, n),
           NEW T, T = TicksOf(b.start, bars, n), NEW P, P = PricesOf(bars, T)
    PROVE  IsBarOf(b, bars, T, P)
<1>1. MadeOf(b, bars, T)
    BY DEF WholeOf
<1>2. T \subseteq DOMAIN bars
  <2>1. DOMAIN bars = 1..Len(bars) /\ Len(bars) \in Nat
      OBVIOUS
  <2>2. T \subseteq 1..n
      BY <2>1, TicksAre
  <2> QED
      BY <2>1, <2>2
<1> QED
    BY <1>1, <1>2, MadeOfIs

\* Every bar, closed or in the making, is made of all the ticks of its interval
\* that have been consumed, however late the updates come, as long as a client
\* has one subscription (live_ib.py 66-139, aggregator.py 53-110).
THEOREM BarsStayWhole == Spec => []BarsAreWhole
<1>1. ASSUME BarsInv, WholeInv, NEW s \in open, ~shared, current[s] # NoBar
      PROVE  /\ seen[s] \in DOMAIN list[s] /\ last[s] = list[s][seen[s]].time
             /\ current[s].start = FloorToInterval(last[s])
             /\ WholeOf(current[s], list[s], seen[s])
             /\ \A k \in DOMAIN closed[s] : WholeOf(closed[s][k], list[s], seen[s])
  <2>1. s \in Streams
      BY <1>1 DEF BarsInv, BarsTypes
  <2>2. WholeAt(last[s], current[s], closed[s], list[s], seen[s])
      BY <1>1 DEF WholeInv, HandlersWhole
  <2>3. current[s].start = FloorToInterval(last[s])
      BY <1>1, <2>1 DEF BarsInv, StreamsOK, AggIs
  <2> QED
      BY <1>1, <2>2, <2>3 DEF WholeAt
<1>2. ASSUME BarsInv, WholeInv, NEW s \in open, ~shared, current[s] # NoBar,
             NEW b, WholeOf(b, list[s], seen[s])
      PROVE  IsBarOf(b, list[s], TicksOf(b.start, list[s], seen[s]),
                     PricesOf(list[s], TicksOf(b.start, list[s], seen[s])))
  <2>1. list[s] \in Seq(Rtb)
      BY <1>2 DEF BarsInv, BarsTypes
  <2>2. PICK bars \in Seq(Rtb) : bars = list[s]
      BY <2>1
  <2>3. PICK n \in DOMAIN bars : n = seen[s]
      BY <1>1, <1>2, <2>2
  <2>4. PICK T, P : T = TicksOf(b.start, bars, n) /\ P = PricesOf(bars, T)
      OBVIOUS
  <2>5. IsBarOf(b, bars, T, P)
      BY <1>2, <2>2, <2>3, <2>4, WholeIs
  <2> QED
      BY <2>2, <2>3, <2>4, <2>5
<1>3. ASSUME BarsInv, WholeInv PROVE BarsAreWhole
  <2>1. SUFFICES ASSUME NEW s \in open, ~shared, current[s] # NoBar
                 PROVE
        LET Tick(i) == list[s][i]
            Whole(bar) ==
                LET ticks == {i \in 1..seen[s] : FloorToInterval(Tick(i).time) = bar.start}
                    prices == {Tick(i).close : i \in ticks}
                IN /\ bar.volume = Cardinality(ticks)
                   /\ bar.open = Tick(Min(ticks)).close
                   /\ bar.close = Tick(Max(ticks)).close
                   /\ bar.high = Max(prices) /\ bar.low = Min(prices)
        IN /\ seen[s] \in DOMAIN list[s] /\ last[s] = Tick(seen[s]).time
           /\ current[s].start = FloorToInterval(last[s]) /\ Whole(current[s])
           /\ \A k \in DOMAIN closed[s] : Whole(closed[s][k])
      BY DEF BarsAreWhole
  <2> DEFINE T(b) == TicksOf(b.start, list[s], seen[s])
  <2>2. IsBarOf(current[s], list[s], T(current[s]), PricesOf(list[s], T(current[s])))
      BY <1>1, <1>2, <1>3, <2>1
  <2>3. ASSUME NEW k \in DOMAIN closed[s]
        PROVE  IsBarOf(closed[s][k], list[s], T(closed[s][k]), PricesOf(list[s], T(closed[s][k])))
      BY <1>1, <1>2, <1>3, <2>1
  <2>4. /\ seen[s] \in DOMAIN list[s] /\ last[s] = list[s][seen[s]].time
        /\ current[s].start = FloorToInterval(last[s])
      BY <1>1, <1>3, <2>1
  <2> QED
      BY <2>2, <2>3, <2>4, Zenon DEF IsBarOf, PricesOf, TicksOf
<1>4. Spec => [](BarsInv /\ WholeInv)
    BY WholeInvHolds
<1> QED
    BY <1>3, <1>4, PTL
=============================================================================
