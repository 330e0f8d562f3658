--------------------------- MODULE Conditions_proofs ---------------------------
(***************************************************************************)
(* What the evaluators of the condition language have in common, proved    *)
(* for every condition, all evidence and numbers of any length: comparing  *)
(* digits is comparing rationals, a verdict is what the condition says,    *)
(* and it stands when observations are added.                              *)
(*                                                                         *)
(* The functions that read digits, take powers of ten and walk down a      *)
(* condition are recursive.  That they exist is proved where they are      *)
(* used; a condition is walked along Height.                               *)
(***************************************************************************)
EXTENDS Conditions, SequenceTheorems, WellFoundedInduction, TLAPS

-----------------------------------------------------------------------------
(* Induction and recursion. *)

LEMMA OrderOfNat == \E Less : /\ IsWellFoundedOn(Less, Nat)
                               /\ \A x, y \in Nat : y < x => <<y, x>> \in Less
<1>1. \A x, y \in Nat : y < x => <<y, x>> \in OpToRel(<, Nat)
  BY DEF OpToRel
<1>. QED
  BY <1>1, NatLessThanWellFounded, Zenon

(* What holds of a number if it holds of all smaller ones holds of all. *)
LEMMA CourseOfValues ==
    ASSUME NEW T \in SUBSET Nat,
           \A n \in Nat : (\A m \in Nat : m < n => m \in T) => n \in T
    PROVE  T = Nat
<1> DEFINE U == Nat \ T
<1>1. SUFFICES ASSUME U # {} PROVE FALSE
  OBVIOUS
<1>2. PICK Less : /\ IsWellFoundedOn(Less, Nat)
                  /\ \A x, y \in Nat : y < x => <<y, x>> \in Less
  BY OrderOfNat
<1>3. PICK x \in U : \A y \in U : ~(<<y, x>> \in Less)
  <2>1. U \subseteq Nat
    OBVIOUS
  <2> HIDE DEF U
  <2>. QED
    BY <1>1, <1>2, <2>1, WFMin
<1>4. \A m \in Nat : m < x => m \in T
  BY <1>2, <1>3
<1>. QED
  BY <1>3, <1>4

(* Induction up to n. *)
LEMMA UpTo ==
    ASSUME NEW n \in Nat, NEW T, 0 \in T, \A k \in 1..n : k - 1 \in T => k \in T
    PROVE  \A k \in 0..n : k \in T
<1> DEFINE U == {k \in Nat : k \in 0..n => k \in T}
<1>1. ASSUME NEW k \in Nat, \A m \in Nat : m < k => m \in U
      PROVE  k \in U
  <2>1. k \in 0..n /\ k # 0 => k \in 1..n /\ k - 1 \in Nat /\ k - 1 < k /\ k - 1 \in 0..n
    OBVIOUS
  <2>. QED
    BY <1>1, <2>1
<1>2. U = Nat
  <2> HIDE DEF U
  <2>1. U \in SUBSET Nat
    BY DEF U
  <2>. QED
    BY <1>1, <2>1, CourseOfValues
<1>. QED
  BY <1>2

(* One step of a recursion on D looks only at what has a smaller measure. *)
Descends(D, h, V, step) ==
    /\ h \in [D -> Nat]
    /\ V # {}
    /\ step \in [[D -> V] -> [D -> V]]
    /\ \A f, g \in [D -> V] : \A d \in D :
          (\A e \in D : h[e] < h[d] => f[e] = g[e]) => step[f][d] = step[g][d]

(* A recursion along a measure has a solution. *)
LEMMA Recursion ==
    ASSUME NEW D, NEW h, NEW V, NEW step, Descends(D, h, V, step)
    PROVE  \E f \in [D -> V] : f = step[f]
<1>. PICK v : v \in V
  BY DEF Descends
<1>. /\ h \in [D -> Nat]
     /\ step \in [[D -> V] -> [D -> V]]
     /\ \A f, g \in [D -> V] : \A d \in D :
          (\A e \in D : h[e] < h[d] => f[e] = g[e]) => step[f][d] = step[g][d]
  BY DEF Descends
<1> DEFINE Good(f, n) == \A d \in D : h[d] < n => f[d] = step[f][d]
<1>1. \A n \in Nat : \E f \in [D -> V] : Good(f, n)
  <2> DEFINE T == {n \in Nat : \E f \in [D -> V] : Good(f, n)}
  <2>1. ASSUME NEW n \in Nat, \A m \in Nat : m < n => m \in T
        PROVE  n \in T
    <3>1. CASE n = 0
      <4>1. [d \in D |-> v] \in [D -> V]
        OBVIOUS
      <4>2. \A d \in D : ~(h[d] < 0)
        OBVIOUS
      <4>. QED
        BY <3>1, <4>1, <4>2
    <3>2. CASE n # 0
      <4>1. n - 1 \in Nat /\ n - 1 < n
        BY <3>2
      <4>2. PICK f \in [D -> V] : Good(f, n - 1)
        BY <2>1, <4>1
      <4>3. step[f] \in [D -> V]
        OBVIOUS
      <4>4. ASSUME NEW d \in D, h[d] < n
            PROVE  step[f][d] = step[step[f]][d]
        <5>1. \A e \in D : h[e] < h[d] => h[e] < n - 1
          BY <4>4
        <5>2. \A e \in D : h[e] < h[d] => f[e] = step[f][e]
          BY <4>2, <5>1
        <5>. QED
          BY <4>3, <5>2
      <4>. QED
        BY <4>3, <4>4
    <3>. QED
      BY <3>1, <3>2
  <2>2. T \in SUBSET Nat
    OBVIOUS
  <2>3. T = Nat
    <3> HIDE DEF T
    <3>. QED
      BY <2>1, <2>2, CourseOfValues
  <2>. QED
    BY <2>3
<1>2. ASSUME NEW n \in Nat, NEW f \in [D -> V], NEW g \in [D -> V], Good(f, n), Good(g, n)
      PROVE  \A d \in D : h[d] < n => f[d] = g[d]
  <2> DEFINE T == {k \in Nat : \A d \in D : h[d] = k /\ k < n => f[d] = g[d]}
  <2>1. ASSUME NEW k \in Nat, \A m \in Nat : m < k => m \in T
        PROVE  k \in T
    <3> SUFFICES ASSUME NEW d \in D, h[d] = k, k < n PROVE f[d] = g[d]
      OBVIOUS
    <3>1. \A e \in D : h[e] < h[d] => f[e] = g[e]
      BY <2>1
    <3>2. step[f][d] = step[g][d]
      BY <3>1
    <3>. QED
      BY <1>2, <3>2
  <2>2. T \in SUBSET Nat
    OBVIOUS
  <2>3. T = Nat
    <3> HIDE DEF T
    <3>. QED
      BY <2>1, <2>2, CourseOfValues
  <2>. QED
    BY <2>3
<1> DEFINE A(n) == CHOOSE f \in [D -> V] : Good(f, n)
           F == [d \in D |-> A(h[d] + 1)[d]]
<1>3. \A n \in Nat : A(n) \in [D -> V] /\ Good(A(n), n)
  BY <1>1
<1> HIDE DEF A, Good
<1>4. F \in [D -> V]
  <2>1. \A d \in D : h[d] + 1 \in Nat
    OBVIOUS
  <2>. QED
    BY <1>3, <2>1
<1>5. ASSUME NEW d \in D
      PROVE  F[d] = step[F][d]
  <2> DEFINE n == h[d] + 1
  <2>1. n \in Nat /\ h[d] < n /\ A(n) \in [D -> V] /\ Good(A(n), n)
    BY <1>3
  <2>2. ASSUME NEW e \in D, h[e] < h[d]
        PROVE  F[e] = A(n)[e]
    <3> DEFINE m == h[e] + 1
    <3>1. m \in Nat /\ h[e] < m /\ A(m) \in [D -> V] /\ Good(A(m), m)
      BY <1>3
    <3>2. Good(A(n), m)
      BY <2>1, <2>2, <3>1 DEF Good
    <3>3. A(m)[e] = A(n)[e]
      BY <1>2, <2>1, <3>1, <3>2
    <3>. QED
      BY <3>3
  <2>3. F[d] = A(n)[d]
    OBVIOUS
  <2>4. step[F][d] = step[A(n)][d]
    BY <1>4, <2>1, <2>2
  <2> HIDE DEF F, n
  <2>. QED
    BY <2>1, <2>3, <2>4 DEF Good
<1>. QED
  <2> HIDE DEF F
  <2>1. step[F] \in [D -> V]
    BY <1>4
  <2>. QED
    BY <1>4, <1>5, <2>1

-----------------------------------------------------------------------------
(* Digits and numbers. *)

Digits == Seq(0..9)

(* The numbers 0, ..., k, or all of them. *)
Initial(D) == D \in SUBSET Nat /\ \A n \in D : n # 0 => n - 1 \in D

Appends(f, D, a, c) == f = [n \in D |-> IF n = 0 THEN a ELSE 10 * f[n - 1] + c[n]]

(* One digit after the other: such a function exists, and it is one of     *)
(* naturals.                                                               *)
LEMMA AppendingDigits ==
    ASSUME NEW D, Initial(D), NEW a \in Nat, NEW c, \A n \in D : n # 0 => c[n] \in Nat
    PROVE  /\ \E f : Appends(f, D, a, c)
           /\ \A f : Appends(f, D, a, c) => f \in [D -> Nat]
<1> DEFINE h == [n \in D |-> n]
           Body(f) == [n \in D |-> IF n = 0 THEN a ELSE 10 * f[n - 1] + c[n]]
           step == [f \in [D -> Nat] |-> Body(f)]
<1>. D \in SUBSET Nat /\ \A n \in D : n # 0 => n - 1 \in D
  BY DEF Initial
<1>1. ASSUME NEW f \in [D -> Nat] PROVE step[f] = Body(f) /\ Body(f) \in [D -> Nat]
  <2>1. ASSUME NEW n \in D PROVE (IF n = 0 THEN a ELSE 10 * f[n - 1] + c[n]) \in Nat
    <3>1. n # 0 => f[n - 1] \in Nat /\ c[n] \in Nat
      OBVIOUS
    <3>. QED
      BY <3>1
  <2>. QED
    BY <2>1
<1>2. h \in [D -> Nat] /\ \A d \in D : h[d] = d
  OBVIOUS
<1>3. step \in [[D -> Nat] -> [D -> Nat]]
  BY <1>1
<1>4. ASSUME NEW f \in [D -> Nat], NEW g \in [D -> Nat], NEW d \in D,
             \A e \in D : h[e] < h[d] => f[e] = g[e]
      PROVE  step[f][d] = step[g][d]
  <2>1. CASE d = 0
    BY <1>1, <2>1
  <2>2. CASE d # 0
    <3>1. d - 1 \in D /\ h[d - 1] < h[d]
      BY <1>2, <2>2
    <3>2. f[d - 1] = g[d - 1]
      BY <1>4, <3>1
    <3>. QED
      BY <1>1, <2>2, <3>2
  <2>. QED
    BY <2>1, <2>2
<1>5. \E f \in [D -> Nat] : f = step[f]
  <2> HIDE DEF h, step
  <2>1. Descends(D, h, Nat, step)
    BY <1>2, <1>3, <1>4 DEF Descends
  <2>. QED
    BY <2>1, Recursion
<1>6. \E f : Appends(f, D, a, c)
  BY <1>1, <1>5 DEF Appends
<1>7. ASSUME NEW f, Appends(f, D, a, c)
      PROVE  f \in [D -> Nat]
  <2> DEFINE T == {n \in Nat : n \in D => f[n] \in Nat}
  <2>1. ASSUME NEW n \in Nat, \A m \in Nat : m < n => m \in T
        PROVE  n \in T
    <3> SUFFICES ASSUME n \in D PROVE f[n] \in Nat
      OBVIOUS
    <3>1. CASE n = 0
      BY <1>7, <3>1 DEF Appends
    <3>2. CASE n # 0
      <4>1. n - 1 \in D /\ n - 1 \in Nat /\ n - 1 < n /\ c[n] \in Nat
        BY <3>2
      <4>2. f[n - 1] \in Nat
        BY <2>1, <4>1
      <4>. QED
        BY <1>7, <3>2, <4>1, <4>2 DEF Appends
    <3>. QED
      BY <3>1, <3>2
  <2>2. T = Nat
    <3> HIDE DEF T
    <3>1. T \in SUBSET Nat
      BY DEF T
    <3>. QED
      BY <2>1, <3>1, CourseOfValues
  <2>3. \A n \in D : f[n] \in Nat
    BY <2>2
  <2>. QED
    BY <1>7, <2>3 DEF Appends
<1>. QED
  BY <1>6, <1>7

LEMMA ReadingIs ==
    ASSUME NEW digits \in Digits
    PROVE  /\ Reading(digits) \in [0..Len(digits) -> Nat]
           /\ Reading(digits)[0] = 0
           /\ \A n \in 1..Len(digits) :
                 Reading(digits)[n] = 10 * Reading(digits)[n - 1] + digits[n]
<1> DEFINE D == 0..Len(digits)
<1>1. Len(digits) \in Nat /\ \A n \in 1..Len(digits) : digits[n] \in Nat
  BY DEF Digits
<1>2. Initial(D) /\ \A n \in D : n # 0 => digits[n] \in Nat
  BY <1>1 DEF Initial
<1>3. Reading(digits) = CHOOSE f : Appends(f, D, 0, digits)
  BY DEF Reading, Appends
<1>4. /\ Appends(Reading(digits), D, 0, digits)
      /\ Reading(digits) \in [D -> Nat]
  <2> HIDE DEF D
  <2>. QED
    BY <1>2, <1>3, AppendingDigits
<1>5. 0 \in D /\ \A n \in 1..Len(digits) : n \in D /\ n # 0
  BY <1>1
<1>. QED
  BY <1>4, <1>5 DEF Appends

LEMMA PowerOfTenIs ==
    /\ PowerOfTen \in [Nat -> Nat]
    /\ PowerOfTen[0] = 1
    /\ \A n \in Nat \ {0} : PowerOfTen[n] = 10 * PowerOfTen[n - 1]
<1> DEFINE zeros == [n \in Nat |-> 0]
           One(f) == [n \in Nat |-> IF n = 0 THEN 1 ELSE 10 * f[n - 1]]
<1>1. Initial(Nat) /\ \A n \in Nat : n # 0 => zeros[n] \in Nat
  BY DEF Initial
<1>2. PICK f : Appends(f, Nat, 1, zeros)
  BY <1>1, AppendingDigits
<1>3. f \in [Nat -> Nat]
  BY <1>1, <1>2, AppendingDigits
<1>4. f = One(f)
  <2>1. ASSUME NEW n \in Nat
        PROVE  f[n] = IF n = 0 THEN 1 ELSE 10 * f[n - 1]
    <3>1. n # 0 => f[n - 1] \in Nat /\ zeros[n] = 0
      BY <1>3
    <3>. QED
      BY <1>2, <3>1 DEF Appends
  <2>. QED
    BY <1>3, <2>1
<1>5. PowerOfTen = CHOOSE g : g = One(g)
  BY DEF PowerOfTen
<1>6. PowerOfTen = One(PowerOfTen)
  BY <1>4, <1>5
<1> DEFINE p == PowerOfTen
<1>7. /\ p = [n \in Nat |-> p[n]]
      /\ p[0] = 1
      /\ \A n \in Nat \ {0} : p[n] = 10 * p[n - 1]
  <2>1. p = One(p)
    BY <1>6
  <2> HIDE DEF p
  <2>. QED
    BY <2>1
<1>8. \A n \in Nat : p[n] \in Nat
  <2> DEFINE T == {n \in Nat : p[n] \in Nat}
  <2>1. ASSUME NEW n \in Nat, \A m \in Nat : m < n => m \in T
        PROVE  n \in T
    <3> HIDE DEF p
    <3>1. n # 0 => n - 1 \in Nat /\ n - 1 < n
      OBVIOUS
    <3>2. n # 0 => p[n - 1] \in Nat
      BY <2>1, <3>1
    <3>3. CASE n = 0
      BY <1>7, <3>3
    <3>4. CASE n # 0
      <4>1. p[n] = 10 * p[n - 1]
        BY <1>7, <3>4
      <4>. QED
        BY <3>2, <3>4, <4>1
    <3>. QED
      BY <3>3, <3>4
  <2>2. T = Nat
    <3> HIDE DEF T
    <3>1. T \in SUBSET Nat
      BY DEF T
    <3>. QED
      BY <2>1, <3>1, CourseOfValues
  <2>. QED
    BY <2>2
<1>. QED
  <2> HIDE DEF p
  <2>1. p \in [Nat -> Nat]
    BY <1>7, <1>8
  <2>. QED
    BY <1>7, <2>1 DEF p

-----------------------------------------------------------------------------
(* Extremes *)

LEMMA SmallestIs ==
    ASSUME NEW T \in SUBSET Nat, T # {}
    PROVE  Min(T) \in T /\ \A y \in T : Min(T) <= y
<1>1. \E x \in T : \A y \in T : x <= y
  <2> DEFINE U == {n \in Nat : n \notin T}
  <2> SUFFICES ASSUME ~\E x \in T : \A y \in T : x <= y PROVE FALSE
    OBVIOUS
  <2>1. ASSUME NEW n \in Nat, \A m \in Nat : m < n => m \in U
        PROVE  n \in U
    <3>1. n \in T => \A y \in T : n <= y
      BY <2>1
    <3>. QED
      BY <3>1
  <2>2. U = Nat
    <3> HIDE DEF U
    <3>1. U \in SUBSET Nat
      BY DEF U
    <3>. QED
      BY <2>1, <3>1, CourseOfValues
  <2>. QED
    BY <2>2
<1>. QED
  BY <1>1 DEF Min

LEMMA LargestIs ==
    ASSUME NEW k \in Nat, NEW T \in SUBSET (0..k), T # {}
    PROVE  Max(T) \in T /\ \A y \in T : y <= Max(T)
<1> DEFINE U == {k - y : y \in T}
<1>1. U \in SUBSET Nat /\ U # {}
  <2>1. \A y \in T : y \in 0..k /\ k - y \in Nat
    OBVIOUS
  <2>. QED
    BY <2>1
<1>2. PICK z \in U : \A y \in U : z <= y
  <2> HIDE DEF U
  <2>. QED
    BY <1>1, SmallestIs
<1>3. PICK x \in T : z = k - x
  OBVIOUS
<1>4. ASSUME NEW y \in T PROVE x >= y
  <2>1. z <= k - y
    BY <1>2
  <2>. QED
    BY <1>3, <2>1
<1>. QED
  BY <1>3, <1>4 DEF Max

-----------------------------------------------------------------------------
(* Digits of one length compare like their numbers. *)

LEMMA NaturalIsNat == ASSUME NEW d \in Digits PROVE Natural(d) \in Nat
<1>1. Len(d) \in Nat
  BY DEF Digits
<1>. QED
  BY <1>1, ReadingIs DEF Natural

LEMMA DigitDecides ==
    ASSUME NEW x \in Nat, NEW y \in Nat, NEW i \in 0..9, NEW j \in 0..9,
           x < y \/ (x = y /\ i < j)
    PROVE  10 * x + i < 10 * y + j
  OBVIOUS

LEMMA LessAtFirst ==
    ASSUME NEW l \in Digits, NEW r \in Digits, Len(l) = Len(r),
           NEW p \in 1..Len(l), \A i \in 1..Len(l) : i < p => l[i] = r[i], l[p] < r[p]
    PROVE  Natural(l) < Natural(r)
<1> DEFINE n == Len(l)
           a == Reading(l)
           b == Reading(r)
           T == {k \in Nat : k \in 0..n => IF k < p THEN a[k] = b[k] ELSE a[k] < b[k]}
<1>1. /\ n \in Nat /\ Len(r) = n
      /\ \A k \in 1..n : l[k] \in 0..9 /\ r[k] \in 0..9
  BY DEF Digits
<1>2. /\ a[0] = 0 /\ b[0] = 0
      /\ \A k \in 0..n : a[k] \in Nat /\ b[k] \in Nat
      /\ \A k \in 1..n : a[k] = 10 * a[k - 1] + l[k] /\ b[k] = 10 * b[k - 1] + r[k]
  BY <1>1, ReadingIs
<1> HIDE DEF a, b, n
<1>3. ASSUME NEW k \in Nat, \A m \in Nat : m < k => m \in T
      PROVE  k \in T
  <2> SUFFICES ASSUME k \in 0..n, k # 0
               PROVE  IF k < p THEN a[k] = b[k] ELSE a[k] < b[k]
    BY <1>2 DEF n
  <2>1. k \in 1..n /\ k - 1 \in 0..n /\ k - 1 \in Nat /\ k - 1 < k
    BY <1>1
  <2>2. /\ a[k] = 10 * a[k - 1] + l[k] /\ b[k] = 10 * b[k - 1] + r[k]
        /\ a[k - 1] \in Nat /\ b[k - 1] \in Nat /\ l[k] \in 0..9 /\ r[k] \in 0..9
    BY <1>1, <1>2, <2>1
  <2>3. IF k - 1 < p THEN a[k - 1] = b[k - 1] ELSE a[k - 1] < b[k - 1]
    BY <1>3, <2>1
  <2>4. k < p => l[k] = r[k]
    BY <2>1 DEF n
  <2>5. p \in Int /\ k \in Int
    BY <1>1, <2>1 DEF n
  <2>6. CASE k < p
    BY <2>2, <2>3, <2>4, <2>5, <2>6
  <2>7. CASE k = p
    <3>1. a[k - 1] = b[k - 1]
      BY <2>3, <2>5, <2>7
    <3>2. l[k] < r[k]
      BY <2>7
    <3>3. a[k] < b[k]
      BY <2>2, <3>1, <3>2, DigitDecides
    <3>. QED
      BY <2>5, <2>7, <3>3
  <2>8. CASE k > p
    <3>1. a[k - 1] < b[k - 1]
      BY <2>3, <2>5, <2>8
    <3>2. a[k] < b[k]
      BY <2>2, <3>1, DigitDecides
    <3>. QED
      BY <2>5, <2>8, <3>2
  <2>. QED
    BY <2>5, <2>6, <2>7, <2>8
<1>4. T = Nat
  <2> HIDE DEF T
  <2>1. T \in SUBSET Nat
    BY DEF T
  <2>. QED
    BY <1>3, <2>1, CourseOfValues
<1>5. a[n] < b[n]
  BY <1>1, <1>4 DEF n
<1>. QED
  BY <1>1, <1>5 DEF Natural, a, b, n

LEMMA LexicographicIsOrder ==
    ASSUME NEW l \in Digits, NEW r \in Digits, Len(l) = Len(r)
    PROVE  Lexicographic(l, r) = Order(Natural(l), Natural(r))
<1> DEFINE differing == {i \in DOMAIN l : l[i] # r[i]}
           p == Min(differing)
<1>1. /\ Len(l) \in Nat /\ DOMAIN l = 1..Len(l) /\ DOMAIN r = 1..Len(l)
      /\ \A k \in 1..Len(l) : l[k] \in 0..9 /\ r[k] \in 0..9
  BY DEF Digits
<1>2. Natural(l) \in Nat /\ Natural(r) \in Nat
  BY NaturalIsNat
<1>3. CASE differing = {}
  <2>1. l = r
    BY <1>1, <1>3 DEF Digits
  <2>. QED
    BY <1>2, <1>3, <2>1 DEF Lexicographic, Order
<1>4. CASE differing # {}
  <2>1. differing \in SUBSET Nat
    BY <1>1
  <2>2. p \in differing /\ \A y \in differing : p <= y
    <3> HIDE DEF differing
    <3>. QED
      BY <1>4, <2>1, SmallestIs
  <2>3. /\ p \in 1..Len(l) /\ l[p] # r[p] /\ l[p] \in 0..9 /\ r[p] \in 0..9
        /\ \A i \in 1..Len(l) : i < p => l[i] = r[i]
    <3> HIDE DEF p
    <3>. QED
      BY <1>1, <2>2
  <2>4. Lexicographic(l, r) = Order(l[p], r[p])
    BY <1>4 DEF Lexicographic
  <2> HIDE DEF p, differing
  <2>5. CASE l[p] < r[p]
    <3>1. Natural(l) < Natural(r)
      BY <2>3, <2>5, LessAtFirst
    <3>. QED
      BY <1>2, <2>4, <2>5, <3>1 DEF Order
  <2>6. CASE r[p] < l[p]
    <3>1. \A i \in 1..Len(r) : i < p => r[i] = l[i]
      BY <2>3
    <3>2. Natural(r) < Natural(l)
      BY <2>3, <2>6, <3>1, LessAtFirst
    <3>. QED
      BY <1>2, <2>3, <2>4, <2>6, <3>2 DEF Order
  <2>. QED
    BY <2>3, <2>5, <2>6
<1>. QED
  BY <1>3, <1>4

-----------------------------------------------------------------------------
(* How large a number is that begins with a digit. *)

LEMMA PowersGrow ==
    ASSUME NEW j \in Nat, NEW k \in Nat, j <= k
    PROVE  PowerOfTen[j] <= PowerOfTen[k] /\ PowerOfTen[j] > 0
<1> DEFINE p == PowerOfTen
           T == {n \in Nat : p[n] > 0 /\ \A m \in 0..n : p[m] <= p[n]}
<1>1. /\ p[0] = 1 /\ \A n \in Nat : p[n] \in Nat
      /\ \A n \in Nat \ {0} : p[n] = 10 * p[n - 1]
  BY PowerOfTenIs
<1> HIDE DEF p
<1>2. ASSUME NEW n \in Nat, \A m \in Nat : m < n => m \in T
      PROVE  n \in T
  <2>1. CASE n = 0
    BY <1>1, <2>1
  <2>2. CASE n # 0
    <3>1. n - 1 \in Nat /\ n - 1 < n
      BY <2>2
    <3>2. p[n - 1] > 0 /\ \A m \in 0..(n - 1) : p[m] <= p[n - 1]
      BY <1>2, <3>1
    <3>3. p[n] = 10 * p[n - 1] /\ p[n] \in Nat /\ p[n - 1] \in Nat
      BY <1>1, <2>2, <3>1
    <3>4. p[n] > 0 /\ p[n - 1] <= p[n]
      BY <3>2, <3>3
    <3>5. ASSUME NEW m \in 0..n PROVE p[m] <= p[n]
      <4>1. CASE m = n
        BY <3>3, <4>1
      <4>2. CASE m # n
        <5>1. m \in 0..(n - 1) /\ p[m] \in Nat
          BY <1>1, <4>2
        <5>2. p[m] <= p[n - 1]
          BY <3>2, <5>1
        <5>. QED
          BY <3>3, <3>4, <5>1, <5>2
      <4>. QED
        BY <4>1, <4>2
    <3>. QED
      BY <3>4, <3>5
  <2>. QED
    BY <2>1, <2>2
<1>3. T = Nat
  <2> HIDE DEF T
  <2>1. T \in SUBSET Nat
    BY DEF T
  <2>. QED
    BY <1>2, <2>1, CourseOfValues
<1>4. p[k] > 0 /\ p[j] > 0 /\ \A m \in 0..k : p[m] <= p[k]
  BY <1>3
<1>. QED
  BY <1>4 DEF p

LEMMA BelowPower ==
    ASSUME NEW d \in Digits
    PROVE  \A k \in 0..Len(d) : Reading(d)[k] < PowerOfTen[k]
<1> DEFINE p == PowerOfTen
           a == Reading(d)
           T == {k \in Nat : k \in 0..Len(d) => a[k] < p[k]}
<1>1. Len(d) \in Nat /\ \A k \in 1..Len(d) : d[k] \in 0..9
  BY DEF Digits
<1>2. /\ p[0] = 1 /\ \A n \in Nat : p[n] \in Nat
      /\ \A n \in Nat \ {0} : p[n] = 10 * p[n - 1]
      /\ a[0] = 0 /\ \A k \in 0..Len(d) : a[k] \in Nat
      /\ \A k \in 1..Len(d) : a[k] = 10 * a[k - 1] + d[k]
  BY <1>1, PowerOfTenIs, ReadingIs
<1> HIDE DEF p, a
<1>3. ASSUME NEW k \in Nat, \A m \in Nat : m < k => m \in T
      PROVE  k \in T
  <2> SUFFICES ASSUME k \in 0..Len(d), k # 0 PROVE a[k] < p[k]
    BY <1>2
  <2>1. k \in 1..Len(d) /\ k - 1 \in 0..Len(d) /\ k - 1 \in Nat /\ k - 1 < k
    BY <1>1
  <2>2. a[k - 1] < p[k - 1]
    BY <1>3, <2>1
  <2>3. /\ a[k] = 10 * a[k - 1] + d[k] /\ p[k] = 10 * p[k - 1]
        /\ a[k - 1] \in Nat /\ p[k - 1] \in Nat /\ d[k] \in 0..9
    BY <1>1, <1>2, <2>1
  <2>4. ASSUME NEW x \in Nat, NEW y \in Nat, NEW i \in 0..9, x < y
        PROVE  10 * x + i < 10 * y
    BY <2>4
  <2>. QED
    BY <2>2, <2>3, <2>4
<1>4. T = Nat
  <2> HIDE DEF T
  <2>1. T \in SUBSET Nat
    BY DEF T
  <2>. QED
    BY <1>3, <2>1, CourseOfValues
<1>. QED
  BY <1>1, <1>4 DEF a, p

LEMMA LeadingDigit ==
    ASSUME NEW d \in Digits, Len(d) > 0, d[1] # 0
    PROVE  \A k \in 1..Len(d) : PowerOfTen[k - 1] <= Reading(d)[k]
<1> DEFINE p == PowerOfTen
           a == Reading(d)
           T == {k \in Nat : k \in 1..Len(d) => p[k - 1] <= a[k]}
<1>1. Len(d) \in Nat /\ \A k \in 1..Len(d) : d[k] \in 0..9
  BY DEF Digits
<1>2. /\ p[0] = 1 /\ \A n \in Nat : p[n] \in Nat
      /\ \A n \in Nat \ {0} : p[n] = 10 * p[n - 1]
      /\ a[0] = 0 /\ \A k \in 0..Len(d) : a[k] \in Nat
      /\ \A k \in 1..Len(d) : a[k] = 10 * a[k - 1] + d[k]
  BY <1>1, PowerOfTenIs, ReadingIs
<1> HIDE DEF p, a
<1>3. ASSUME NEW k \in Nat, \A m \in Nat : m < k => m \in T
      PROVE  k \in T
  <2> SUFFICES ASSUME k \in 1..Len(d) PROVE p[k - 1] <= a[k]
    OBVIOUS
  <2>1. CASE k = 1
    <3>1. a[1] = 10 * a[0] + d[1] /\ d[1] \in 1..9
      BY <1>1, <1>2, <2>1
    <3>. QED
      BY <1>2, <2>1, <3>1
  <2>2. CASE k # 1
    <3>1. /\ k - 1 \in 1..Len(d) /\ k - 1 \in Nat \ {0} /\ k - 1 < k /\ (k - 1) - 1 \in Nat
          /\ k - 1 \in 0..Len(d)
      BY <1>1, <2>2
    <3>2. p[(k - 1) - 1] <= a[k - 1]
      BY <1>3, <3>1
    <3>3. p[k - 1] = 10 * p[(k - 1) - 1] /\ a[k] = 10 * a[k - 1] + d[k]
      BY <1>2, <3>1
    <3>4. p[(k - 1) - 1] \in Nat /\ a[k - 1] \in Nat /\ d[k] \in 0..9
      BY <1>1, <1>2, <3>1
    <3>5. ASSUME NEW x \in Nat, NEW y \in Nat, NEW i \in 0..9, x <= y
          PROVE  10 * x <= 10 * y + i
      BY <3>5
    <3>. QED
      BY <3>2, <3>3, <3>4, <3>5
  <2>. QED
    BY <2>1, <2>2
<1>4. T = Nat
  <2> HIDE DEF T
  <2>1. T \in SUBSET Nat
    BY DEF T
  <2>. QED
    BY <1>3, <2>1, CourseOfValues
<1>5. \A k \in 1..Len(d) : k \in Nat /\ k \in T
  BY <1>1, <1>4
<1>6. \A k \in 1..Len(d) : p[k - 1] <= a[k]
  BY <1>5
<1>. QED
  BY <1>6 DEF a, p

-----------------------------------------------------------------------------
(* Leading zeros *)

(* While the digits are zero, so is the number. *)
LEMMA ZerosRead ==
    ASSUME NEW d \in Digits, NEW m \in 0..Len(d), \A i \in 1..m : d[i] = 0
    PROVE  \A k \in 0..m : Reading(d)[k] = 0
<1> DEFINE a == Reading(d)
           T == {k \in 0..m : a[k] = 0}
<1>1. m \in Nat /\ Len(d) \in Nat
  BY DEF Digits
<1>2. a[0] = 0 /\ \A k \in 1..Len(d) : a[k] = 10 * a[k - 1] + d[k]
  BY ReadingIs
<1> HIDE DEF a
<1>3. 0 \in T
  BY <1>1, <1>2
<1>4. ASSUME NEW k \in 1..m, k - 1 \in T PROVE k \in T
  <2>1. k \in 1..Len(d) /\ k \in 0..m /\ d[k] = 0 /\ a[k - 1] = 0
    BY <1>1, <1>4
  <2>2. a[k] = 10 * 0 + 0
    BY <1>2, <2>1
  <2>. QED
    BY <2>1, <2>2
<1>5. \A k \in 0..m : k \in T
  <2> HIDE DEF T
  <2>. QED
    BY <1>1, <1>3, <1>4, UpTo
<1>. QED
  BY <1>5 DEF a

(* What follows leading zeros reads as the whole does. *)
LEMMA SuffixReads ==
    ASSUME NEW d \in Digits, NEW s \in Digits, NEW z \in 0..Len(d),
           \A i \in 1..z : d[i] = 0,
           Len(s) = Len(d) - z, \A i \in 1..Len(s) : s[i] = d[z + i]
    PROVE  Natural(s) = Natural(d)
<1> DEFINE a == Reading(d)
           b == Reading(s)
           T == {k \in 0..Len(s) : b[k] = a[z + k]}
<1>1. z \in Nat /\ Len(d) \in Nat /\ Len(s) \in Nat
  BY DEF Digits
<1>2. /\ \A k \in 1..Len(d) : a[k] = 10 * a[k - 1] + d[k]
      /\ b[0] = 0 /\ \A k \in 1..Len(s) : b[k] = 10 * b[k - 1] + s[k]
      /\ a[z] = 0
  <2>1. z \in 0..z
    BY <1>1
  <2>. QED
    BY <2>1, ReadingIs, ZerosRead
<1> HIDE DEF a, b
<1>3. 0 \in T
  BY <1>1, <1>2
<1>4. ASSUME NEW k \in 1..Len(s), k - 1 \in T PROVE k \in T
  <2>1. k \in 0..Len(s) /\ z + k \in 1..Len(d) /\ z + (k - 1) = (z + k) - 1
    BY <1>1
  <2>2. a[z + k] = 10 * a[z + (k - 1)] + d[z + k]
    BY <1>2, <2>1
  <2>3. b[k] = 10 * b[k - 1] + s[k] /\ s[k] = d[z + k] /\ b[k - 1] = a[z + (k - 1)]
    BY <1>2, <1>4
  <2>. QED
    BY <2>1, <2>2, <2>3
<1>5. \A k \in 0..Len(s) : k \in T
  <2> HIDE DEF T
  <2>. QED
    BY <1>1, <1>3, <1>4, UpTo
<1>6. Len(s) \in T /\ z + Len(s) = Len(d)
  BY <1>1, <1>5
<1>. QED
  BY <1>6 DEF Natural, a, b

LEMMA SignificantIs ==
    ASSUME NEW d \in Digits
    PROVE  /\ Significant(d) \in Digits /\ Len(Significant(d)) > 0
           /\ Natural(Significant(d)) = Natural(d)
           /\ IF \A i \in 1..Len(d) : d[i] = 0
              THEN Significant(d) = <<0>> /\ Natural(d) = 0
              ELSE Significant(d)[1] # 0
<1> DEFINE I == {i \in 1..Len(d) : d[i] # 0}
           f == Min(I)
           s == SubSeq(d, f, Len(d))
<1>1. Len(d) \in Nat /\ \A k \in 1..Len(d) : d[k] \in 0..9
  BY DEF Digits
<1>2. Significant(d) = IF (IF I # {} THEN f ELSE 0) = 0 THEN <<0>> ELSE s
  BY DEF Significant, SelectInSeq
<1>3. CASE I = {}
  <2>1. Significant(d) = <<0>> /\ \A i \in 1..Len(d) : d[i] = 0
    BY <1>2, <1>3
  <2>2. Natural(d) = 0
    BY <1>1, <2>1, ZerosRead DEF Natural
  <2>3. <<0>> \in Digits /\ Len(<<0>>) = 1 /\ <<0>>[1] = 0
    BY DEF Digits
  <2>4. Natural(<<0>>) = 0
    BY <2>3, ZerosRead DEF Natural
  <2>. QED
    BY <2>1, <2>2, <2>3, <2>4
<1>4. CASE I # {}
  <2>1. f \in I /\ \A y \in I : f <= y
    <3>1. I \in SUBSET Nat
      BY <1>1
    <3> HIDE DEF I
    <3>. QED
      BY <1>4, <3>1, SmallestIs
  <2>2. f \in 1..Len(d) /\ d[f] # 0 /\ \A i \in 1..(f - 1) : d[i] = 0
    <3> HIDE DEF f
    <3>1. f \in 1..Len(d) /\ d[f] # 0
      BY <2>1
    <3>2. ASSUME NEW i \in 1..(f - 1) PROVE d[i] = 0
      <4>1. i \in 1..Len(d) /\ ~(f <= i)
        BY <1>1, <3>1
      <4>. QED
        BY <2>1, <4>1
    <3>. QED
      BY <3>1, <3>2
  <2> HIDE DEF I, f
  <2>3. Significant(d) = s
    BY <1>2, <1>4, <2>2
  <2>4. /\ s \in Digits /\ Len(s) = Len(d) - (f - 1)
        /\ \A i \in 1..Len(s) : s[i] = d[(f - 1) + i]
    BY <1>1, <2>2, SubSeqProperties DEF Digits
  <2>5. f - 1 \in 0..Len(d) /\ Len(s) > 0 /\ s[1] = d[f]
    BY <1>1, <2>2, <2>4
  <2>6. Natural(s) = Natural(d)
    <3> HIDE DEF s
    <3> DEFINE z == f - 1
    <3>1. z \in 0..Len(d) /\ \A i \in 1..z : d[i] = 0
      BY <2>2, <2>5
    <3>2. Len(s) = Len(d) - z /\ \A i \in 1..Len(s) : s[i] = d[z + i]
      BY <2>4
    <3> HIDE DEF z
    <3>. QED
      BY <2>4, <3>1, <3>2, SuffixReads
  <2>. QED
    BY <2>2, <2>3, <2>4, <2>5, <2>6
<1>. QED
  BY <1>3, <1>4

(* A number that begins with a digit is at least the power of its length. *)
LEMMA LongerIsLarger ==
    ASSUME NEW s \in Digits, NEW t \in Digits, Len(s) < Len(t), t[1] # 0
    PROVE  Natural(s) < Natural(t)
<1>1. Len(s) \in Nat /\ Len(t) \in Nat
  BY DEF Digits
<1>2. Natural(s) < PowerOfTen[Len(s)]
  BY <1>1, BelowPower DEF Natural
<1>3. PowerOfTen[Len(t) - 1] <= Natural(t)
  <2>1. Len(t) > 0 /\ Len(t) \in 1..Len(t)
    BY <1>1
  <2>. QED
    BY <2>1, LeadingDigit DEF Natural
<1>4. Len(s) <= Len(t) - 1 /\ Len(t) - 1 \in Nat
  BY <1>1
<1>5. PowerOfTen[Len(s)] <= PowerOfTen[Len(t) - 1]
  BY <1>1, <1>4, PowersGrow
<1>6. /\ Natural(s) \in Nat /\ Natural(t) \in Nat
      /\ PowerOfTen[Len(s)] \in Nat /\ PowerOfTen[Len(t) - 1] \in Nat
  BY <1>1, <1>4, NaturalIsNat, PowerOfTenIs
<1>. QED
  BY <1>2, <1>3, <1>5, <1>6

LEMMA SignificantIsLarger ==
    ASSUME NEW l \in Digits, NEW r \in Digits, Len(Significant(l)) < Len(Significant(r))
    PROVE  Natural(l) < Natural(r)
<1> DEFINE s == Significant(l)
           t == Significant(r)
<1>1. /\ s \in Digits /\ Len(s) > 0 /\ Natural(s) = Natural(l)
      /\ t \in Digits /\ Len(t) > 0 /\ Natural(t) = Natural(r)
      /\ t[1] # 0 \/ t = <<0>>
  BY SignificantIs
<1>2. Len(s) \in Nat /\ Len(t) \in Nat
  BY <1>1 DEF Digits
<1>3. t # <<0>>
  BY <1>1, <1>2
<1> HIDE DEF s, t
<1>4. Natural(s) < Natural(t)
  BY <1>1, <1>3, LongerIsLarger DEF s, t
<1>. QED
  BY <1>1, <1>4

(* Rust's comparison of digits is that of the numbers. *)
LEMMA CompareUnsignedIsOrder ==
    ASSUME NEW l \in Digits, NEW r \in Digits
    PROVE  CompareUnsigned(l, r) = Order(Natural(l), Natural(r))
<1> DEFINE s == Significant(l)
           t == Significant(r)
<1>1. /\ s \in Digits /\ Natural(s) = Natural(l)
      /\ t \in Digits /\ Natural(t) = Natural(r)
  BY SignificantIs
<1>2. Len(s) \in Nat /\ Len(t) \in Nat
  BY <1>1 DEF Digits
<1>3. Natural(l) \in Nat /\ Natural(r) \in Nat
  BY NaturalIsNat
<1>4. CASE Len(s) = Len(t)
  <2>1. CompareUnsigned(l, r) = Lexicographic(s, t)
    BY <1>4 DEF CompareUnsigned
  <2> HIDE DEF s, t
  <2>. QED
    BY <1>1, <1>4, <2>1, LexicographicIsOrder
<1>5. CASE Len(s) < Len(t)
  <2>1. Natural(l) < Natural(r)
    BY <1>5, SignificantIsLarger
  <2>2. CompareUnsigned(l, r) = Order(Len(s), Len(t))
    BY <1>2, <1>5 DEF CompareUnsigned
  <2>. QED
    BY <1>2, <1>3, <1>5, <2>1, <2>2 DEF Order
<1>6. CASE Len(t) < Len(s)
  <2>1. Natural(r) < Natural(l)
    BY <1>6, SignificantIsLarger
  <2>2. CompareUnsigned(l, r) = Order(Len(s), Len(t))
    BY <1>2, <1>6 DEF CompareUnsigned
  <2>. QED
    BY <1>2, <1>3, <1>6, <2>1, <2>2 DEF Order
<1>. QED
  BY <1>2, <1>4, <1>5, <1>6

(* Only zeros write zero. *)
LEMMA ZeroIsZeros ==
    ASSUME NEW d \in Digits
    PROVE  /\ Natural(d) = 0 <=> \A i \in 1..Len(d) : d[i] = 0
           /\ Natural(d) = 0 <=> Significant(d) = <<0>>
<1> DEFINE s == Significant(d)
<1>1. s \in Digits /\ Len(s) > 0 /\ Natural(s) = Natural(d)
  BY SignificantIs
<1>2. CASE \A i \in 1..Len(d) : d[i] = 0
  BY <1>2, SignificantIs
<1>3. CASE ~\A i \in 1..Len(d) : d[i] = 0
  <2>1. s[1] # 0
    BY <1>3, SignificantIs
  <2>2. Len(s) \in Nat /\ Len(s) \in 1..Len(s) /\ Len(s) - 1 \in Nat
    BY <1>1 DEF Digits
  <2>3. PowerOfTen[Len(s) - 1] <= Natural(s)
    <3> HIDE DEF s
    <3>. QED
      BY <1>1, <2>1, <2>2, LeadingDigit DEF Natural
  <2>4. PowerOfTen[Len(s) - 1] > 0 /\ PowerOfTen[Len(s) - 1] \in Nat
    BY <2>2, PowersGrow, PowerOfTenIs
  <2>5. Natural(s) # 0
    BY <1>1, <2>3, <2>4, NaturalIsNat
  <2>6. s # <<0>>
    BY <2>1
  <2>. QED
    BY <1>1, <1>3, <2>5, <2>6
<1>. QED
  BY <1>2, <1>3

-----------------------------------------------------------------------------
(* Trailing zeros *)

(* A digit of a fraction, and zeros after its last. *)
DigitAt(f, i) == IF i <= Len(f) THEN f[i] ELSE 0

LEMMA PaddedIs ==
    ASSUME NEW f \in Digits, NEW m \in Nat
    PROVE  /\ Padded(f, m) \in Digits /\ Len(Padded(f, m)) = m
           /\ \A i \in 1..m : Padded(f, m)[i] = DigitAt(f, i)
<1>1. Len(f) \in Nat /\ \A i \in 1..Len(f) : f[i] \in 0..9
  BY DEF Digits
<1>2. \A i \in 1..m : DigitAt(f, i) \in 0..9
  BY <1>1 DEF DigitAt
<1>3. Padded(f, m) = [i \in 1..m |-> DigitAt(f, i)]
  BY DEF Padded, DigitAt
<1>4. Padded(f, m) \in [1..m -> 0..9]
  BY <1>2, <1>3
<1>5. Padded(f, m) \in Seq(0..9) /\ Len(Padded(f, m)) = m
  BY <1>4
<1>. QED
  BY <1>3, <1>5 DEF Digits

(* Each zero appended multiplies by ten. *)
LEMMA PaddingMultiplies ==
    ASSUME NEW f \in Digits, NEW k \in Nat
    PROVE  Natural(Padded(f, Len(f) + k)) = Natural(f) * PowerOfTen[k]
<1> DEFINE n == Len(f)
           g == Padded(f, n + k)
           a == Reading(f)
           b == Reading(g)
           T == {i \in 0..n : b[i] = a[i]}
           U == {i \in 0..k : b[n + i] = a[n] * PowerOfTen[i]}
<1>1. n \in Nat
  BY DEF Digits
<1>2. /\ g \in Digits /\ Len(g) = n + k
      /\ \A i \in 1..n : g[i] = f[i]
      /\ \A i \in 1..k : g[n + i] = 0
  <2>1. n + k \in Nat /\ \A i \in 1..k : n + i \in 1..(n + k) /\ ~(n + i <= n)
    BY <1>1
  <2>2. \A i \in 1..n : i \in 1..(n + k) /\ i <= n
    BY <1>1
  <2>. QED
    BY <2>1, <2>2, PaddedIs DEF DigitAt
<1> HIDE DEF g
<1>3. /\ a[0] = 0 /\ \A i \in 1..n : a[i] = 10 * a[i - 1] + f[i]
      /\ b[0] = 0 /\ \A i \in 1..(n + k) : b[i] = 10 * b[i - 1] + g[i]
      /\ a[n] \in Nat
  <2>1. n \in 0..n
    BY <1>1
  <2>. QED
    BY <1>2, <2>1, ReadingIs
<1>4. /\ PowerOfTen[0] = 1 /\ \A i \in Nat \ {0} : PowerOfTen[i] = 10 * PowerOfTen[i - 1]
      /\ \A i \in Nat : PowerOfTen[i] \in Nat
  BY PowerOfTenIs
<1> HIDE DEF a, b, n
<1>5. \A i \in 0..n : i \in T
  <2>1. 0 \in T
    BY <1>1, <1>3
  <2>2. ASSUME NEW i \in 1..n, i - 1 \in T PROVE i \in T
    <3>1. i \in 1..(n + k) /\ i \in 0..n
      BY <1>1
    <3>. QED
      BY <1>2, <1>3, <2>2, <3>1
  <2> HIDE DEF T
  <2>. QED
    BY <1>1, <2>1, <2>2, UpTo
<1>6. \A i \in 0..k : i \in U
  <2>1. 0 \in U
    <3>1. b[n] = a[n]
      BY <1>1, <1>5
    <3>. QED
      BY <1>1, <1>3, <1>4, <3>1
  <2>2. ASSUME NEW i \in 1..k, i - 1 \in U PROVE i \in U
    <3>1. /\ i \in 0..k /\ n + i \in 1..(n + k) /\ n + (i - 1) = (n + i) - 1
          /\ i \in Nat \ {0} /\ i - 1 \in Nat
      BY <1>1
    <3>2. b[n + i] = 10 * b[n + (i - 1)] + 0
      BY <1>2, <1>3, <3>1
    <3>3. b[n + (i - 1)] = a[n] * PowerOfTen[i - 1]
      BY <2>2
    <3>4. PowerOfTen[i] = 10 * PowerOfTen[i - 1] /\ PowerOfTen[i - 1] \in Nat
      BY <1>4, <3>1
    <3>5. ASSUME NEW x \in Nat, NEW y \in Nat PROVE 10 * (x * y) + 0 = x * (10 * y)
      OBVIOUS
    <3>6. b[n + i] = a[n] * PowerOfTen[i]
      BY <1>3, <3>2, <3>3, <3>4, <3>5
    <3>. QED
      BY <3>1, <3>6
  <2> HIDE DEF U
  <2>. QED
    BY <2>1, <2>2, UpTo
<1>7. b[n + k] = a[n] * PowerOfTen[k]
  BY <1>6
<1>. QED
  BY <1>2, <1>7 DEF Natural, a, b, n, g

LEMMA PowersAdd ==
    ASSUME NEW j \in Nat, NEW k \in Nat
    PROVE  PowerOfTen[j + k] = PowerOfTen[j] * PowerOfTen[k]
<1> DEFINE p == PowerOfTen
           T == {i \in 0..k : p[j + i] = p[j] * p[i]}
<1>1. /\ p[0] = 1 /\ \A i \in Nat \ {0} : p[i] = 10 * p[i - 1]
      /\ \A i \in Nat : p[i] \in Nat
  BY PowerOfTenIs
<1> HIDE DEF p
<1>2. 0 \in T
  <2>1. j + 0 = j /\ p[j] \in Nat
    BY <1>1
  <2>2. p[j] * 1 = p[j]
    BY <2>1
  <2>. QED
    BY <1>1, <2>1, <2>2
<1>3. ASSUME NEW i \in 1..k, i - 1 \in T PROVE i \in T
  <2>1. /\ i \in 0..k /\ j + i \in Nat \ {0} /\ (j + i) - 1 = j + (i - 1)
        /\ i \in Nat \ {0} /\ i - 1 \in Nat
    OBVIOUS
  <2>2. p[j + i] = 10 * p[j + (i - 1)] /\ p[i] = 10 * p[i - 1] /\ p[i - 1] \in Nat /\ p[j] \in Nat
    BY <1>1, <2>1
  <2>3. p[j + (i - 1)] = p[j] * p[i - 1]
    BY <1>3
  <2>4. ASSUME NEW x \in Nat, NEW y \in Nat PROVE 10 * (x * y) = x * (10 * y)
    OBVIOUS
  <2>5. p[j + i] = p[j] * p[i]
    BY <2>2, <2>3, <2>4
  <2>. QED
    BY <2>1, <2>5
<1>4. \A i \in 0..k : i \in T
  <2> HIDE DEF T
  <2>. QED
    BY <1>2, <1>3, UpTo
<1>. QED
  BY <1>4 DEF p

(* Trimming takes zeros only. *)
LEMMA TrimEndIs ==
    ASSUME NEW f \in Digits
    PROVE  /\ TrimEnd(f) \in Digits /\ Len(TrimEnd(f)) <= Len(f)
           /\ \A i \in Nat \ {0} : DigitAt(TrimEnd(f), i) = DigitAt(f, i)
           /\ TrimEnd(f) = <<>> <=> \A i \in 1..Len(f) : f[i] = 0
<1> DEFINE I == {i \in 1..Len(f) : f[i] # 0}
           x == Max(I)
           z == IF I # {} THEN x ELSE 0
           t == SubSeq(f, 1, z)
<1>1. Len(f) \in Nat /\ \A i \in 1..Len(f) : f[i] \in 0..9
  BY DEF Digits
<1>2. TrimEnd(f) = t
  BY DEF TrimEnd, SelectLastInSeq
<1>3. I # {} => x \in I /\ \A i \in I : i <= x
  <2>1. I \in SUBSET (0..Len(f))
    OBVIOUS
  <2> HIDE DEF I
  <2>. QED
    BY <1>1, <2>1, LargestIs
<1>4. /\ z \in 0..Len(f)
      /\ \A i \in 1..Len(f) : i > z => f[i] = 0
      /\ z # 0 => f[z] # 0
  <2> HIDE DEF x
  <2>. QED
    BY <1>1, <1>3
<1> HIDE DEF z
<1>5. t \in Digits /\ Len(t) = z /\ \A i \in 1..z : t[i] = f[i]
  <2>1. 1 \in 1..(Len(f) + 1) /\ z \in (1 - 1)..Len(f)
    BY <1>1, <1>4
  <2>. QED
    BY <1>1, <1>4, <2>1, SubSeqProperties DEF Digits
<1> HIDE DEF t
<1>6. ASSUME NEW i \in Nat \ {0} PROVE DigitAt(t, i) = DigitAt(f, i)
  <2>1. CASE i <= z
    BY <1>1, <1>4, <1>5, <2>1 DEF DigitAt
  <2>2. CASE ~(i <= z)
    BY <1>1, <1>4, <1>5, <2>2 DEF DigitAt
  <2>. QED
    BY <2>1, <2>2
<1>7. t = <<>> <=> z = 0
  BY <1>5 DEF Digits
<1>8. z = 0 <=> \A i \in 1..Len(f) : f[i] = 0
  BY <1>1, <1>4
<1>. QED
  BY <1>1, <1>2, <1>4, <1>5, <1>6, <1>7, <1>8

(* How far fractions are padded before they are compared does not matter,  *)
(* nor do zeros at their end.                                              *)
LEMMA PaddingIrrelevant ==
    ASSUME NEW f \in Digits, NEW g \in Digits, NEW m \in Nat, Len(f) <= m, Len(g) <= m,
           NEW s \in Digits, NEW t \in Digits, NEW k \in Nat, Len(s) <= k, Len(t) <= k,
           \A i \in Nat \ {0} : DigitAt(s, i) = DigitAt(f, i) /\ DigitAt(t, i) = DigitAt(g, i)
    PROVE  Lexicographic(Padded(s, k), Padded(t, k)) = Lexicographic(Padded(f, m), Padded(g, m))
<1> DEFINE A == {i \in Nat \ {0} : DigitAt(f, i) # DigitAt(g, i)}
<1>1. ASSUME NEW u \in Digits, NEW v \in Digits, NEW n \in Nat, Len(u) <= n, Len(v) <= n,
             \A i \in Nat \ {0} : DigitAt(u, i) = DigitAt(f, i) /\ DigitAt(v, i) = DigitAt(g, i)
      PROVE  Lexicographic(Padded(u, n), Padded(v, n))
               = IF A = {} THEN 0 ELSE Order(DigitAt(f, Min(A)), DigitAt(g, Min(A)))
  <2> DEFINE x == Padded(u, n)
             y == Padded(v, n)
             differing == {i \in DOMAIN x : x[i] # y[i]}
  <2>1. /\ x \in Digits /\ Len(x) = n /\ \A i \in 1..n : x[i] = DigitAt(u, i)
        /\ y \in Digits /\ Len(y) = n /\ \A i \in 1..n : y[i] = DigitAt(v, i)
    BY PaddedIs
  <2>2. DOMAIN x = 1..n
    BY <2>1 DEF Digits
  <2>3. \A i \in Nat \ {0} : ~(i <= n) => DigitAt(u, i) = 0 /\ DigitAt(v, i) = 0
    <3>1. Len(u) \in Nat /\ Len(v) \in Nat
      BY DEF Digits
    <3>. QED
      BY <1>1, <3>1 DEF DigitAt
  <2> HIDE DEF x, y
  <2>4. differing = A
    <3>1. ASSUME NEW i \in differing PROVE i \in A
      <4>1. i \in Nat \ {0} /\ i \in 1..n
        BY <2>2
      <4>. QED
        BY <1>1, <2>1, <4>1
    <3>2. ASSUME NEW i \in A PROVE i \in differing
      <4>1. i <= n
        BY <1>1, <2>3
      <4>2. i \in 1..n
        BY <4>1
      <4>. QED
        BY <1>1, <2>1, <2>2, <4>2
    <3>. QED
      BY <3>1, <3>2
  <2>5. Lexicographic(x, y) = IF A = {} THEN 0 ELSE Order(x[Min(A)], y[Min(A)])
    BY <2>4 DEF Lexicographic
  <2>6. ASSUME A # {} PROVE x[Min(A)] = DigitAt(f, Min(A)) /\ y[Min(A)] = DigitAt(g, Min(A))
    <3>1. Min(A) \in A
      <4>1. A \in SUBSET Nat
        OBVIOUS
      <4> HIDE DEF A
      <4>. QED
        BY <2>6, <4>1, SmallestIs
    <3>2. Min(A) \in 1..n
      <4> HIDE DEF A
      <4>. QED
        BY <2>2, <2>4, <3>1
    <3> DEFINE p == Min(A)
    <3>3. p \in 1..n /\ p \in Nat \ {0}
      BY <3>1, <3>2
    <3> HIDE DEF p
    <3>4. x[p] = DigitAt(f, p) /\ y[p] = DigitAt(g, p)
      BY <1>1, <2>1, <3>3
    <3>. QED
      BY <3>4 DEF p
  <2> HIDE DEF A
  <2>7. Lexicographic(x, y) = IF A = {} THEN 0 ELSE Order(DigitAt(f, Min(A)), DigitAt(g, Min(A)))
    BY <2>5, <2>6
  <2>. QED
    BY <2>7 DEF x, y
<1> HIDE DEF A
<1>2. Lexicographic(Padded(f, m), Padded(g, m))
        = IF A = {} THEN 0 ELSE Order(DigitAt(f, Min(A)), DigitAt(g, Min(A)))
  BY <1>1
<1>. QED
  BY <1>1, <1>2

(* Fractions compare like their numerators over one power of ten. *)
LEMMA CompareFractionsIsOrder ==
    ASSUME NEW f \in Digits, NEW g \in Digits, NEW m \in Nat, Len(f) <= m, Len(g) <= m
    PROVE  CompareFractions(TrimEnd(f), TrimEnd(g))
             = Order(Natural(Padded(f, m)), Natural(Padded(g, m)))
<1> DEFINE s == TrimEnd(f)
           t == TrimEnd(g)
           k == Max({Len(s), Len(t)})
<1>1. /\ s \in Digits /\ \A i \in Nat \ {0} : DigitAt(s, i) = DigitAt(f, i)
      /\ t \in Digits /\ \A i \in Nat \ {0} : DigitAt(t, i) = DigitAt(g, i)
  BY TrimEndIs
<1> HIDE DEF s, t
<1>2. Len(s) \in Nat /\ Len(t) \in Nat
  BY <1>1 DEF Digits
<1>3. k \in Nat /\ Len(s) <= k /\ Len(t) <= k
  <2> DEFINE T == {Len(s), Len(t)}
             b == Len(s) + Len(t)
  <2>1. b \in Nat /\ T \in SUBSET (0..b) /\ T # {}
    BY <1>2
  <2>2. Max(T) \in T /\ \A y \in T : y <= Max(T)
    <3> HIDE DEF T, b
    <3>. QED
      BY <2>1, LargestIs
  <2>. QED
    BY <1>2, <2>2
<1>4. CompareFractions(s, t) = Lexicographic(Padded(s, k), Padded(t, k))
  BY DEF CompareFractions
<1> HIDE DEF k
<1>5. CompareFractions(s, t) = Lexicographic(Padded(f, m), Padded(g, m))
  BY <1>1, <1>3, <1>4, PaddingIrrelevant
<1>6. /\ Padded(f, m) \in Digits /\ Padded(g, m) \in Digits
      /\ Len(Padded(f, m)) = Len(Padded(g, m))
  BY PaddedIs
<1>. QED
  BY <1>5, <1>6, LexicographicIsOrder DEF s, t

-----------------------------------------------------------------------------
(* Numbers: a sign, digits and the digits of a fraction. *)

IsNumber(x) == x.negative \in BOOLEAN /\ x.whole \in Digits /\ x.fraction \in Digits

(* Without the sign, in units of the m-th decimal place. *)
Magnitude(x, m) == Natural(x.whole) * PowerOfTen[m] + Natural(Padded(x.fraction, m))

LEMMA MagnitudeIsNat ==
    ASSUME NEW x, IsNumber(x), NEW m \in Nat PROVE Magnitude(x, m) \in Nat
<1>1. /\ Natural(x.whole) \in Nat /\ PowerOfTen[m] \in Nat
      /\ Natural(Padded(x.fraction, m)) \in Nat
  BY PaddedIs, NaturalIsNat, PowerOfTenIs DEF IsNumber
<1>2. \A u, v, w \in Nat : u * v + w \in Nat
  OBVIOUS
<1>. QED
  BY <1>1, <1>2 DEF Magnitude

(* A numerator over a finer denominator. *)
LEMMA NumeratorIs ==
    ASSUME NEW x, IsNumber(x), NEW k \in Nat
    PROVE  Numerator(x) * PowerOfTen[k]
             = (IF x.negative THEN -1 ELSE 1) * Magnitude(x, Len(x.fraction) + k)
<1> DEFINE n == Len(x.fraction)
           w == Natural(x.whole)
           f == Natural(x.fraction)
           p == PowerOfTen[n]
           q == PowerOfTen[k]
           s == IF x.negative THEN -1 ELSE 1
<1>1. n \in Nat /\ n + k \in Nat
  BY DEF IsNumber, Digits
<1>2. w \in Nat /\ f \in Nat /\ p \in Nat /\ q \in Nat /\ s \in Int
  <2>1. w \in Nat /\ f \in Nat
    BY NaturalIsNat DEF IsNumber
  <2>2. p \in Nat /\ q \in Nat
    <3> HIDE DEF n
    <3>. QED
      BY <1>1, PowerOfTenIs
  <2>. QED
    BY <2>1, <2>2
<1>3. Magnitude(x, n + k) = w * (p * q) + f * q
  <2>1. PowerOfTen[n + k] = p * q
    BY <1>1, PowersAdd
  <2>2. Natural(Padded(x.fraction, n + k)) = f * q
    BY PaddingMultiplies DEF IsNumber
  <2>. QED
    BY <2>1, <2>2 DEF Magnitude
<1>4. Numerator(x) = s * (w * p + f)
  BY DEF Numerator, Scale
<1> HIDE DEF n, w, f, p, q, s
<1>5. (s * (w * p + f)) * q = s * (w * (p * q) + f * q)
  <2>1. \A a, b, c \in Int : (a * b) * c = a * (b * c)
    OBVIOUS
  <2>2. \A a, b, c \in Int : (a + b) * c = a * c + b * c
    OBVIOUS
  <2>3. w * p \in Int /\ w * p + f \in Int
    BY <1>2
  <2>4. (w * p + f) * q = (w * p) * q + f * q
    BY <1>2, <2>2, <2>3
  <2>5. (w * p) * q = w * (p * q)
    BY <1>2, <2>1
  <2>6. (s * (w * p + f)) * q = s * ((w * p + f) * q)
    BY <1>2, <2>1, <2>3
  <2>. QED
    BY <2>4, <2>5, <2>6
<1>. QED
  BY <1>3, <1>4, <1>5 DEF n, q, s

LEMMA WholeDecides ==
    ASSUME NEW w \in Nat, NEW v \in Nat, NEW p \in Nat, NEW f \in Nat, NEW g \in Nat,
           w < v, f < p
    PROVE  w * p + f < v * p + g
<1>1. PICK d \in Nat : v = w + 1 + d
  <2>1. v - w - 1 \in Nat
    OBVIOUS
  <2>. QED
    BY <2>1
<1>2. (w + 1 + d) * p = w * p + p + d * p
  OBVIOUS
<1>3. d * p \in Nat /\ w * p \in Nat
  OBVIOUS
<1>. QED
  BY <1>1, <1>2, <1>3

(* Without their signs: digits compare like numbers. *)
LEMMA AbsoluteIsOrder ==
    ASSUME NEW l, NEW r, IsNumber(l), IsNumber(r), NEW m \in Nat,
           Len(l.fraction) <= m, Len(r.fraction) <= m
    PROVE  CompareMagnitudes(Parts(l), Parts(r)) = Order(Magnitude(l, m), Magnitude(r, m))
<1> DEFINE w == Natural(l.whole)
           v == Natural(r.whole)
           p == PowerOfTen[m]
           f == Natural(Padded(l.fraction, m))
           g == Natural(Padded(r.fraction, m))
<1>1. CompareUnsigned(Parts(l).whole, Parts(r).whole) = Order(w, v)
  <2>1. /\ Parts(l).whole = Significant(l.whole) /\ Parts(r).whole = Significant(r.whole)
    BY DEF Parts
  <2>2. /\ Significant(l.whole) \in Digits /\ Natural(Significant(l.whole)) = w
        /\ Significant(r.whole) \in Digits /\ Natural(Significant(r.whole)) = v
    BY SignificantIs DEF IsNumber
  <2>. QED
    BY <2>1, <2>2, CompareUnsignedIsOrder
<1>2. CompareFractions(Parts(l).fraction, Parts(r).fraction) = Order(f, g)
  <2>1. Parts(l).fraction = TrimEnd(l.fraction) /\ Parts(r).fraction = TrimEnd(r.fraction)
    BY DEF Parts
  <2>. QED
    BY <2>1, CompareFractionsIsOrder DEF IsNumber
<1>3. /\ w \in Nat /\ v \in Nat /\ p \in Nat /\ f \in Nat /\ g \in Nat
      /\ f < p /\ g < p
  <2>1. /\ Padded(l.fraction, m) \in Digits /\ Len(Padded(l.fraction, m)) = m
        /\ Padded(r.fraction, m) \in Digits /\ Len(Padded(r.fraction, m)) = m
    BY PaddedIs DEF IsNumber
  <2>2. m \in 0..m
    OBVIOUS
  <2>3. f < p /\ g < p
    BY <2>1, <2>2, BelowPower DEF Natural
  <2>. QED
    BY <2>1, <2>3, NaturalIsNat, PowerOfTenIs DEF IsNumber
<1>4. Magnitude(l, m) = w * p + f /\ Magnitude(r, m) = v * p + g
  BY DEF Magnitude
<1>9. CompareMagnitudes(Parts(l), Parts(r)) =
        IF Order(w, v) # 0 THEN Order(w, v) ELSE Order(f, g)
  BY <1>1, <1>2 DEF CompareMagnitudes, ThenWith
<1> HIDE DEF w, v, p, f, g
<1>5. w * p + f \in Nat /\ v * p + g \in Nat
  BY <1>3
<1>6. CASE w < v
  <2>1. w * p + f < v * p + g
    BY <1>3, <1>6, WholeDecides
  <2>. QED
    BY <1>3, <1>4, <1>5, <1>6, <1>9, <2>1 DEF Order
<1>7. CASE v < w
  <2>1. v * p + g < w * p + f
    BY <1>3, <1>7, WholeDecides
  <2>. QED
    BY <1>3, <1>4, <1>5, <1>7, <1>9, <2>1 DEF Order
<1>8. CASE w = v
  <2>1. w * p + f < v * p + g <=> f < g
    BY <1>3, <1>8
  <2>2. w * p + f = v * p + g <=> f = g
    BY <1>3, <1>8
  <2>3. Order(w, v) = 0
    BY <1>3, <1>8 DEF Order
  <2>. QED
    BY <1>4, <1>9, <2>1, <2>2, <2>3 DEF Order
<1>. QED
  BY <1>3, <1>6, <1>7, <1>8

(* A zero has no sign. *)
LEMMA NegativeIs ==
    ASSUME NEW x, IsNumber(x), NEW m \in Nat, Len(x.fraction) <= m
    PROVE  Parts(x).negative <=> x.negative /\ Magnitude(x, m) # 0
<1> DEFINE w == Natural(x.whole)
           p == PowerOfTen[m]
           g == Padded(x.fraction, m)
           f == Natural(g)
<1>1. w \in Nat /\ (w = 0 <=> Significant(x.whole) = <<0>>)
  BY NaturalIsNat, ZeroIsZeros DEF IsNumber
<1>2. f \in Nat /\ (f = 0 <=> TrimEnd(x.fraction) = <<>>)
  <2>1. /\ g \in Digits /\ Len(g) = m
        /\ \A i \in 1..m : g[i] = DigitAt(x.fraction, i)
    BY PaddedIs DEF IsNumber
  <2>2. Len(x.fraction) \in Nat
    BY DEF IsNumber, Digits
  <2>3. (\A i \in 1..m : g[i] = 0) <=> \A i \in 1..Len(x.fraction) : x.fraction[i] = 0
    <3>1. \A i \in 1..m : g[i] = IF i <= Len(x.fraction) THEN x.fraction[i] ELSE 0
      BY <2>1 DEF DigitAt
    <3>2. \A i \in 1..Len(x.fraction) : i \in 1..m /\ i <= Len(x.fraction)
      BY <2>2
    <3>3. \A i \in 1..m : i <= Len(x.fraction) => i \in 1..Len(x.fraction)
      BY <2>2
    <3> HIDE DEF g
    <3>. QED
      BY <3>1, <3>2, <3>3
  <2>4. f \in Nat /\ (f = 0 <=> \A i \in 1..m : g[i] = 0)
    <3> HIDE DEF g
    <3>. QED
      BY <2>1, NaturalIsNat, ZeroIsZeros
  <2>5. TrimEnd(x.fraction) = <<>> <=> \A i \in 1..Len(x.fraction) : x.fraction[i] = 0
    BY TrimEndIs DEF IsNumber
  <2>. QED
    BY <2>3, <2>4, <2>5
<1>3. p \in Nat /\ p > 0
  <2>1. m <= m
    OBVIOUS
  <2>. QED
    BY <2>1, PowerOfTenIs, PowersGrow
<1>4. Magnitude(x, m) = w * p + f
  BY DEF Magnitude
<1>5. Parts(x).negative = (x.negative /\ (Significant(x.whole) # <<0>> \/ TrimEnd(x.fraction) # <<>>))
  BY DEF Parts
<1> HIDE DEF w, p, f
<1>6. w * p + f = 0 <=> w = 0 /\ f = 0
  <2>1. w * p \in Nat
    BY <1>1, <1>3
  <2>2. w # 0 => w * p # 0
    BY <1>1, <1>3
  <2>. QED
    BY <1>1, <1>2, <1>3, <2>1, <2>2
<1>. QED
  BY <1>1, <1>2, <1>4, <1>5, <1>6

(* Comparing digits is comparing rationals. *)
LEMMA ArithmeticsAgree ==
    ASSUME NEW l, NEW r, IsNumber(l), IsNumber(r)
    PROVE  CompareDigits(l, r) = CompareRationals(l, r)
<1> DEFINE m == Len(l.fraction) + Len(r.fraction)
           a == Magnitude(l, m)
           b == Magnitude(r, m)
           absolute == CompareMagnitudes(Parts(l), Parts(r))
           x == Parts(l).negative
           y == Parts(r).negative
<1>1. /\ Len(l.fraction) \in Nat /\ Len(r.fraction) \in Nat
      /\ m \in Nat /\ Len(l.fraction) <= m /\ Len(r.fraction) <= m
      /\ m = Len(r.fraction) + Len(l.fraction)
  <2>1. Len(l.fraction) \in Nat /\ Len(r.fraction) \in Nat
    BY DEF IsNumber, Digits
  <2>2. \A i, j \in Nat : i + j \in Nat /\ i <= i + j /\ j <= i + j /\ i + j = j + i
    OBVIOUS
  <2>. QED
    BY <2>1, <2>2
<1>2. CompareRationals(l, r) = Order((IF l.negative THEN -1 ELSE 1) * a, (IF r.negative THEN -1 ELSE 1) * b)
  <2>1. Numerator(l) * PowerOfTen[Len(r.fraction)] = (IF l.negative THEN -1 ELSE 1) * a
    BY <1>1, NumeratorIs
  <2>2. Numerator(r) * PowerOfTen[Len(l.fraction)] = (IF r.negative THEN -1 ELSE 1) * b
    BY <1>1, NumeratorIs
  <2>. QED
    BY <2>1, <2>2 DEF CompareRationals, Scale
<1>3. CompareDigits(l, r) = IF x # y THEN (IF x THEN -1 ELSE 1)
                            ELSE IF x THEN -absolute ELSE absolute
  BY DEF CompareDigits, CompareParts
<1> HIDE DEF m, absolute
<1>4. absolute = Order(a, b)
  BY <1>1, AbsoluteIsOrder DEF absolute
<1>5. x = (l.negative /\ a # 0) /\ y = (r.negative /\ b # 0)
  <2>1. x \in BOOLEAN /\ y \in BOOLEAN
    BY DEF Parts, IsNumber
  <2>2. (x <=> l.negative /\ a # 0) /\ (y <=> r.negative /\ b # 0)
    BY <1>1, NegativeIs
  <2>. QED
    BY <2>1, <2>2
<1>6. a \in Nat /\ b \in Nat
  BY <1>1, MagnitudeIsNat
<1>7. l.negative \in BOOLEAN /\ r.negative \in BOOLEAN
  BY DEF IsNumber
<1> DEFINE u == IF l.negative THEN -1 ELSE 1
           v == IF r.negative THEN -1 ELSE 1
<1>8. /\ x \in BOOLEAN /\ y \in BOOLEAN
      /\ x <=> l.negative /\ a # 0
      /\ y <=> r.negative /\ b # 0
  BY <1>5, <1>7
<1> HIDE DEF a, b, x, y
<1>9. \A n \in Nat : -1 * n = -n /\ 1 * n = n
  OBVIOUS
<1>10. /\ (IF l.negative THEN -1 ELSE 1) * a = IF l.negative THEN -a ELSE a
       /\ (IF r.negative THEN -1 ELSE 1) * b = IF r.negative THEN -b ELSE b
  BY <1>6, <1>7, <1>9
<1>11. CASE l.negative /\ r.negative
  <2>1. CompareRationals(l, r) = Order(-a, -b)
    BY <1>2, <1>10, <1>11
  <2>. QED
    BY <1>3, <1>4, <1>6, <1>8, <1>11, <2>1 DEF Order
<1>12. CASE ~l.negative /\ r.negative
  <2>1. CompareRationals(l, r) = Order(a, -b)
    BY <1>2, <1>10, <1>12
  <2>. QED
    BY <1>3, <1>4, <1>6, <1>8, <1>12, <2>1 DEF Order
<1>13. CASE l.negative /\ ~r.negative
  <2>1. CompareRationals(l, r) = Order(-a, b)
    BY <1>2, <1>10, <1>13
  <2>. QED
    BY <1>3, <1>4, <1>6, <1>8, <1>13, <2>1 DEF Order
<1>14. CASE ~l.negative /\ ~r.negative
  <2>1. CompareRationals(l, r) = Order(a, b)
    BY <1>2, <1>10, <1>14
  <2>. QED
    BY <1>3, <1>4, <1>6, <1>8, <1>14, <2>1 DEF Order
<1>. QED
  BY <1>11, <1>12, <1>13, <1>14

-----------------------------------------------------------------------------
(* Values are compared alike in both arithmetics. *)

Values(values) == \A id \in DOMAIN values : IsValue(values[id])

LEMMA ResolvedIsValue ==
    ASSUME NEW values, Values(values), NEW x, IsValue(x), IsResolved(x, values)
    PROVE  IsValue(Resolve(x, values))
  BY DEF Values, IsResolved, Resolve

LEMMA CompareAgrees ==
    ASSUME NEW l, NEW r, IsValue(l), IsValue(r), Compatible(l, r)
    PROVE  CompareValues("rationals", l, r) = CompareValues("digits", l, r)
<1>1. ~IsRef(l) /\ ~IsRef(r)
  BY DEF Compatible
<1>2. CASE Numeric(l)
  <2>1. Numeric(r)
    BY <1>2 DEF Compatible
  <2>2. IsNumber(l) /\ IsNumber(r)
    BY <1>1, <1>2, <2>1 DEF IsValue, Numeric, IsNumber, Digits
  <2>3. CompareValues("rationals", l, r) = CompareRationals(l, r)
    BY <1>2 DEF CompareValues, Numeric
  <2>4. CompareValues("digits", l, r) = CompareDigits(l, r)
    BY <1>2 DEF CompareValues, Numeric
  <2>. QED
    BY <2>2, <2>3, <2>4, ArithmeticsAgree
<1>3. CASE ~Numeric(l) /\ l.kind = "timestamp"
  <2>1. l.digits \in Digits /\ r.digits \in Digits
    <3>1. ~Numeric(r) /\ r.kind = "timestamp"
      BY <1>3 DEF Compatible, Numeric
    <3>. QED
      BY <1>1, <1>3, <3>1 DEF IsValue, Digits
  <2>2. CompareValues("rationals", l, r) = Order(Natural(l.digits), Natural(r.digits))
    BY <1>3 DEF CompareValues, Numeric
  <2>3. CompareValues("digits", l, r) = CompareUnsigned(l.digits, r.digits)
    BY <1>3 DEF CompareValues, Numeric
  <2>. QED
    BY <2>1, <2>2, <2>3, CompareUnsignedIsOrder
<1>4. CASE ~Numeric(l) /\ l.kind = "boolean"
  BY <1>4 DEF CompareValues, Numeric
<1>5. CASE ~Numeric(l) /\ l.kind \in {"text", "hash"}
  BY <1>5 DEF CompareValues, Numeric
<1>. QED
  BY <1>1, <1>2, <1>3, <1>4, <1>5 DEF IsValue

LEMMA ComparableIsSymmetric ==
    ASSUME NEW values, NEW x, NEW y, Comparable(x, y, values)
    PROVE  Comparable(y, x, values)
  BY DEF Comparable, Compatible

LEMMA RelatesAgrees ==
    ASSUME NEW values, Values(values), NEW x, NEW y, IsValue(x), IsValue(y),
           Comparable(x, y, values), NEW op
    PROVE  Relates("rationals", op, x, y, values) = Relates("digits", op, x, y, values)
<1>1. /\ IsResolved(x, values) /\ IsResolved(y, values)
      /\ Compatible(Resolve(x, values), Resolve(y, values))
  BY DEF Comparable
<1>2. CompareValues("rationals", Resolve(x, values), Resolve(y, values))
        = CompareValues("digits", Resolve(x, values), Resolve(y, values))
  BY <1>1, ResolvedIsValue, CompareAgrees
<1>. QED
  BY <1>2 DEF Relates

(* A node has one verdict in both arithmetics. *)
LEMMA NodesAgree ==
    ASSUME NEW values, Values(values), NEW n \in Nodes, NEW f
    PROVE  NodeVerdict("rationals", n, values, f) = NodeVerdict("digits", n, values, f)
<1>1. CASE n.op \in {"all", "any", "not"}
  BY <1>1 DEF NodeVerdict
<1>2. CASE n.op = "between"
  <2> DEFINE comparable == Comparable(n.value, n.lower, values) /\ Comparable(n.value, n.upper, values)
  <2>1. IsValue(n.value) /\ IsValue(n.lower) /\ IsValue(n.upper)
    BY <1>2, TreeAssumption
  <2>2. BoundsInOrder("rationals", n, values) <=> BoundsInOrder("digits", n, values)
    BY <2>1, RelatesAgrees DEF BoundsInOrder
  <2>3. comparable => (Between("rationals", n, values) <=> Between("digits", n, values))
    BY <2>1, RelatesAgrees, ComparableIsSymmetric DEF Between
  <2>4. \A a \in {"rationals", "digits"} : NodeVerdict(a, n, values, f)
          = IF ~(BoundsInOrder(a, n, values) /\ comparable) THEN "rejected"
            ELSE IF Between(a, n, values) THEN "true" ELSE "false"
    BY <1>2 DEF NodeVerdict, Verdict, Comparisons
  <2> HIDE DEF comparable
  <2>. QED
    BY <2>2, <2>3, <2>4
<1>3. CASE n.op \in Comparisons
  <2>1. IsValue(n.left) /\ IsValue(n.right)
    BY <1>3, TreeAssumption
  <2>2. \A a \in {"rationals", "digits"} : NodeVerdict(a, n, values, f)
          = Verdict(Comparable(n.left, n.right, values), Relates(a, n.op, n.left, n.right, values))
    BY <1>3 DEF NodeVerdict, Comparisons
  <2>3. CASE Comparable(n.left, n.right, values)
    BY <2>1, <2>2, <2>3, RelatesAgrees
  <2>4. CASE ~Comparable(n.left, n.right, values)
    BY <2>2, <2>4 DEF Verdict
  <2>. QED
    BY <2>3, <2>4
<1>4. CASE n.op \notin Comparisons \cup {"all", "any", "not", "between"}
  BY <1>4 DEF NodeVerdict
<1>. QED
  BY <1>1, <1>2, <1>3, <1>4

-----------------------------------------------------------------------------
(* Evaluation is a recursion down the tree. *)

Verdicts == {"true", "false", "rejected"}

LEMMA ResultsAre ==
    ASSUME NEW n \in Nodes, n.op \in {"all", "any"}, NEW f, NEW V, \A m \in Nodes : f[m] \in V
    PROVE  LET results == [i \in DOMAIN n.args |-> f[n.args[i]]]
           IN  /\ results \in Seq(V)
               /\ Len(results) = Len(n.args)
               /\ \A i \in 1..Len(n.args) : n.args[i] \in Nodes /\ results[i] = f[n.args[i]]
<1> DEFINE results == [i \in DOMAIN n.args |-> f[n.args[i]]]
<1>1. n.args \in Seq(Nodes)
  BY TreeAssumption
<1>2. Len(n.args) \in Nat /\ DOMAIN n.args = 1..Len(n.args) /\ \A i \in 1..Len(n.args) : n.args[i] \in Nodes
  BY <1>1
<1>3. results \in [1..Len(n.args) -> V]
  BY <1>2
<1>4. results \in Seq(V) /\ Len(results) = Len(n.args)
  BY <1>2, <1>3
<1>. QED
  BY <1>2, <1>4

(* The first result that is not neutral decides. *)
LEMMA ShortCircuitIs ==
    ASSUME NEW V, NEW results \in Seq(V), NEW neutral
    PROVE  \/ /\ \A i \in 1..Len(results) : results[i] = neutral
              /\ ShortCircuit(results, neutral) = neutral
           \/ \E i \in 1..Len(results) :
                /\ results[i] # neutral /\ \A j \in 1..(i - 1) : results[j] = neutral
                /\ ShortCircuit(results, neutral) = results[i]
<1> DEFINE I == {i \in 1..Len(results) : results[i] # neutral}
           first == Min(I)
<1>1. Len(results) \in Nat
  OBVIOUS
<1>2. ShortCircuit(results, neutral)
        = LET found == IF I # {} THEN first ELSE 0
          IN  IF found = 0 THEN neutral ELSE results[found]
  BY DEF ShortCircuit, SelectInSeq
<1>3. CASE I = {}
  BY <1>2, <1>3
<1>4. CASE I # {}
  <2>1. first \in I /\ \A y \in I : first <= y
    <3>1. I \in SUBSET Nat
      OBVIOUS
    <3> HIDE DEF I
    <3>. QED
      BY <1>4, <3>1, SmallestIs
  <2> HIDE DEF first
  <2>2. ASSUME NEW j \in 1..(first - 1) PROVE results[j] = neutral
    <3>1. j \in 1..Len(results) /\ ~(first <= j)
      BY <1>1, <2>1
    <3>. QED
      BY <2>1, <3>1
  <2>3. ShortCircuit(results, neutral) = results[first]
    BY <1>2, <1>4, <2>1
  <2>. QED
    BY <2>1, <2>2, <2>3
<1>. QED
  BY <1>3, <1>4

LEMMA NodeVerdictIs ==
    ASSUME NEW a, NEW values, NEW n \in Nodes, NEW f, \A m \in Nodes : f[m] \in Verdicts
    PROVE  NodeVerdict(a, n, values, f) \in Verdicts
<1>1. CASE n.op \in {"all", "any"}
  <2> DEFINE results == [i \in DOMAIN n.args |-> f[n.args[i]]]
  <2>1. results \in Seq(Verdicts)
    BY <1>1, ResultsAre
  <2>2. PICK neutral \in Verdicts : NodeVerdict(a, n, values, f) = ShortCircuit(results, neutral)
    <3>1. n.op = "all" => NodeVerdict(a, n, values, f) = ShortCircuit(results, "true")
      BY DEF NodeVerdict, Comparisons
    <3>2. n.op = "any" => NodeVerdict(a, n, values, f) = ShortCircuit(results, "false")
      BY DEF NodeVerdict, Comparisons
    <3> HIDE DEF results
    <3>. QED
      BY <1>1, <3>1, <3>2 DEF Verdicts
  <2>3. \A i \in 1..Len(results) : results[i] \in Verdicts
    BY <2>1
  <2> HIDE DEF results
  <2>. QED
    BY <2>1, <2>2, <2>3, ShortCircuitIs
<1>2. CASE n.op = "not"
  <2>1. f[n.arg] \in Verdicts
    BY <1>2, TreeAssumption
  <2>2. NodeVerdict(a, n, values, f) = Negated(f[n.arg])
    BY <1>2 DEF NodeVerdict, Comparisons
  <2>. QED
    BY <2>1, <2>2 DEF Negated, Verdicts
<1>3. CASE n.op \notin {"all", "any", "not"}
  BY <1>3 DEF NodeVerdict, Verdict, Verdicts, Comparisons
<1>. QED
  BY <1>1, <1>2, <1>3

(* A verdict depends only on the verdicts of nodes further down. *)
LEMMA NodeVerdictDescends ==
    ASSUME NEW a, NEW values, NEW n \in Nodes, NEW f, NEW g,
           \A m \in Nodes : Height[m] < Height[n] => f[m] = g[m]
    PROVE  NodeVerdict(a, n, values, f) = NodeVerdict(a, n, values, g)
<1>1. CASE n.op \in {"all", "any"}
  <2>1. \A i \in DOMAIN n.args : n.args[i] \in Nodes /\ Height[n.args[i]] < Height[n]
    BY <1>1, TreeAssumption
  <2>2. [i \in DOMAIN n.args |-> f[n.args[i]]] = [i \in DOMAIN n.args |-> g[n.args[i]]]
    BY <2>1
  <2>3. CASE n.op = "all"
    BY <2>2, <2>3 DEF NodeVerdict
  <2>4. CASE n.op = "any"
    BY <2>2, <2>4 DEF NodeVerdict
  <2>. QED
    BY <1>1, <2>3, <2>4
<1>2. CASE n.op = "not"
  <2>1. f[n.arg] = g[n.arg]
    BY <1>2, TreeAssumption
  <2>. QED
    BY <1>2, <2>1 DEF NodeVerdict
<1>3. CASE n.op \notin {"all", "any", "not"}
  BY <1>3 DEF NodeVerdict, Comparisons
<1>. QED
  BY <1>1, <1>2, <1>3

Evaluates(a, values, f) == f = [n \in Nodes |-> NodeVerdict(a, n, values, f)]

(* Verdicts that follow from each other exist. *)
LEMMA EvaluationExists ==
    ASSUME NEW a, NEW values
    PROVE  \E f \in [Nodes -> Verdicts] : Evaluates(a, values, f)
<1> DEFINE Body(f) == [n \in Nodes |-> NodeVerdict(a, n, values, f)]
           step == [f \in [Nodes -> Verdicts] |-> Body(f)]
<1>1. ASSUME NEW f \in [Nodes -> Verdicts]
      PROVE  step[f] = Body(f) /\ Body(f) \in [Nodes -> Verdicts]
  <2>1. \A n \in Nodes : NodeVerdict(a, n, values, f) \in Verdicts
    BY NodeVerdictIs
  <2>. QED
    BY <2>1
<1>2. ASSUME NEW f \in [Nodes -> Verdicts], NEW g \in [Nodes -> Verdicts], NEW n \in Nodes,
             \A m \in Nodes : Height[m] < Height[n] => f[m] = g[m]
      PROVE  step[f][n] = step[g][n]
  <2>1. step[f][n] = NodeVerdict(a, n, values, f) /\ step[g][n] = NodeVerdict(a, n, values, g)
    BY <1>1
  <2>. QED
    BY <1>2, <2>1, NodeVerdictDescends
<1>3. step \in [[Nodes -> Verdicts] -> [Nodes -> Verdicts]]
  BY <1>1
<1>4. \E f \in [Nodes -> Verdicts] : f = step[f]
  <2>1. Verdicts # {} /\ Height \in [Nodes -> Nat]
    BY TreeAssumption DEF Verdicts
  <2> HIDE DEF step
  <2>2. Descends(Nodes, Height, Verdicts, step)
    BY <1>2, <1>3, <2>1 DEF Descends
  <2>. QED
    BY <2>2, Recursion
<1>. QED
  BY <1>1, <1>4 DEF Evaluates

-----------------------------------------------------------------------------
(* So is what a condition says. *)

LEMMA SatisfiesIs ==
    ASSUME NEW order, NEW op \in Comparisons PROVE Satisfies(order, op) \in BOOLEAN
<1>1. CASE op = "eq"
  BY <1>1 DEF Satisfies
<1>2. CASE op = "neq"
  BY <1>2 DEF Satisfies
<1>3. CASE op = "lt"
  BY <1>3 DEF Satisfies
<1>4. CASE op = "lte"
  BY <1>4 DEF Satisfies
<1>5. CASE op = "gt"
  BY <1>5 DEF Satisfies
<1>6. CASE op = "gte"
  BY <1>6 DEF Satisfies
<1>. QED
  BY <1>1, <1>2, <1>3, <1>4, <1>5, <1>6 DEF Comparisons

LEMMA SaysIs ==
    ASSUME NEW values, NEW n \in Nodes, NEW b \in BOOLEAN, NEW f,
           \A m \in Nodes, c \in BOOLEAN : f[m][c] \in BOOLEAN
    PROVE  Says(n, b, values, f) \in BOOLEAN
<1>1. CASE n.op = "not"
  BY <1>1, TreeAssumption DEF Says
<1>2. CASE n.op # "not"
  BY <1>2 DEF Says, Comparisons
<1>. QED
  BY <1>1, <1>2

LEMMA SaysDescends ==
    ASSUME NEW values, NEW n \in Nodes, NEW b \in BOOLEAN, NEW f, NEW g,
           \A m \in Nodes, c \in BOOLEAN : Height[m] < Height[n] => f[m][c] = g[m][c]
    PROVE  Says(n, b, values, f) = Says(n, b, values, g)
<1>1. CASE n.op \in {"all", "any"}
  <2>1. \A i \in DOMAIN n.args : f[n.args[i]][b] = g[n.args[i]][b]
    BY <1>1, TreeAssumption
  <2>2. CASE n.op = (IF b THEN "all" ELSE "any")
    BY <2>1, <2>2 DEF Says, Comparisons
  <2>3. CASE n.op = (IF b THEN "any" ELSE "all")
    BY <2>1, <2>3 DEF Says, Comparisons
  <2>. QED
    BY <1>1, <2>2, <2>3
<1>2. CASE n.op = "not"
  <2>1. f[n.arg][~b] = g[n.arg][~b]
    BY <1>2, TreeAssumption
  <2>. QED
    BY <1>2, <2>1 DEF Says, Comparisons
<1>3. CASE n.op \notin {"all", "any", "not"}
  BY <1>3 DEF Says, Comparisons
<1>. QED
  BY <1>1, <1>2, <1>3

Said(values, f) == f = [n \in Nodes |-> [b \in BOOLEAN |-> Says(n, b, values, f)]]

LEMMA CertainIs ==
    ASSUME NEW values
    PROVE  \E f : Said(values, f) /\ \A n \in Nodes, b \in BOOLEAN : Certain(n, b, values) = f[n][b]
<1> DEFINE V == [BOOLEAN -> BOOLEAN]
           Body(f) == [n \in Nodes |-> [b \in BOOLEAN |-> Says(n, b, values, f)]]
           step == [f \in [Nodes -> V] |-> Body(f)]
<1>1. ASSUME NEW f \in [Nodes -> V]
      PROVE  step[f] = Body(f) /\ Body(f) \in [Nodes -> V]
  <2>1. \A n \in Nodes, b \in BOOLEAN : f[n][b] \in BOOLEAN
    <3>1. \A n \in Nodes : f[n] \in [BOOLEAN -> BOOLEAN]
      OBVIOUS
    <3>. QED
      BY <3>1
  <2>2. \A n \in Nodes, b \in BOOLEAN : Says(n, b, values, f) \in BOOLEAN
    BY <2>1, SaysIs
  <2>. QED
    BY <2>2
<1>2. ASSUME NEW f \in [Nodes -> V], NEW g \in [Nodes -> V], NEW n \in Nodes,
             \A m \in Nodes : Height[m] < Height[n] => f[m] = g[m]
      PROVE  step[f][n] = step[g][n]
  <2>1. \A b \in BOOLEAN : Says(n, b, values, f) = Says(n, b, values, g)
    BY <1>2, SaysDescends
  <2>2. /\ step[f][n] = [b \in BOOLEAN |-> Says(n, b, values, f)]
        /\ step[g][n] = [b \in BOOLEAN |-> Says(n, b, values, g)]
    BY <1>1
  <2>. QED
    BY <2>1, <2>2
<1>3. step \in [[Nodes -> V] -> [Nodes -> V]]
  <2> HIDE DEF V, step
  <2>. QED
    BY <1>1 DEF step
<1>4. \E f \in [Nodes -> V] : f = step[f]
  <2>1. V # {} /\ Height \in [Nodes -> Nat]
    <3>1. [b \in BOOLEAN |-> TRUE] \in V
      OBVIOUS
    <3>. QED
      BY <3>1, TreeAssumption
  <2> HIDE DEF V, step
  <2>2. Descends(Nodes, Height, V, step)
    BY <1>2, <1>3, <2>1 DEF Descends
  <2>. QED
    BY <2>2, Recursion
<1>5. \E f : Said(values, f)
  BY <1>1, <1>4 DEF Said
<1> DEFINE chosen == CHOOSE f : Said(values, f)
<1>6. Said(values, chosen)
  BY <1>5
<1>7. \A n \in Nodes, b \in BOOLEAN : Certain(n, b, values) = chosen[n][b]
  BY DEF Certain, Said
<1>. QED
  BY <1>6, <1>7

-----------------------------------------------------------------------------
(* A verdict is what the condition says. *)

(* What holds of a node if it holds of all lower ones holds of all. *)
LEMMA FromTheLeaves ==
    ASSUME NEW T \in SUBSET Nodes,
           \A n \in Nodes : (\A m \in Nodes : Height[m] < Height[n] => m \in T) => n \in T
    PROVE  T = Nodes
<1> DEFINE U == {k \in Nat : \A n \in Nodes : Height[n] = k => n \in T}
<1>1. \A n \in Nodes : Height[n] \in Nat
  BY TreeAssumption
<1>2. ASSUME NEW k \in Nat, \A j \in Nat : j < k => j \in U
      PROVE  k \in U
  <2> SUFFICES ASSUME NEW n \in Nodes, Height[n] = k PROVE n \in T
    OBVIOUS
  <2>1. \A m \in Nodes : Height[m] < Height[n] => m \in T
    BY <1>1, <1>2
  <2>. QED
    BY <2>1
<1>3. U = Nat
  <2> HIDE DEF U
  <2>1. U \in SUBSET Nat
    BY DEF U
  <2>. QED
    BY <1>2, <2>1, CourseOfValues
<1>. QED
  BY <1>1, <1>3

(* At one node: it says what its verdict is, if the nodes below do. *)
LEMMA NodeIsSound ==
    ASSUME NEW values, NEW n \in Nodes, NEW f, NEW s,
           \A m \in Nodes : Height[m] < Height[n] =>
              (f[m] = "true" => s[m][TRUE]) /\ (f[m] = "false" => s[m][FALSE])
    PROVE  LET verdict == NodeVerdict("rationals", n, values, f)
           IN  /\ verdict = "true" => Says(n, TRUE, values, s)
               /\ verdict = "false" => Says(n, FALSE, values, s)
<1> DEFINE verdict == NodeVerdict("rationals", n, values, f)
<1>1. CASE n.op \in {"all", "any"}
  <2> DEFINE results == [i \in DOMAIN n.args |-> f[n.args[i]]]
             V == {f[m] : m \in Nodes}
  <2>1. /\ results \in Seq(V) /\ Len(results) = Len(n.args)
        /\ \A i \in 1..Len(n.args) : n.args[i] \in Nodes /\ results[i] = f[n.args[i]]
    <3>1. \A m \in Nodes : f[m] \in V
      OBVIOUS
    <3> HIDE DEF V
    <3>. QED
      BY <1>1, <3>1, ResultsAre
  <2>2. DOMAIN n.args = 1..Len(n.args) /\ \A i \in DOMAIN n.args : Height[n.args[i]] < Height[n]
    BY <1>1, TreeAssumption
  <2>3. \A i \in DOMAIN n.args :
           /\ results[i] = "true" => s[n.args[i]][TRUE]
           /\ results[i] = "false" => s[n.args[i]][FALSE]
    <3> HIDE DEF results
    <3>. QED
      BY <2>1, <2>2
  <2>4. CASE n.op = "all"
    <3>1. verdict = ShortCircuit(results, "true")
      BY <2>4 DEF NodeVerdict, Comparisons
    <3>2. /\ Says(n, TRUE, values, s) <=> \A i \in DOMAIN n.args : s[n.args[i]][TRUE]
          /\ Says(n, FALSE, values, s) <=> \E i \in DOMAIN n.args : s[n.args[i]][FALSE]
      BY <2>4 DEF Says, Comparisons
    <3> HIDE DEF results, V, verdict
    <3>3. \/ /\ \A i \in 1..Len(results) : results[i] = "true"
             /\ verdict = "true"
          \/ \E i \in 1..Len(results) : results[i] # "true" /\ verdict = results[i]
      BY <2>1, <3>1, ShortCircuitIs
    <3>4. verdict = "true" => \A i \in 1..Len(results) : results[i] = "true"
      BY <3>3
    <3>5. verdict = "false" => \E i \in 1..Len(results) : results[i] = "false"
      BY <3>3
    <3>. QED
      BY <2>1, <2>2, <2>3, <3>2, <3>4, <3>5 DEF verdict
  <2>5. CASE n.op = "any"
    <3>1. verdict = ShortCircuit(results, "false")
      BY <2>5 DEF NodeVerdict, Comparisons
    <3>2. /\ Says(n, FALSE, values, s) <=> \A i \in DOMAIN n.args : s[n.args[i]][FALSE]
          /\ Says(n, TRUE, values, s) <=> \E i \in DOMAIN n.args : s[n.args[i]][TRUE]
      BY <2>5 DEF Says, Comparisons
    <3> HIDE DEF results, V, verdict
    <3>3. \/ /\ \A i \in 1..Len(results) : results[i] = "false"
             /\ verdict = "false"
          \/ \E i \in 1..Len(results) : results[i] # "false" /\ verdict = results[i]
      BY <2>1, <3>1, ShortCircuitIs
    <3>4. verdict = "false" => \A i \in 1..Len(results) : results[i] = "false"
      BY <3>3
    <3>5. verdict = "true" => \E i \in 1..Len(results) : results[i] = "true"
      BY <3>3
    <3>. QED
      BY <2>1, <2>2, <2>3, <3>2, <3>4, <3>5 DEF verdict
  <2>. QED
    BY <1>1, <2>4, <2>5
<1>2. CASE n.op = "not"
  <2>1. (f[n.arg] = "true" => s[n.arg][TRUE]) /\ (f[n.arg] = "false" => s[n.arg][FALSE])
    BY <1>2, TreeAssumption
  <2>2. verdict = Negated(f[n.arg])
    BY <1>2 DEF NodeVerdict, Comparisons
  <2>3. (verdict = "true" => f[n.arg] = "false") /\ (verdict = "false" => f[n.arg] = "true")
    BY <2>2 DEF Negated
  <2>4. (Says(n, TRUE, values, s) <=> s[n.arg][FALSE]) /\ (Says(n, FALSE, values, s) <=> s[n.arg][TRUE])
    BY <1>2 DEF Says, Comparisons
  <2>. QED
    BY <2>1, <2>3, <2>4
<1>3. CASE n.op = "between"
  <2> DEFINE defined == /\ BoundsInOrder("rationals", n, values)
                        /\ Comparable(n.value, n.lower, values)
                        /\ Comparable(n.value, n.upper, values)
             holds == Between("rationals", n, values)
  <2>1. verdict = IF ~defined THEN "rejected" ELSE IF holds THEN "true" ELSE "false"
    BY <1>3 DEF NodeVerdict, Verdict, Comparisons
  <2>2. \A b \in BOOLEAN : Says(n, b, values, s) <=> defined /\ (holds = b)
    BY <1>3 DEF Says, Comparisons
  <2>3. holds \in BOOLEAN
    BY DEF Between
  <2> HIDE DEF defined, holds
  <2>. QED
    BY <2>1, <2>2, <2>3
<1>4. CASE n.op \in Comparisons
  <2> DEFINE defined == Comparable(n.left, n.right, values)
             holds == Relates("rationals", n.op, n.left, n.right, values)
  <2>1. verdict = Verdict(defined, holds)
    BY <1>4 DEF NodeVerdict, Comparisons
  <2>2. \A b \in BOOLEAN : Says(n, b, values, s) <=> defined /\ (holds = b)
    BY <1>4 DEF Says, Comparisons
  <2>3. holds \in BOOLEAN
    BY <1>4, SatisfiesIs DEF Relates
  <2> HIDE DEF defined, holds
  <2>. QED
    BY <2>1, <2>2, <2>3 DEF Verdict
<1>5. CASE n.op \notin Comparisons \cup {"all", "any", "not", "between"}
  BY <1>5 DEF NodeVerdict
<1>. QED
  BY <1>1, <1>2, <1>3, <1>4, <1>5

LEMMA EvaluationIsSound ==
    ASSUME NEW values, NEW f, Evaluates("rationals", values, f), NEW s, Said(values, s)
    PROVE  \A n \in Nodes : (f[n] = "true" => s[n][TRUE]) /\ (f[n] = "false" => s[n][FALSE])
<1> DEFINE T == {n \in Nodes : (f[n] = "true" => s[n][TRUE]) /\ (f[n] = "false" => s[n][FALSE])}
<1>1. ASSUME NEW n \in Nodes, \A m \in Nodes : Height[m] < Height[n] => m \in T
      PROVE  n \in T
  <2>1. f[n] = NodeVerdict("rationals", n, values, f)
    BY DEF Evaluates
  <2>2. \A b \in BOOLEAN : s[n][b] <=> Says(n, b, values, s)
    <3>1. s[n] = [b \in BOOLEAN |-> Says(n, b, values, s)]
      BY DEF Said
    <3>. QED
      BY <3>1
  <2>. QED
    BY <1>1, <2>1, <2>2, NodeIsSound
<1>2. T = Nodes
  <2> HIDE DEF T
  <2>1. T \in SUBSET Nodes
    BY DEF T
  <2>. QED
    BY <1>1, <2>1, FromTheLeaves
<1>. QED
  BY <1>2

-----------------------------------------------------------------------------
(* A verdict stands when observations are added. *)

Extends(values, more) ==
    /\ DOMAIN values \subseteq DOMAIN more
    /\ \A id \in DOMAIN values : more[id] = values[id]

LEMMA ComparableStands ==
    ASSUME NEW values, NEW more, Extends(values, more), NEW x, NEW y, Comparable(x, y, values)
    PROVE  /\ Comparable(x, y, more)
           /\ \A a, op : Relates(a, op, x, y, more) = Relates(a, op, x, y, values)
<1>1. Resolve(x, more) = Resolve(x, values) /\ Resolve(y, more) = Resolve(y, values)
  BY DEF Extends, Comparable, IsResolved, Resolve
<1>2. Comparable(x, y, more)
  BY <1>1 DEF Extends, Comparable, IsResolved
<1>3. \A a, op : Relates(a, op, x, y, more) = Relates(a, op, x, y, values)
  BY <1>1 DEF Relates
<1>. QED
  BY <1>2, <1>3

(* At one node: its verdict stands, if those of the nodes below do. *)
LEMMA NodeStands ==
    ASSUME NEW a, NEW values, NEW more, Extends(values, more), NEW n \in Nodes, NEW f, NEW g,
           \A m \in Nodes : Height[m] < Height[n] /\ f[m] # "rejected" => g[m] = f[m],
           NodeVerdict(a, n, values, f) # "rejected"
    PROVE  NodeVerdict(a, n, more, g) = NodeVerdict(a, n, values, f)
<1> DEFINE before == NodeVerdict(a, n, values, f)
           after == NodeVerdict(a, n, more, g)
<1>1. CASE n.op \in {"all", "any"}
  <2> DEFINE old == [i \in DOMAIN n.args |-> f[n.args[i]]]
             new == [i \in DOMAIN n.args |-> g[n.args[i]]]
             V == {f[m] : m \in Nodes}
             W == {g[m] : m \in Nodes}
             l == Len(n.args)
  <2>1. /\ old \in Seq(V) /\ Len(old) = l
        /\ \A i \in 1..l : n.args[i] \in Nodes /\ old[i] = f[n.args[i]]
    <3>1. \A m \in Nodes : f[m] \in V
      OBVIOUS
    <3> HIDE DEF V
    <3>. QED
      BY <1>1, <3>1, ResultsAre
  <2>2. /\ new \in Seq(W) /\ Len(new) = l
        /\ \A i \in 1..l : new[i] = g[n.args[i]]
    <3>1. \A m \in Nodes : g[m] \in W
      OBVIOUS
    <3> HIDE DEF W
    <3>. QED
      BY <1>1, <3>1, ResultsAre
  <2>3. l \in Nat /\ \A i \in 1..l : Height[n.args[i]] < Height[n]
    BY <1>1, TreeAssumption
  <2>4. PICK neutral \in {"true", "false"} :
           before = ShortCircuit(old, neutral) /\ after = ShortCircuit(new, neutral)
    <3>1. n.op = "all" => before = ShortCircuit(old, "true") /\ after = ShortCircuit(new, "true")
      BY DEF NodeVerdict, Comparisons
    <3>2. n.op = "any" => before = ShortCircuit(old, "false") /\ after = ShortCircuit(new, "false")
      BY DEF NodeVerdict, Comparisons
    <3> HIDE DEF old, new, before, after
    <3>. QED
      BY <1>1, <3>1, <3>2
  <2> HIDE DEF old, new, V, W, before, after, l
  <2>5. \A i \in 1..l : old[i] # "rejected" => new[i] = old[i]
    BY <2>1, <2>2, <2>3 DEF l
  <2>6. \/ (\A i \in 1..l : new[i] = neutral) /\ after = neutral
        \/ \E i \in 1..l : /\ new[i] # neutral /\ \A j \in 1..(i - 1) : new[j] = neutral
                           /\ after = new[i]
    BY <2>2, <2>4, ShortCircuitIs
  <2>7. CASE (\A i \in 1..l : old[i] = neutral) /\ before = neutral
    <3>1. \A i \in 1..l : new[i] = neutral
      BY <2>5, <2>7
    <3>. QED
      BY <2>6, <2>7, <3>1 DEF before, after
  <2>8. ASSUME NEW i \in 1..l, old[i] # neutral, \A j \in 1..(i - 1) : old[j] = neutral,
               before = old[i]
        PROVE  after = before
    <3>1. new[i] = old[i]
      BY <2>5, <2>8 DEF before
    <3>2. \A j \in 1..(i - 1) : new[j] = neutral
      <4>1. \A j \in 1..(i - 1) : j \in 1..l
        BY <2>3
      <4>. QED
        BY <2>5, <2>8, <4>1
    <3>3. PICK k \in 1..l : /\ new[k] # neutral /\ \A j \in 1..(k - 1) : new[j] = neutral
                            /\ after = new[k]
      BY <2>6, <2>8, <3>1
    <3>4. k = i
      <4>1. ~(k < i)
        BY <2>3, <3>2, <3>3
      <4>2. ~(i < k)
        BY <2>3, <2>8, <3>1, <3>3
      <4>. QED
        BY <2>3, <4>1, <4>2
    <3>. QED
      BY <2>8, <3>1, <3>3, <3>4
  <2>9. \/ (\A i \in 1..l : old[i] = neutral) /\ before = neutral
        \/ \E i \in 1..l : /\ old[i] # neutral /\ \A j \in 1..(i - 1) : old[j] = neutral
                           /\ before = old[i]
    BY <2>1, <2>4, ShortCircuitIs
  <2>. QED
    BY <2>7, <2>8, <2>9 DEF before, after
<1>2. CASE n.op = "not"
  <2>1. before = Negated(f[n.arg]) /\ after = Negated(g[n.arg])
    BY <1>2 DEF NodeVerdict, Comparisons
  <2>2. f[n.arg] # "rejected"
    BY <2>1 DEF Negated
  <2>3. g[n.arg] = f[n.arg]
    BY <1>2, <2>2, TreeAssumption
  <2>. QED
    BY <2>1, <2>3
<1>3. CASE n.op = "between"
  <2>1. \A values_, f_ : NodeVerdict(a, n, values_, f_)
          = IF ~(/\ BoundsInOrder(a, n, values_)
                 /\ Comparable(n.value, n.lower, values_)
                 /\ Comparable(n.value, n.upper, values_)) THEN "rejected"
            ELSE IF Between(a, n, values_) THEN "true" ELSE "false"
    BY <1>3 DEF NodeVerdict, Verdict, Comparisons
  <2>2. /\ BoundsInOrder(a, n, values)
        /\ Comparable(n.value, n.lower, values)
        /\ Comparable(n.value, n.upper, values)
    BY <2>1
  <2>3. BoundsInOrder(a, n, more)
    BY <2>2, ComparableStands DEF BoundsInOrder
  <2>4. Comparable(n.value, n.lower, more) /\ Comparable(n.value, n.upper, more)
    BY <2>2, ComparableStands
  <2>5. Between(a, n, more) <=> Between(a, n, values)
    BY <2>2, ComparableStands, ComparableIsSymmetric DEF Between
  <2>. QED
    BY <2>1, <2>2, <2>3, <2>4, <2>5
<1>4. CASE n.op \in Comparisons
  <2>1. \A values_, f_ : NodeVerdict(a, n, values_, f_)
          = Verdict(Comparable(n.left, n.right, values_), Relates(a, n.op, n.left, n.right, values_))
    BY <1>4 DEF NodeVerdict, Comparisons
  <2>2. Comparable(n.left, n.right, values)
    BY <2>1 DEF Verdict
  <2>3. Comparable(n.left, n.right, more)
    BY <2>2, ComparableStands
  <2>4. Relates(a, n.op, n.left, n.right, more) = Relates(a, n.op, n.left, n.right, values)
    BY <2>2, ComparableStands
  <2>. QED
    BY <2>1, <2>2, <2>3, <2>4 DEF Verdict
<1>5. CASE n.op \notin Comparisons \cup {"all", "any", "not", "between"}
  BY <1>5 DEF NodeVerdict
<1>. QED
  BY <1>1, <1>2, <1>3, <1>4, <1>5

LEMMA EvaluationStands ==
    ASSUME NEW a, NEW values, NEW more, Extends(values, more),
           NEW f, Evaluates(a, values, f), NEW g, Evaluates(a, more, g)
    PROVE  \A n \in Nodes : f[n] # "rejected" => g[n] = f[n]
<1> DEFINE T == {n \in Nodes : f[n] # "rejected" => g[n] = f[n]}
<1>1. ASSUME NEW n \in Nodes, \A m \in Nodes : Height[m] < Height[n] => m \in T
      PROVE  n \in T
  <2>1. f[n] = NodeVerdict(a, n, values, f) /\ g[n] = NodeVerdict(a, n, more, g)
    BY DEF Evaluates
  <2>. QED
    BY <1>1, <2>1, NodeStands
<1>2. T = Nodes
  <2> HIDE DEF T
  <2>1. T \in SUBSET Nodes
    BY DEF T
  <2>. QED
    BY <1>1, <2>1, FromTheLeaves
<1>. QED
  BY <1>2

(* And they are the only ones. *)
LEMMA EvaluatesOnce ==
    ASSUME NEW a, NEW values, NEW f, Evaluates(a, values, f), NEW g, Evaluates(a, values, g)
    PROVE  \A n \in Nodes : g[n] = f[n]
<1>1. Extends(values, values)
  BY DEF Extends
<1>2. \A n \in Nodes : (f[n] # "rejected" => g[n] = f[n]) /\ (g[n] # "rejected" => f[n] = g[n])
  BY <1>1, EvaluationStands
<1>. QED
  BY <1>2

(* Evaluation gives every node the verdict that follows from its arguments'. *)
LEMMA EvaluateNodeIs ==
    ASSUME NEW a, NEW values
    PROVE  \E f : /\ Evaluates(a, values, f)
                  /\ \A n \in Nodes : f[n] \in Verdicts /\ EvaluateNode(a, n, values) = f[n]
<1> DEFINE chosen == CHOOSE f : Evaluates(a, values, f)
<1>1. PICK f \in [Nodes -> Verdicts] : Evaluates(a, values, f)
  BY EvaluationExists
<1>2. Evaluates(a, values, chosen)
  BY <1>1
<1>3. \A n \in Nodes : EvaluateNode(a, n, values) = chosen[n]
  BY DEF EvaluateNode, Evaluates
<1> HIDE DEF chosen
<1>4. \A n \in Nodes : chosen[n] \in Verdicts
  BY <1>1, <1>2, EvaluatesOnce
<1>. QED
  BY <1>2, <1>3, <1>4

(* Both arithmetics come to the same verdict. *)
LEMMA EvaluationsAgree ==
    ASSUME NEW values, Values(values), NEW n \in Nodes
    PROVE  EvaluateNode("rationals", n, values) = EvaluateNode("digits", n, values)
<1>1. PICK f : /\ Evaluates("rationals", values, f)
               /\ \A m \in Nodes : EvaluateNode("rationals", m, values) = f[m]
  BY EvaluateNodeIs
<1>2. PICK g : /\ Evaluates("digits", values, g)
               /\ \A m \in Nodes : EvaluateNode("digits", m, values) = g[m]
  BY EvaluateNodeIs
<1>3. Evaluates("rationals", values, g)
  BY <1>2, NodesAgree DEF Evaluates
<1>4. f[n] = g[n]
  BY <1>1, <1>3, EvaluatesOnce
<1>. QED
  BY <1>1, <1>2, <1>4

-----------------------------------------------------------------------------
(* Validation is a recursion down the tree as well. *)

LEMMA NodeIsValidDescends ==
    ASSUME NEW l, NEW n \in Nodes, NEW d \in Nat, NEW f, NEW g,
           \A m \in Nodes : Height[m] < Height[n] => f[m] = g[m]
    PROVE  NodeIsValid(l, n, d, f) <=> NodeIsValid(l, n, d, g)
<1>1. n.op \in {"all", "any"} => \A i \in DOMAIN n.args : f[n.args[i]] = g[n.args[i]]
  BY TreeAssumption
<1>2. n.op = "not" => f[n.arg] = g[n.arg]
  BY TreeAssumption
<1>. QED
  BY <1>1, <1>2 DEF NodeIsValid

(* ValidNode is what its definition says. *)
LEMMA ValidNodeIs ==
    \A n \in Nodes, l \in Languages, d \in Nat :
        ValidNode[n][l][d] <=> NodeIsValid(l, n, d, ValidNode)
<1> DEFINE V == [Languages -> [Nat -> BOOLEAN]]
           At(n, f) == [l \in Languages |-> [d \in Nat |-> NodeIsValid(l, n, d, f)]]
           Body(f) == [n \in Nodes |-> At(n, f)]
           step == [f \in [Nodes -> V] |-> Body(f)]
<1>1. ASSUME NEW f, NEW n PROVE At(n, f) \in V
  <2>1. \A l \in Languages, d \in Nat : NodeIsValid(l, n, d, f) \in BOOLEAN
    BY DEF NodeIsValid
  <2>. QED
    BY <2>1
<1>2. ASSUME NEW f, NEW g, NEW n \in Nodes,
             \A m \in Nodes : Height[m] < Height[n] => f[m] = g[m]
      PROVE  At(n, f) = At(n, g)
  <2>1. \A l \in Languages, d \in Nat : NodeIsValid(l, n, d, f) = NodeIsValid(l, n, d, g)
    <3>1. \A l \in Languages, d \in Nat :
             NodeIsValid(l, n, d, f) \in BOOLEAN /\ NodeIsValid(l, n, d, g) \in BOOLEAN
      BY DEF NodeIsValid
    <3>2. \A l \in Languages, d \in Nat : NodeIsValid(l, n, d, f) <=> NodeIsValid(l, n, d, g)
      BY <1>2, NodeIsValidDescends
    <3>. QED
      BY <3>1, <3>2
  <2>. QED
    BY <2>1
<1>3. V # {}
  <2>1. [l \in Languages |-> [d \in Nat |-> TRUE]] \in V
    OBVIOUS
  <2>. QED
    BY <2>1
<1> HIDE DEF V, At
<1>4. \A f \in [Nodes -> V] : step[f] = Body(f) /\ Body(f) \in [Nodes -> V]
  BY <1>1
<1>5. step \in [[Nodes -> V] -> [Nodes -> V]]
  BY <1>4
<1>6. \A f, g \in [Nodes -> V] : \A n \in Nodes :
        (\A m \in Nodes : Height[m] < Height[n] => f[m] = g[m]) => step[f][n] = step[g][n]
  BY <1>2, <1>4
<1>7. \E f \in [Nodes -> V] : f = Body(f)
  <2>1. Descends(Nodes, Height, V, step)
    <3> HIDE DEF step
    <3>. QED
      BY <1>3, <1>5, <1>6, TreeAssumption DEF Descends
  <2>2. \E f \in [Nodes -> V] : f = step[f]
    <3> HIDE DEF step
    <3>. QED
      BY <2>1, Recursion
  <2>. QED
    BY <1>4, <2>2
<1>8. ValidNode = CHOOSE f : f = Body(f)
  BY DEF ValidNode, At
<1>9. ValidNode = Body(ValidNode)
  BY <1>7, <1>8
<1>10. \A n \in Nodes : ValidNode[n] = At(n, ValidNode)
  BY <1>9
<1>. QED
  <2> SUFFICES ASSUME NEW n \in Nodes, NEW l \in Languages, NEW d \in Nat
               PROVE  ValidNode[n][l][d] <=> NodeIsValid(l, n, d, ValidNode)
    OBVIOUS
  <2>1. At(n, ValidNode)[l][d] = NodeIsValid(l, n, d, ValidNode)
    BY DEF At
  <2>. QED
    BY <1>10, <2>1

Straddling(n, f) ==
    \/ \E value \in Operands(n) : Straddles(value)
    \/ n.op = "not" /\ f[n.arg]
    \/ n.op \in {"all", "any"} /\ \E i \in DOMAIN n.args : f[n.args[i]]

(* So is NodeStraddles. *)
LEMMA NodeStraddlesIs ==
    \A n \in Nodes : NodeStraddles[n] <=> Straddling(n, NodeStraddles)
<1> DEFINE Body(f) == [n \in Nodes |-> Straddling(n, f)]
           step == [f \in [Nodes -> BOOLEAN] |-> Body(f)]
<1>1. \A f, n : Straddling(n, f) \in BOOLEAN
  BY DEF Straddling
<1>2. ASSUME NEW f, NEW g, NEW n \in Nodes,
             \A m \in Nodes : Height[m] < Height[n] => f[m] = g[m]
      PROVE  Straddling(n, f) = Straddling(n, g)
  <2>1. n.op \in {"all", "any"} => \A i \in DOMAIN n.args : f[n.args[i]] = g[n.args[i]]
    BY <1>2, TreeAssumption
  <2>2. n.op = "not" => f[n.arg] = g[n.arg]
    BY <1>2, TreeAssumption
  <2>3. Straddling(n, f) <=> Straddling(n, g)
    BY <2>1, <2>2 DEF Straddling
  <2>. QED
    BY <1>1, <2>3
<1>3. \A f \in [Nodes -> BOOLEAN] : step[f] = Body(f) /\ Body(f) \in [Nodes -> BOOLEAN]
  BY <1>1
<1>4. step \in [[Nodes -> BOOLEAN] -> [Nodes -> BOOLEAN]]
  BY <1>3
<1>5. \A f, g \in [Nodes -> BOOLEAN] : \A n \in Nodes :
        (\A m \in Nodes : Height[m] < Height[n] => f[m] = g[m]) => step[f][n] = step[g][n]
  BY <1>2, <1>3
<1>6. \E f \in [Nodes -> BOOLEAN] : f = Body(f)
  <2>1. Descends(Nodes, Height, BOOLEAN, step)
    <3> HIDE DEF step
    <3>. QED
      BY <1>4, <1>5, TreeAssumption DEF Descends
  <2>2. \E f \in [Nodes -> BOOLEAN] : f = step[f]
    <3> HIDE DEF step
    <3>. QED
      BY <2>1, Recursion
  <2>. QED
    BY <1>3, <2>2
<1>7. NodeStraddles = CHOOSE f : f = Body(f)
  BY DEF NodeStraddles, Straddling
<1>8. NodeStraddles = Body(NodeStraddles)
  BY <1>6, <1>7
<1>. QED
  BY <1>8

(* Rust and Python count alike, and JavaScript counts no less. *)
LEMMA ValueIsValid ==
    ASSUME NEW value, IsValue(value)
    PROVE  /\ ValidValue("Python", value) <=> ValidValue("Rust", value)
           /\ ValidValue("JavaScript", value) => ValidValue("Rust", value)
           /\ ValidValue("Rust", value) /\ ~Straddles(value) => ValidValue("JavaScript", value)
<1>1. ValidValue("Python", value) <=> ValidValue("Rust", value)
  BY DEF ValidValue, TextLength
<1>2. CASE IsRef(value) \/ value.kind # "text"
  BY <1>1, <1>2 DEF ValidValue
<1>3. CASE ~IsRef(value) /\ value.kind = "text"
  <2> DEFINE points == CodePoints[value.value]
             units == CodeUnits[value.value]
  <2>1. points \in Nat /\ units \in Nat /\ points <= units /\ MaxText \in Nat
    <3>1. value.value \in DOMAIN CodePoints
      BY <1>3 DEF IsValue, Numeric
    <3>. QED
      BY <3>1, TextAssumption, ConditionAssumption DEF Limits
  <2>2. ValidValue("JavaScript", value) <=> units <= MaxText
    BY <1>3 DEF ValidValue, TextLength, Numeric
  <2>3. ValidValue("Rust", value) <=> points <= MaxText
    BY <1>3 DEF ValidValue, TextLength, Numeric
  <2>4. Straddles(value) <=> points <= MaxText /\ MaxText < units
    BY <1>3 DEF Straddles
  <2> HIDE DEF points, units
  <2>. QED
    BY <1>1, <2>1, <2>2, <2>3, <2>4
<1>. QED
  BY <1>2, <1>3

LEMMA OperandsAreValues ==
    ASSUME NEW n \in Nodes, NEW value \in Operands(n) PROVE IsValue(value)
  BY TreeAssumption DEF Operands

(* At each node and depth: the three differ on a text that straddles. *)
LEMMA NodesAreValid ==
    ASSUME NEW n \in Nodes, NEW d \in Nat
    PROVE  /\ ValidNode[n]["Python"][d] <=> ValidNode[n]["Rust"][d]
           /\ ValidNode[n]["JavaScript"][d] => ValidNode[n]["Rust"][d]
           /\ ValidNode[n]["Rust"][d] /\ ~NodeStraddles[n] => ValidNode[n]["JavaScript"][d]
<1> DEFINE Same(m, e) ==
              /\ ValidNode[m]["Python"][e] <=> ValidNode[m]["Rust"][e]
              /\ ValidNode[m]["JavaScript"][e] => ValidNode[m]["Rust"][e]
              /\ ValidNode[m]["Rust"][e] /\ ~NodeStraddles[m] => ValidNode[m]["JavaScript"][e]
           T == {m \in Nodes : \A e \in Nat : Same(m, e)}
<1>1. ASSUME NEW m \in Nodes, \A k \in Nodes : Height[k] < Height[m] => k \in T, NEW e \in Nat
      PROVE  Same(m, e)
  <2>1. \A l \in Languages : ValidNode[m][l][e] <=> NodeIsValid(l, m, e, ValidNode)
    BY ValidNodeIs
  <2>2. e + 1 \in Nat /\ {"JavaScript", "Python", "Rust"} = Languages
    BY DEF Languages
  <2>3. NodeStraddles[m] <=> Straddling(m, NodeStraddles)
    BY NodeStraddlesIs
  <2>4. CASE m.op \in {"all", "any"}
    <3>1. \A i \in DOMAIN m.args : Same(m.args[i], e + 1)
      BY <1>1, <2>2, <2>4, TreeAssumption
    <3>2. \A l \in Languages : ValidNode[m][l][e] <=>
             /\ e <= MaxConditionDepth /\ Len(m.args) \in 1..MaxArgs
             /\ \A i \in DOMAIN m.args : ValidNode[m.args[i]][l][e + 1]
      BY <2>1, <2>4 DEF NodeIsValid, Comparisons
    <3>3. \A i \in DOMAIN m.args : NodeStraddles[m.args[i]] => NodeStraddles[m]
      BY <2>3, <2>4 DEF Straddling
    <3>. QED
      BY <2>2, <3>1, <3>2, <3>3
  <2>5. CASE m.op = "not"
    <3>1. Same(m.arg, e + 1)
      BY <1>1, <2>2, <2>5, TreeAssumption
    <3>2. \A l \in Languages : ValidNode[m][l][e] <=>
             e <= MaxConditionDepth /\ ValidNode[m.arg][l][e + 1]
      BY <2>1, <2>5 DEF NodeIsValid, Comparisons
    <3>3. NodeStraddles[m.arg] => NodeStraddles[m]
      BY <2>3, <2>5 DEF Straddling
    <3>. QED
      BY <2>2, <3>1, <3>2, <3>3
  <2>6. CASE m.op \notin {"all", "any", "not"}
    <3>1. \A l \in Languages : ValidNode[m][l][e] <=>
             /\ e <= MaxConditionDepth /\ m.op \in Comparisons \cup {"between"}
             /\ \A value \in Operands(m) : ValidValue(l, value)
      BY <2>1, <2>6 DEF NodeIsValid
    <3>2. \A value \in Operands(m) : Straddles(value) => NodeStraddles[m]
      BY <2>3 DEF Straddling
    <3>. QED
      BY <2>2, <3>1, <3>2, OperandsAreValues, ValueIsValid
  <2>. QED
    BY <2>4, <2>5, <2>6
<1>2. T = Nodes
  <2> HIDE DEF Same
  <2>1. \A m \in Nodes : (\A k \in Nodes : Height[k] < Height[m] => k \in T) => m \in T
    BY <1>1
  <2>2. T \in SUBSET Nodes
    OBVIOUS
  <2> HIDE DEF T
  <2>. QED
    BY <2>1, <2>2, FromTheLeaves
<1>3. Same(n, d)
  <2> HIDE DEF Same
  <2>. QED
    BY <1>2
<1>. QED
  BY <1>3

-----------------------------------------------------------------------------
(* Evidence *)

LEMMA ObservationsIs ==
    ASSUME NEW q \in Seq(Recordable), NEW i \in DOMAIN q
    PROVE  i \in 1..Len(q) /\ q[i] \in Recordable /\ IsValue(q[i].value)
  BY ConditionAssumption

LEMMA KnownIs ==
    ASSUME NEW q \in Seq(Recordable), NEW i \in DOMAIN q
    PROVE  LET same == {j \in DOMAIN q : q[j].id = q[i].id}
           IN  /\ q[i].id \in DOMAIN Known(q)
               /\ Max(same) \in same
               /\ Known(q)[q[i].id] = q[Max(same)].value
<1> DEFINE same == {j \in DOMAIN q : q[j].id = q[i].id}
<1>1. Len(q) \in Nat /\ DOMAIN q = 1..Len(q)
  OBVIOUS
<1>2. Max(same) \in same
  <2>1. same \in SUBSET (0..Len(q)) /\ same # {}
    BY <1>1
  <2> HIDE DEF same
  <2>. QED
    BY <1>1, <2>1, LargestIs
<1>3. q[i].id \in DOMAIN Known(q) /\ Known(q)[q[i].id] = q[Max(same)].value
  BY DEF Known
<1>. QED
  BY <1>2, <1>3

LEMMA KnownValues ==
    ASSUME NEW q \in Seq(Recordable)
    PROVE  Values(Known(q))
<1>1. ASSUME NEW id \in DOMAIN Known(q) PROVE IsValue(Known(q)[id])
  <2>1. PICK i \in DOMAIN q : id = q[i].id
    BY DEF Known
  <2>2. PICK j \in DOMAIN q : Known(q)[id] = q[j].value
    BY <2>1, KnownIs
  <2>. QED
    BY <2>2, ObservationsIs
<1>. QED
  BY <1>1 DEF Values

(* An observation under a new id leaves the others known. *)
LEMMA KnownExtends ==
    ASSUME NEW q \in Seq(Recordable), NEW o \in Recordable, DistinctIds(Append(q, o))
    PROVE  Extends(Known(q), Known(Append(q, o)))
<1> DEFINE p == Append(q, o)
<1>1. /\ p \in Seq(Recordable) /\ Len(p) = Len(q) + 1 /\ Len(q) \in Nat
      /\ DOMAIN p = 1..(Len(q) + 1) /\ DOMAIN q = 1..Len(q)
      /\ \A i \in 1..Len(q) : p[i] = q[i]
  OBVIOUS
<1>2. ASSUME NEW id \in DOMAIN Known(q)
      PROVE  id \in DOMAIN Known(p) /\ Known(p)[id] = Known(q)[id]
  <2>1. PICK i \in DOMAIN q : id = q[i].id
    BY DEF Known
  <2>2. i \in DOMAIN p /\ id = p[i].id
    BY <1>1, <2>1
  <2> HIDE DEF p
  <2> DEFINE old == {j \in DOMAIN q : q[j].id = q[i].id}
             new == {j \in DOMAIN p : p[j].id = p[i].id}
  <2>3. old = {i}
    <3>1. \A j \in DOMAIN q : q[j].id = q[i].id => j = i
      BY <1>1 DEF DistinctIds, p
    <3>. QED
      BY <3>1
  <2>4. new = {i}
    BY <2>2 DEF DistinctIds, p
  <2>5. /\ Max(old) \in old /\ Known(q)[id] = q[Max(old)].value
        /\ id \in DOMAIN Known(p) /\ Max(new) \in new /\ Known(p)[id] = p[Max(new)].value
    BY <1>1, <2>1, <2>2, KnownIs
  <2> HIDE DEF old, new
  <2>6. Known(q)[id] = q[i].value /\ Known(p)[id] = p[i].value
    BY <2>3, <2>4, <2>5
  <2>. QED
    BY <1>1, <2>5, <2>6
<1>. QED
  BY <1>2 DEF Extends

-----------------------------------------------------------------------------
(* The evaluators *)

TypeOK == root \in Roots /\ observations \in Seq(Recordable)

LEMMA Typing == ConditionSpec => []TypeOK
<1>1. ConditionInit => TypeOK
  BY DEF ConditionInit, TypeOK
<1>2. TypeOK /\ [ConditionNext]_conditionVars => TypeOK'
  BY DEF TypeOK, ConditionNext, Record, conditionVars
<1>. QED
  BY <1>1, <1>2, PTL DEF ConditionSpec

LEMMA RootIsNode == ASSUME TypeOK PROVE root \in Nodes
  BY ConditionAssumption DEF TypeOK

(* Both arithmetics come to the same verdict on what is recorded. *)
LEMMA SameArithmetic ==
    ASSUME TypeOK
    PROVE  EvaluateNode("rationals", root, Known(observations))
             = EvaluateNode("digits", root, Known(observations))
  BY RootIsNode, KnownValues, EvaluationsAgree DEF TypeOK

LEMMA ObservationsAreValid ==
    ASSUME TypeOK
    PROVE  /\ ValidValues("Python", observations) <=> ValidValues("Rust", observations)
           /\ ValidValues("JavaScript", observations) => ValidValues("Rust", observations)
           /\ \/ ValidValues("Rust", observations) => ValidValues("JavaScript", observations)
              \/ \E i \in DOMAIN observations : Straddles(observations[i].value)
<1>1. \A i \in DOMAIN observations : IsValue(observations[i].value)
  BY ObservationsIs DEF TypeOK
<1>. QED
  BY <1>1, ValueIsValid DEF ValidValues

(* The evaluators of three languages, one in exact rationals and one in    *)
(* digits, come to the same verdict or rejection on every condition and    *)
(* all evidence, however long the numbers in them, but for texts between   *)
(* the two counts, which JavaScript rejects.                               *)
THEOREM ConditionsAgree == ConditionSpec => []VerifiersAgree
<1>1. ASSUME TypeOK PROVE VerifiersAgree
  <2> DEFINE verdict == EvaluateNode("rationals", root, Known(observations))
             distinct == DistinctIds(observations)
             straddling == \/ NodeStraddles[root]
                           \/ \E i \in DOMAIN observations : Straddles(observations[i].value)
  <2>1. /\ ValidCondition("Python") <=> ValidCondition("Rust")
        /\ ValidCondition("JavaScript") => ValidCondition("Rust")
        /\ ValidCondition("Rust") /\ ~NodeStraddles[root] => ValidCondition("JavaScript")
    BY <1>1, RootIsNode, NodesAreValid DEF ValidCondition
  <2>2. EvaluateJavaScript(observations) =
          IF ValidCondition("JavaScript") /\ distinct /\ ValidValues("JavaScript", observations)
          THEN verdict ELSE "rejected"
    BY DEF EvaluateJavaScript
  <2>3. EvaluateRust(observations) =
          IF ValidCondition("Rust") /\ distinct /\ ValidValues("Rust", observations)
          THEN verdict ELSE "rejected"
    BY <1>1, SameArithmetic DEF EvaluateRust
  <2>4. EvaluatePython(observations) = verdict
    BY DEF EvaluatePython
  <2>5. ValidEvidence("Python", observations) =>
          distinct /\ ValidValues("Python", observations)
    BY DEF ValidEvidence
  <2> HIDE DEF verdict, distinct
  <2>6. \/ EvaluateJavaScript(observations) = EvaluateRust(observations)
        \/ EvaluateJavaScript(observations) = "rejected" /\ straddling
    BY <1>1, <2>1, <2>2, <2>3, ObservationsAreValid
  <2>7. ValidCondition("Python") /\ ValidEvidence("Python", observations) =>
          EvaluatePython(observations) = EvaluateRust(observations)
    BY <1>1, <2>1, <2>3, <2>4, <2>5, ObservationsAreValid
  <2>. QED
    BY <2>6, <2>7 DEF VerifiersAgree
<1>. QED
  BY <1>1, Typing, PTL

(* Whatever the condition and the evidence: the argument at which an       *)
(* evaluator stops never decides otherwise than all of them would.         *)
THEOREM ConditionsSound == ConditionSpec => []VerdictSound
<1>1. ASSUME TypeOK, EvaluateRust(observations) # "rejected"
      PROVE  Certain(root, EvaluateRust(observations) = "true", Known(observations))
  <2> DEFINE values == Known(observations)
  <2>1. EvaluateRust(observations) = EvaluateNode("rationals", root, values)
    BY <1>1, SameArithmetic DEF EvaluateRust
  <2> HIDE DEF values
  <2>2. PICK f : /\ Evaluates("rationals", values, f)
                 /\ \A n \in Nodes : /\ f[n] \in Verdicts
                                     /\ EvaluateNode("rationals", n, values) = f[n]
    BY EvaluateNodeIs
  <2>3. PICK s : /\ Said(values, s)
                 /\ \A n \in Nodes, b \in BOOLEAN : Certain(n, b, values) = s[n][b]
    BY CertainIs
  <2>4. root \in Nodes /\ f[root] \in {"true", "false"} /\ EvaluateRust(observations) = f[root]
    BY <1>1, <2>1, <2>2, RootIsNode DEF Verdicts
  <2>5. (f[root] = "true" => s[root][TRUE]) /\ (f[root] = "false" => s[root][FALSE])
    BY <2>2, <2>3, <2>4, EvaluationIsSound
  <2>6. CASE f[root] = "true"
    <3>1. Certain(root, TRUE, values)
      BY <2>3, <2>4, <2>5, <2>6
    <3>2. (EvaluateRust(observations) = "true") = TRUE
      BY <2>4, <2>6
    <3>. QED
      BY <3>1, <3>2 DEF values
  <2>7. CASE f[root] = "false"
    <3>1. Certain(root, FALSE, values)
      BY <2>3, <2>4, <2>5, <2>7
    <3>2. (EvaluateRust(observations) = "true") = FALSE
      BY <2>4, <2>7
    <3>. QED
      BY <3>1, <3>2 DEF values
  <2>. QED
    BY <2>4, <2>6, <2>7
<1>2. TypeOK => VerdictSound
  BY <1>1 DEF VerdictSound
<1>. QED
  BY <1>2, Typing, PTL

(* Whatever the condition and the evidence: what more evidence adds under  *)
(* new ids never turns a verdict, nor takes it back.                       *)
THEOREM VerdictsStand == ConditionSpec => VerdictStands
<1> DEFINE verdict == EvaluateRust(observations)
           Stands == verdict # "rejected" /\ ValidEvidence("Rust", observations')
                       => EvaluateRust(observations') = verdict
<1>1. ASSUME TypeOK, ConditionNext, verdict # "rejected", ValidEvidence("Rust", observations')
      PROVE  EvaluateRust(observations') = verdict
  <2>1. PICK o \in Recordable : observations' = Append(observations, o)
    BY <1>1 DEF ConditionNext, Record
  <2> DEFINE values == Known(observations)
             more == Known(observations')
  <2>2. Extends(values, more)
    BY <1>1, <2>1, KnownExtends DEF TypeOK, ValidEvidence
  <2>3. EvaluateRust(observations) = EvaluateNode("digits", root, values)
    BY <1>1 DEF EvaluateRust
  <2>4. EvaluateRust(observations') = EvaluateNode("digits", root, more)
    BY <1>1 DEF EvaluateRust, ValidEvidence
  <2> HIDE DEF values, more
  <2>5. PICK f : /\ Evaluates("digits", values, f)
                 /\ \A n \in Nodes : EvaluateNode("digits", n, values) = f[n]
    BY EvaluateNodeIs
  <2>6. PICK g : /\ Evaluates("digits", more, g)
                 /\ \A n \in Nodes : EvaluateNode("digits", n, more) = g[n]
    BY EvaluateNodeIs
  <2>7. \A n \in Nodes : f[n] # "rejected" => g[n] = f[n]
    BY <2>2, <2>5, <2>6, EvaluationStands
  <2>. QED
    BY <1>1, <2>3, <2>4, <2>5, <2>6, <2>7, RootIsNode
<1>2. TypeOK /\ [ConditionNext]_conditionVars => [Stands]_conditionVars
  BY <1>1
<1>. QED
  BY <1>2, Typing, PTL DEF ConditionSpec, VerdictStands
=============================================================================
