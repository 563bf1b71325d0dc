----------------------------- MODULE FoldLemmas -----------------------------
(***************************************************************************)
(* Induction and folds, for the modules of proofs.  The provers take no    *)
(* predicate as a parameter, so an induction is stated about the set of    *)
(* the values that have the property, and rests on a least counterexample. *)
(***************************************************************************)
EXTENDS Integers, Sequences, SequencesExt, FiniteSetTheorems, WellFoundedInduction, TLAPS

(* A set of natural numbers has a least one, a bounded one a greatest.     *)
LEMMA LeastNat ==
  ASSUME NEW T, T \subseteq Nat, T # {}
  PROVE  \E n \in T : \A m \in T : n <= m
<1>1. PICK R : IsWellFoundedOn(R, Nat) /\ \A m, n \in Nat : m < n => <<m, n>> \in R
  <2>1. \A m, n \in Nat : m < n => <<m, n>> \in OpToRel(<, Nat)
    BY DEF OpToRel
  <2>. QED
    BY <2>1, NatLessThanWellFounded
<1>2. PICK n \in T : \A m \in T : ~(<<m, n>> \in R)
  <2>1. IsWellFoundedOn(R, Nat)
    BY <1>1
  <2>. QED
    BY <2>1, WFMin, Zenon
<1>3. \A m \in T : n <= m
  <2>. TAKE m \in T
  <2>1. m \in Nat /\ n \in Nat
    OBVIOUS
  <2>2. ~(m < n)
    BY <1>1, <1>2, <2>1
  <2>. QED
    BY <2>1, <2>2
<1>. QED
  BY <1>3

LEMMA GreatestNat ==
  ASSUME NEW n \in Nat, NEW T, T \subseteq 0..n, T # {}
  PROVE  \E m \in T : \A k \in T : m >= k
<1>. DEFINE Below == {n - k : k \in T}
<1>1. \A k \in T : k \in Int /\ 0 <= k /\ k <= n
  OBVIOUS
<1>2. Below \subseteq Nat /\ Below # {}
  <2>1. \A k \in T : n - k \in Nat
    BY <1>1
  <2>2. PICK k \in T : TRUE
    OBVIOUS
  <2>3. n - k \in Below
    OBVIOUS
  <2>. QED
    BY <2>1, <2>3
<1>3. PICK b \in Below : \A c \in Below : b <= c
  BY <1>2, LeastNat, Zenon
<1>4. PICK m \in T : b = n - m
  OBVIOUS
<1>5. \A k \in T : n - m <= n - k
  BY <1>3, <1>4
<1>6. \A k \in T : m >= k
  BY <1>1, <1>5
<1>. QED
  BY <1>6

(* What Min and Max return.                                                *)
LEMMA MinOK ==
  ASSUME NEW T, T \subseteq Nat, T # {}
  PROVE  Min(T) \in T
<1>1. \E n \in T : \A m \in T : n <= m
  BY LeastNat, Zenon
<1>. QED
  BY <1>1 DEF Min

LEMMA MaxOK ==
  ASSUME NEW n \in Nat, NEW T, T \subseteq 0..n, T # {}
  PROVE  Max(T) \in T
<1>1. \E m \in T : \A k \in T : m >= k
  BY GreatestNat, Zenon
<1>. QED
  BY <1>1 DEF Max

(* A finite set has a first element in any total preorder: one that comes  *)
(* before as many as any.                                                  *)
LEMMA FirstOfAll ==
  ASSUME NEW T, IsFiniteSet(T), T # {}, NEW R,
         \A x, y \in T : <<x, y>> \in R \/ <<y, x>> \in R,
         \A x, y, z \in T : <<x, y>> \in R /\ <<y, z>> \in R => <<x, z>> \in R
  PROVE  \E x \in T : \A y \in T : <<x, y>> \in R
<1>. DEFINE Later(x) == {y \in T : <<x, y>> \in R}
            counts   == {Cardinality(Later(x)) : x \in T}
<1>1. \A x \in T : IsFiniteSet(Later(x)) /\ Cardinality(Later(x)) \in 0..Cardinality(T)
  <2>. TAKE x \in T
  <2>1. Later(x) \in SUBSET T
    OBVIOUS
  <2>2. IsFiniteSet(Later(x)) /\ Cardinality(Later(x)) <= Cardinality(T)
    BY <2>1, FS_Subset
  <2>3. Cardinality(Later(x)) \in Nat /\ Cardinality(T) \in Nat
    BY <2>2, FS_CardinalityType
  <2>. QED
    BY <2>2, <2>3
<1>2. PICK m \in counts : \A k \in counts : m >= k
  <2>1. Cardinality(T) \in Nat
    BY FS_CardinalityType
  <2>2. PICK x \in T : TRUE
    OBVIOUS
  <2>3. Cardinality(Later(x)) \in counts
    BY <2>2
  <2>4. counts \subseteq 0..Cardinality(T)
    BY <1>1
  <2>. HIDE DEF counts
  <2>. QED
    BY <2>1, <2>3, <2>4, GreatestNat, Zenon
<1>3. PICK x \in T : m = Cardinality(Later(x))
  OBVIOUS
<1>4. ASSUME NEW y \in T, <<x, y>> \notin R PROVE FALSE
  <2>1. <<y, x>> \in R /\ <<y, y>> \in R
    BY <1>4
  <2>2. Later(x) \subseteq Later(y) /\ y \in Later(y) /\ y \notin Later(x)
    BY <1>4, <2>1
  <2>. HIDE DEF Later
  <2>3. IsFiniteSet(Later(y)) /\ Later(x) \in SUBSET Later(y)
    BY <1>1, <2>2
  <2>4. Cardinality(Later(x)) <= Cardinality(Later(y)) /\ Cardinality(Later(x)) # Cardinality(Later(y))
    BY <2>2, <2>3, FS_Subset
  <2>5. Cardinality(Later(x)) >= Cardinality(Later(y))
    BY <1>2, <1>3
  <2>6. Cardinality(Later(x)) \in Int /\ Cardinality(Later(y)) \in Int
    BY <1>1
  <2>. QED
    BY <2>4, <2>5, <2>6
<1>. QED
  BY <1>4

LEMMA FiniteMaxOK ==
  ASSUME NEW T, IsFiniteSet(T), T \subseteq Int, T # {}
  PROVE  Max(T) \in T /\ \A x \in T : x <= Max(T)
<1>. DEFINE R == {p \in T \X T : p[1] >= p[2]}
<1>1. \A x, y \in T : <<x, y>> \in R <=> x >= y
  OBVIOUS
<1>. HIDE DEF R
<1>2. \E m \in T : \A k \in T : <<m, k>> \in R
  <2>1. \A x, y \in T : <<x, y>> \in R \/ <<y, x>> \in R
    <3>. TAKE x, y \in T
    <3>1. x >= y \/ y >= x
      OBVIOUS
    <3>2. (<<x, y>> \in R <=> x >= y) /\ (<<y, x>> \in R <=> y >= x)
      BY <1>1
    <3>. QED
      BY <3>1, <3>2, Zenon
  <2>2. \A x, y, z \in T : <<x, y>> \in R /\ <<y, z>> \in R => <<x, z>> \in R
    <3>1. \A x, y, z \in T : x >= y /\ y >= z => x >= z
      OBVIOUS
    <3>. QED
      BY <1>1, <3>1
  <2>. QED
    BY <2>1, <2>2, FirstOfAll
<1>3. \E m \in T : \A k \in T : m >= k
  BY <1>1, <1>2
<1>4. Max(T) \in T /\ \A k \in T : Max(T) >= k
  BY <1>3 DEF Max
<1>. QED
  BY <1>4

(* The set of what a sequence holds.                                       *)
LEMMA ToSetFinite ==
  ASSUME NEW n \in Nat, NEW s, DOMAIN s = 1..n
  PROVE  IsFiniteSet(ToSet(s)) /\ ToSet(s) = {s[k] : k \in 1..n}
<1>1. ToSet(s) = {s[k] : k \in 1..n}
  BY DEF ToSet
<1>2. IsFiniteSet(1..n)
  BY FS_Interval
<1>3. IsFiniteSet({s[k] : k \in 1..n})
  <2>. DEFINE T == {s[k] : k \in 1..n}
              f == [k \in 1..n |-> s[k]]
  <2>1. f \in Surjection(1..n, T)
    BY DEF Surjection
  <2>. HIDE DEF T, f
  <2>2. IsFiniteSet(T)
    BY <1>2, <2>1, FS_Surjection
  <2>. QED
    BY <2>2 DEF T
<1>. QED
  BY <1>1, <1>3

(* Induction on a number, up to n.                                         *)
LEMMA UpTo ==
  ASSUME NEW n \in Nat, NEW P, 0 \in P, \A k \in 0..(n - 1) : k \in P => k + 1 \in P
  PROVE  \A k \in 0..n : k \in P
<1>. DEFINE Bad == {k \in 0..n : k \notin P}
<1>. SUFFICES ASSUME Bad # {} PROVE FALSE
  OBVIOUS
<1>1. PICK k \in Bad : \A m \in Bad : k <= m
  <2>1. Bad \subseteq Nat
    OBVIOUS
  <2>. HIDE DEF Bad
  <2>. QED
    BY <2>1, LeastNat
<1>2. k # 0 /\ k - 1 \in 0..n /\ k - 1 \in 0..(n - 1) /\ ~(k <= k - 1)
  OBVIOUS
<1>3. k - 1 \in P
  BY <1>1, <1>2
<1>. QED
  BY <1>2, <1>3

(* Induction on the subsets of a finite set, by those with one member less.*)
LEMMA OneLess ==
  ASSUME NEW S, IsFiniteSet(S), NEW P,
         \A s \in SUBSET S : (\A x \in s : s \ {x} \in P) => s \in P
  PROVE  \A s \in SUBSET S : s \in P
<1>. DEFINE Q == {n \in Nat : \A s \in SUBSET S : Cardinality(s) = n => s \in P}
<1>1. \A s \in SUBSET S : IsFiniteSet(s) /\ Cardinality(s) \in Nat /\ (Cardinality(s) = 0 => s = {})
  BY FS_Subset, FS_CardinalityType, FS_EmptySet
<1>2. 0 \in Q
  BY <1>1
<1>3. ASSUME NEW k \in Nat, k \in Q PROVE k + 1 \in Q
  <2>. SUFFICES ASSUME NEW s \in SUBSET S, Cardinality(s) = k + 1, NEW x \in s PROVE s \ {x} \in P
    OBVIOUS
  <2>1. Cardinality(s \ {x}) = Cardinality(s) - 1
    BY <1>1, FS_RemoveElement
  <2>2. s \ {x} \in SUBSET S /\ Cardinality(s \ {x}) = k
    BY <2>1
  <2>. QED
    BY <1>3, <2>2
<1>. HIDE DEF Q
<1>4. ASSUME NEW s \in SUBSET S PROVE s \in P
  <2>. DEFINE n == Cardinality(s)
  <2>1. n \in Nat /\ \A k \in 0..(n - 1) : k \in Q => k + 1 \in Q
    BY <1>1, <1>3
  <2>. HIDE DEF n
  <2>2. n \in Q
    BY <1>2, <2>1, UpTo
  <2>. QED
    BY <2>2 DEF n, Q
<1>. QED
  BY <1>4

-----------------------------------------------------------------------------
(* Folds over a finite set.                                                *)

(* g takes every subset of S apart, one picked member at a time.           *)
TakesApart(g, S, base, pick, step) ==
  /\ g[{}] = base
  /\ \A s \in SUBSET S : s # {} => g[s] = step[pick[s]][g[s \ {pick[s]}]]

(* Such a function exists.                                                 *)
LEMMA FoldExists ==
  ASSUME NEW S, IsFiniteSet(S), NEW V, NEW base \in V,
         NEW pick \in [(SUBSET S) \ {{}} -> S], \A s \in (SUBSET S) \ {{}} : pick[s] \in s,
         NEW step \in [S -> [V -> V]]
  PROVE  \E g \in [SUBSET S -> V] : TakesApart(g, S, base, pick, step)
<1>. DEFINE Upto(n)  == {s \in SUBSET S : Cardinality(s) <= n}
            Folds(n, g) == \A s \in Upto(n) :
                        g[s] = IF s = {} THEN base ELSE step[pick[s]][g[s \ {pick[s]}]]
            Bad == {n \in Nat : ~\E g \in [Upto(n) -> V] : Folds(n, g)}
<1>0. /\ \A s \in SUBSET S : s # {} => pick[s] \in s
      /\ \A x \in S : \A v \in V : step[x][v] \in V
  OBVIOUS
<1>1. \A s \in SUBSET S : IsFiniteSet(s) /\ Cardinality(s) \in Nat /\ (Cardinality(s) = 0 <=> s = {})
  BY FS_Subset, FS_CardinalityType, FS_EmptySet
<1>2. ASSUME NEW s \in SUBSET S, s # {}
      PROVE  s \ {pick[s]} \in SUBSET S /\ Cardinality(s \ {pick[s]}) = Cardinality(s) - 1
  BY <1>0, <1>1, <1>2, FS_RemoveElement
<1>3. Bad = {}
  <2>. SUFFICES ASSUME Bad # {} PROVE FALSE
    OBVIOUS
  <2>1. PICK n \in Bad : \A m \in Bad : n <= m
    BY LeastNat, Zenon
  <2>2. n \in Nat
    OBVIOUS
  <2>. DEFINE Prior == {s \in SUBSET S : Cardinality(s) < n}
  <2>3. \E g \in [Prior -> V] : \A s \in Prior :
          g[s] = IF s = {} THEN base ELSE step[pick[s]][g[s \ {pick[s]}]]
    <3>1. CASE n = 0
      <4>1. Prior = {}
        <5>1. \A s \in SUBSET S : ~(Cardinality(s) < n)
          BY <1>1, <3>1
        <5>. QED
          BY <5>1, Zenon
      <4>2. [s \in Prior |-> base] \in [Prior -> V]
        OBVIOUS
      <4>. HIDE DEF Prior
      <4>. QED
        BY <4>1, <4>2
    <3>2. CASE n # 0
      <4>1. n - 1 \in Nat /\ ~(n <= n - 1)
        BY <2>2, <3>2
      <4>2. n - 1 \notin Bad
        BY <2>1, <4>1, Zenon
      <4>3. \E g \in [Upto(n - 1) -> V] : Folds(n - 1, g)
        BY <4>1, <4>2, Zenon
      <4>4. \A s \in SUBSET S : Cardinality(s) <= n - 1 <=> Cardinality(s) < n
        BY <1>1, <2>2
      <4>5. Upto(n - 1) = Prior
        BY <4>4, Zenon
      <4>. HIDE DEF Upto, Prior
      <4>. QED
        BY <4>3, <4>5
    <3>. QED
      BY <3>1, <3>2
  <2>4. PICK g \in [Prior -> V] : \A s \in Prior :
          g[s] = IF s = {} THEN base ELSE step[pick[s]][g[s \ {pick[s]}]]
    BY <2>3
  <2>. DEFINE h == [s \in Upto(n) |-> IF s = {} THEN base ELSE step[pick[s]][g[s \ {pick[s]}]]]
  <2>5. \A s \in Upto(n) : s # {} => s \ {pick[s]} \in Prior /\ s \ {pick[s]} \in Upto(n) /\ pick[s] \in S
    <3>. SUFFICES ASSUME NEW s \in Upto(n), s # {}
         PROVE s \ {pick[s]} \in Prior /\ s \ {pick[s]} \in Upto(n) /\ pick[s] \in S
      OBVIOUS
    <3>1. s \in SUBSET S /\ Cardinality(s) <= n /\ Cardinality(s) \in Nat
      BY <1>1
    <3>2. s \ {pick[s]} \in SUBSET S /\ Cardinality(s \ {pick[s]}) = Cardinality(s) - 1
      BY <1>2, <3>1
    <3>3. Cardinality(s \ {pick[s]}) < n /\ Cardinality(s \ {pick[s]}) <= n
      BY <2>2, <3>1, <3>2
    <3>4. pick[s] \in S
      BY <1>0, <3>1
    <3>. QED
      BY <3>2, <3>3, <3>4
  <2>6. h \in [Upto(n) -> V]
    <3>. HIDE DEF Upto, Prior
    <3>. QED
      BY <1>0, <2>4, <2>5
  <2>7. \A s \in Prior : h[s] = g[s]
    <3>1. \A s \in Prior : s \in Upto(n)
      BY <1>1, <2>2
    <3>. HIDE DEF Upto, Prior
    <3>. QED
      BY <2>4, <3>1
  <2>8. Folds(n, h)
    <3>. SUFFICES ASSUME NEW s \in Upto(n)
         PROVE h[s] = IF s = {} THEN base ELSE step[pick[s]][h[s \ {pick[s]}]]
      OBVIOUS
    <3>1. h[s] = IF s = {} THEN base ELSE step[pick[s]][g[s \ {pick[s]}]]
      BY Zenon
    <3>. HIDE DEF h, Upto, Prior
    <3>. QED
      BY <2>5, <2>7, <3>1
  <2>9. n \notin Bad
    BY <2>6, <2>8, Zenon
  <2>. QED
    BY <2>9
<1>4. Cardinality(S) \in Nat /\ Upto(Cardinality(S)) = SUBSET S
  BY <1>1, FS_Subset
<1>5. \E g \in [Upto(Cardinality(S)) -> V] : Folds(Cardinality(S), g)
  BY <1>3, <1>4, Zenon
<1>. HIDE DEF Upto
<1>6. PICK g \in [SUBSET S -> V] :
        \A s \in SUBSET S : g[s] = IF s = {} THEN base ELSE step[pick[s]][g[s \ {pick[s]}]]
  BY <1>4, <1>5
<1>7. TakesApart(g, S, base, pick, step)
  BY <1>6 DEF TakesApart
<1>. QED
  BY <1>7, Zenon

(* The sum of a function over a finite set does not depend on the order in *)
(* which the set is taken apart.                                           *)
LEMMA SumOK ==
  ASSUME NEW T, IsFiniteSet(T), NEW f \in [T -> Nat]
  PROVE  /\ SumFunctionOnSet(f, {}) = 0
         /\ \A s \in SUBSET T : SumFunctionOnSet(f, s) \in Nat
         /\ \A s \in SUBSET T : \A x \in s :
              SumFunctionOnSet(f, s) = f[x] + SumFunctionOnSet(f, s \ {x})
<1>. DEFINE Some(s) == CHOOSE x \in s : TRUE
            pick == [s \in (SUBSET T) \ {{}} |-> Some(s)]
            step == [x \in T |-> [v \in Nat |-> f[x] + v]]
<1>1. pick \in [(SUBSET T) \ {{}} -> T] /\ \A s \in (SUBSET T) \ {{}} : pick[s] \in s
  OBVIOUS
<1>2. PICK g \in [SUBSET T -> Nat] : TakesApart(g, T, 0, pick, step)
  <2>1. step \in [T -> [Nat -> Nat]] /\ 0 \in Nat
    OBVIOUS
  <2>. HIDE DEF pick, step
  <2>. QED
    BY <1>1, <2>1, FoldExists
<1>3. g[{}] = 0
  BY <1>2 DEF TakesApart
<1>4. \A s \in SUBSET T : s # {} => Some(s) \in s /\ g[s] = f[Some(s)] + g[s \ {Some(s)}]
  BY <1>2 DEF TakesApart
<1>. HIDE DEF Some
<1>5. ASSUME NEW S \in SUBSET T PROVE SumFunctionOnSet(f, S) = g[S]
  <2>. DEFINE Next(h, s) == IF s = {} THEN 0 ELSE f[Some(s)] + h[s \ {Some(s)}]
              iter[s \in SUBSET S] == IF s = {} THEN 0 ELSE f[Some(s)] + iter[s \ {Some(s)}]
              h == [s \in SUBSET S |-> g[s]]
  <2>1. SumFunctionOnSet(f, S) = iter[S]
    BY DEF SumFunctionOnSet, FoldFunctionOnSet, MapThenFoldSet, Some
  <2>2. \A s \in SUBSET S : h[s] = Next(h, s)
    <3>. SUFFICES ASSUME NEW s \in SUBSET S PROVE h[s] = Next(h, s)
      OBVIOUS
    <3>1. s \in SUBSET T /\ s \ {Some(s)} \in SUBSET S
      OBVIOUS
    <3>. QED
      BY <1>3, <1>4, <3>1
  <2>3. h = [s \in SUBSET S |-> Next(h, s)]
    <3>1. h = [s \in SUBSET S |-> h[s]]
      OBVIOUS
    <3>. HIDE DEF h, Next
    <3>. QED
      BY <2>2, <3>1
  <2>4. iter = [s \in SUBSET S |-> Next(iter, s)]
    <3>1. \E w : w = [s \in SUBSET S |-> Next(w, s)]
      BY <2>3, Zenon
    <3>. QED
      BY <3>1, Zenon
  <2>. HIDE DEF iter
  <2>5. \A s \in SUBSET S : iter[s] = Next(iter, s)
    BY <2>4, Zenon
  <2>. DEFINE Equal == {s \in SUBSET S : iter[s] = g[s]}
  <2>6. ASSUME NEW s \in SUBSET S, \A x \in s : s \ {x} \in Equal PROVE s \in Equal
    <3>1. CASE s = {}
      BY <1>3, <2>5, <3>1
    <3>2. CASE s # {}
      BY <1>4, <2>5, <2>6, <3>2
    <3>. QED
      BY <3>1, <3>2
  <2>7. IsFiniteSet(S)
    BY FS_Subset
  <2>. HIDE DEF Equal
  <2>8. S \in Equal
    BY <2>6, <2>7, OneLess
  <2>. QED
    BY <2>1, <2>8 DEF Equal
<1>. DEFINE Apart == {s \in SUBSET T : \A x \in s : g[s] = f[x] + g[s \ {x}]}
<1>6. ASSUME NEW s \in SUBSET T, \A x \in s : s \ {x} \in Apart, NEW x \in s
      PROVE  g[s] = f[x] + g[s \ {x}]
  <2>. DEFINE y == Some(s)
  <2>1. y \in s /\ g[s] = f[y] + g[s \ {y}]
    BY <1>4
  <2>. HIDE DEF y
  <2>2. CASE x = y
    BY <2>1, <2>2
  <2>3. CASE x # y
    <3>1. g[s \ {y}] = f[x] + g[(s \ {y}) \ {x}] /\ g[s \ {x}] = f[y] + g[(s \ {x}) \ {y}]
      BY <1>6, <2>1, <2>3
    <3>2. (s \ {y}) \ {x} = (s \ {x}) \ {y}
      OBVIOUS
    <3>3. f[x] \in Nat /\ f[y] \in Nat /\ g[(s \ {x}) \ {y}] \in Nat
      BY <1>2, <2>1
    <3>4. \A a, b, c \in Nat : a + (b + c) = b + (a + c)
      OBVIOUS
    <3>5. f[y] + (f[x] + g[(s \ {x}) \ {y}]) = f[x] + (f[y] + g[(s \ {x}) \ {y}])
      BY <3>3, <3>4, Zenon
    <3>6. g[s] = f[y] + (f[x] + g[(s \ {x}) \ {y}])
      BY <2>1, <3>1, <3>2, Zenon
    <3>. QED
      BY <3>1, <3>5, <3>6, Zenon
  <2>. QED
    BY <2>2, <2>3
<1>7. \A s \in SUBSET T : (\A x \in s : s \ {x} \in Apart) => s \in Apart
  BY <1>6
<1>. HIDE DEF Apart
<1>8. \A s \in SUBSET T : s \in Apart
  BY <1>7, OneLess
<1>9. \A s \in SUBSET T : \A x \in s : s \ {x} \in SUBSET T
  OBVIOUS
<1>. QED
  BY <1>2, <1>3, <1>5, <1>8, <1>9 DEF Apart

(* What follows for larger sets and for unions.                            *)
LEMMA SumGrows ==
  ASSUME NEW T, IsFiniteSet(T), NEW f \in [T -> Nat], NEW A \in SUBSET T, NEW B \in SUBSET T
  PROVE  /\ A \subseteq B => SumFunctionOnSet(f, A) <= SumFunctionOnSet(f, B)
         /\ SumFunctionOnSet(f, A \cup B) <= SumFunctionOnSet(f, A) + SumFunctionOnSet(f, B)
<1>. DEFINE Sum(s) == SumFunctionOnSet(f, s)
            Smaller == {s \in SUBSET B : Sum(A) <= Sum(A \cup s) /\ Sum(A \cup s) <= Sum(A) + Sum(s)}
<1>1. /\ Sum({}) = 0
      /\ \A s \in SUBSET T : Sum(s) \in Nat
      /\ \A s \in SUBSET T : \A x \in s : Sum(s) = f[x] + Sum(s \ {x})
  BY SumOK
<1>. HIDE DEF Sum
<1>2. ASSUME NEW s \in SUBSET B, \A x \in s : s \ {x} \in Smaller PROVE s \in Smaller
  <2>1. CASE s = {}
    <3>1. A \cup s = A
      BY <2>1
    <3>. QED
      BY <1>1, <2>1, <3>1
  <2>2. CASE s # {}
    <3>1. PICK x \in s : TRUE
      BY <2>2
    <3>. DEFINE r == s \ {x}
    <3>2. Sum(A) <= Sum(A \cup r) /\ Sum(A \cup r) <= Sum(A) + Sum(r)
      BY <1>2, <3>1
    <3>3. Sum(s) = f[x] + Sum(r) /\ f[x] \in Nat
      BY <1>1
    <3>4. Sum(A) \in Nat /\ Sum(A \cup r) \in Nat /\ Sum(r) \in Nat
      BY <1>1
    <3>5. CASE x \in A
      <4>1. A \cup s = A \cup r
        BY <3>5
      <4>. HIDE DEF r
      <4>2. Sum(A) <= Sum(A \cup s) /\ Sum(A \cup s) <= Sum(A) + Sum(s)
        BY <3>2, <3>3, <3>4, <4>1
      <4>. QED
        BY <4>2
    <3>6. CASE x \notin A
      <4>1. (A \cup s) \ {x} = A \cup r /\ A \cup s \in SUBSET T /\ x \in A \cup s
        BY <3>6
      <4>. HIDE DEF r
      <4>2. Sum(A \cup s) = f[x] + Sum(A \cup r)
        BY <1>1, <4>1
      <4>. QED
        BY <3>2, <3>3, <3>4, <4>2
    <3>. QED
      BY <3>5, <3>6
  <2>. QED
    BY <2>1, <2>2
<1>3. IsFiniteSet(B)
  BY FS_Subset
<1>. HIDE DEF Smaller
<1>4. B \in Smaller
  BY <1>2, <1>3, OneLess
<1>5. A \subseteq B => A \cup B = B
  OBVIOUS
<1>. QED
  BY <1>4, <1>5 DEF Smaller, Sum

(* ... and the sums of sets that share nothing add up.                     *)
LEMMA SumJoin ==
  ASSUME NEW T, IsFiniteSet(T), NEW f \in [T -> Nat], NEW A \in SUBSET T, NEW B \in SUBSET T,
         A \cap B = {}
  PROVE  SumFunctionOnSet(f, A \cup B) = SumFunctionOnSet(f, A) + SumFunctionOnSet(f, B)
<1>. DEFINE Sum(s) == SumFunctionOnSet(f, s)
            Joined == {s \in SUBSET B : Sum(A \cup s) = Sum(A) + Sum(s)}
<1>1. /\ Sum({}) = 0
      /\ \A s \in SUBSET T : Sum(s) \in Nat
      /\ \A s \in SUBSET T : \A x \in s : Sum(s) = f[x] + Sum(s \ {x})
  BY SumOK
<1>. HIDE DEF Sum
<1>2. ASSUME NEW s \in SUBSET B, \A x \in s : s \ {x} \in Joined PROVE s \in Joined
  <2>1. CASE s = {}
    <3>1. A \cup s = A
      BY <2>1
    <3>. QED
      BY <1>1, <2>1, <3>1
  <2>2. CASE s # {}
    <3>1. PICK x \in s : TRUE
      BY <2>2
    <3>. DEFINE r == s \ {x}
    <3>2. Sum(A \cup r) = Sum(A) + Sum(r)
      BY <1>2, <3>1
    <3>3. Sum(s) = f[x] + Sum(r) /\ f[x] \in Nat
      BY <1>1
    <3>4. Sum(A) \in Nat /\ Sum(A \cup r) \in Nat /\ Sum(r) \in Nat
      BY <1>1
    <3>5. (A \cup s) \ {x} = A \cup r /\ A \cup s \in SUBSET T /\ x \in A \cup s
      OBVIOUS
    <3>. HIDE DEF r
    <3>6. Sum(A \cup s) = f[x] + Sum(A \cup r)
      BY <1>1, <3>5
    <3>. QED
      BY <3>2, <3>3, <3>4, <3>6
  <2>. QED
    BY <2>1, <2>2
<1>3. IsFiniteSet(B)
  BY FS_Subset
<1>. HIDE DEF Joined
<1>4. \A s \in SUBSET B : (\A x \in s : s \ {x} \in Joined) => s \in Joined
  BY <1>2
<1>5. \A s \in SUBSET B : s \in Joined
  BY ONLY <1>3, <1>4, OneLess
<1>6. B \in Joined
  BY <1>5
<1>. QED
  BY <1>6 DEF Joined, Sum

-----------------------------------------------------------------------------
(* Folds over a sequence.  FoldLeft takes its domain apart from the end.   *)

FromTheEnd(g, n, base, step) ==
  /\ g[{}] = base
  /\ \A S \in SUBSET (1..n) : S # {} =>
       /\ Max(S) \in 1..n /\ S \ {Max(S)} \in SUBSET (1..n)
       /\ g[S] = step[Max(S)][g[S \ {Max(S)}]]

(* Such a function exists, too.                                            *)
LEMMA FromTheEndExists ==
  ASSUME NEW n \in Nat, NEW V, NEW base \in V, NEW step \in [1..n -> [V -> V]]
  PROVE  \E g \in [SUBSET (1..n) -> V] : FromTheEnd(g, n, base, step)
<1>. DEFINE pick == [S \in (SUBSET (1..n)) \ {{}} |-> Max(S)]
<1>1. \A S \in (SUBSET (1..n)) \ {{}} : Max(S) \in S
  <2>. SUFFICES ASSUME NEW S \in (SUBSET (1..n)) \ {{}} PROVE Max(S) \in S
    OBVIOUS
  <2>1. S \subseteq 0..n /\ S # {}
    OBVIOUS
  <2>. QED
    BY <2>1, MaxOK
<1>2. PICK g \in [SUBSET (1..n) -> V] : TakesApart(g, 1..n, base, pick, step)
  <2>1. pick \in [(SUBSET (1..n)) \ {{}} -> 1..n]
        /\ \A S \in (SUBSET (1..n)) \ {{}} : pick[S] \in S
    BY <1>1
  <2>2. IsFiniteSet(1..n)
    BY FS_Interval
  <2>. HIDE DEF pick
  <2>. QED
    BY <2>1, <2>2, FoldExists
<1>3. FromTheEnd(g, n, base, step)
  BY <1>1, <1>2 DEF TakesApart, FromTheEnd
<1>. QED
  BY <1>3

(* The first k places, and the last of them.                               *)
LEMMA FirstPlaces ==
  ASSUME NEW n \in Nat, NEW k \in 1..n
  PROVE  /\ 1..k \in SUBSET (1..n) /\ 1..k # {} /\ 1..(k - 1) \in SUBSET (1..n)
         /\ Max(1..k) = k /\ (1..k) \ {k} = 1..(k - 1)
<1>1. k \in 1..k /\ (\A m \in 1..k : m \in 1..n) /\ \A m \in 1..(k - 1) : m \in 1..n
  OBVIOUS
<1>2. \A m : m \in (1..k) \ {k} <=> m \in 1..(k - 1)
  OBVIOUS
<1>3. \A m \in 1..k : k >= m /\ (m >= k => m = k)
  OBVIOUS
<1>4. Max(1..k) = k
  BY <1>1, <1>3 DEF Max
<1>. QED
  BY <1>1, <1>2, <1>4

(* Two functions that grow alike from one place to the next are alike.     *)
LEMMA SameFold ==
  ASSUME NEW n \in Nat, NEW h, NEW g, h[{}] = g[{}],
         \A k \in 1..n : h[1..(k - 1)] = g[1..(k - 1)] => h[1..k] = g[1..k]
  PROVE  h[1..n] = g[1..n]
<1>. DEFINE P == {k \in 0..n : h[1..k] = g[1..k]}
<1>1. 1..0 = {}
  OBVIOUS
<1>2. 0 \in P
  BY <1>1
<1>3. \A k \in 0..(n - 1) : k \in P => k + 1 \in P
  <2>1. \A k \in 0..(n - 1) : k + 1 \in 1..n /\ k + 1 \in 0..n /\ (k + 1) - 1 = k
    OBVIOUS
  <2>. QED
    BY <2>1
<1>. HIDE DEF P
<1>4. n \in P
  <2>1. \A k \in 0..n : k \in P
    BY ONLY <1>2, <1>3, n \in Nat, UpTo
  <2>. QED
    BY <2>1
<1>. QED
  BY <1>4 DEF P

-----------------------------------------------------------------------------
(* Going on step by step, n times.                                         *)
Iterates(g, n, base, step) == g[0] = base /\ \A k \in 1..n : g[k] = step[k][g[k - 1]]

LEMMA IterExists ==
  ASSUME NEW n \in Nat, NEW V, NEW base \in V, NEW step \in [1..n -> [V -> V]]
  PROVE  \E g \in [0..n -> V] : Iterates(g, n, base, step)
<1>. DEFINE P == {m \in 0..n : \E g \in [0..m -> V] : Iterates(g, m, base, step)}
<1>1. 0 \in P
  <2>1. [k \in 0..0 |-> base] \in [0..0 -> V] /\ Iterates([k \in 0..0 |-> base], 0, base, step)
    BY DEF Iterates
  <2>2. 0 \in 0..n
    OBVIOUS
  <2>. QED
    BY <2>1, <2>2
<1>2. ASSUME NEW m \in 0..(n - 1), m \in P PROVE m + 1 \in P
  <2>1. PICK g \in [0..m -> V] : Iterates(g, m, base, step)
    BY <1>2
  <2>. DEFINE h == [k \in 0..(m + 1) |-> IF k <= m THEN g[k] ELSE step[m + 1][g[m]]]
  <2>2. h \in [0..(m + 1) -> V]
    <3>1. \A k \in 0..(m + 1) : k <= m => k \in 0..m
      OBVIOUS
    <3>2. step[m + 1][g[m]] \in V
      <4>1. m + 1 \in 1..n /\ m \in 0..m
        OBVIOUS
      <4>. QED
        BY <4>1
    <3>. QED
      BY <3>1, <3>2
  <2>3. Iterates(h, m + 1, base, step)
    <3>1. h[0] = base
      BY <2>1 DEF Iterates
    <3>2. ASSUME NEW k \in 1..(m + 1) PROVE h[k] = step[k][h[k - 1]]
      <4>1. k \in 0..(m + 1) /\ k - 1 \in 0..(m + 1) /\ k - 1 <= m
        OBVIOUS
      <4>2. h[k - 1] = g[k - 1]
        BY <4>1
      <4>3. CASE k <= m
        BY <2>1, <4>1, <4>2, <4>3 DEF Iterates
      <4>4. CASE k = m + 1
        BY <4>1, <4>2, <4>4
      <4>. QED
        BY <4>3, <4>4
    <3>. QED
      BY <3>1, <3>2 DEF Iterates
  <2>. HIDE DEF h
  <2>. QED
    BY <2>2, <2>3
<1>. HIDE DEF P
<1>3. n \in P
  <2>1. \A k \in 0..n : k \in P
    BY ONLY <1>1, <1>2, n \in Nat, UpTo
  <2>. QED
    BY <2>1
<1>. QED
  BY <1>3 DEF P

(* A fold that grows like g, place by place, goes on step by step.         *)
GrowsLike(h, g, n, base) ==
  h[{}] = base /\ \A k \in 1..n : h[1..(k - 1)] = g[1..(k - 1)] => h[1..k] = g[1..k]
Folds(h, n, V, base, step) ==
  \E g \in [SUBSET (1..n) -> V] : FromTheEnd(g, n, base, step) /\ GrowsLike(h, g, n, base)

IteratesTo(v, n, V, base, step) == \E w \in [0..n -> V] : Iterates(w, n, base, step) /\ v = w[n]

LEMMA FoldIterates ==
  ASSUME NEW n \in Nat, NEW V, NEW base, NEW step, NEW h, Folds(h, n, V, base, step)
  PROVE  IteratesTo(h[1..n], n, V, base, step)
<1>0. PICK g \in [SUBSET (1..n) -> V] : FromTheEnd(g, n, base, step) /\ GrowsLike(h, g, n, base)
  BY DEF Folds
<1>. DEFINE w == [k \in 0..n |-> g[1..k]]
<1>1. 1..0 = {} /\ 0 \in 0..n /\ n \in 0..n /\ \A k \in 0..n : 1..k \in SUBSET (1..n)
  OBVIOUS
<1>2. w \in [0..n -> V]
  BY <1>1
<1>3. h[1..n] = w[n]
  <2>1. h[{}] = g[{}]
    BY <1>0 DEF FromTheEnd, GrowsLike
  <2>2. \A k \in 1..n : h[1..(k - 1)] = g[1..(k - 1)] => h[1..k] = g[1..k]
    BY <1>0 DEF GrowsLike
  <2>3. h[1..n] = g[1..n]
    BY ONLY <2>1, <2>2, n \in Nat, SameFold
  <2>. QED
    BY <1>1, <2>3
<1>4. Iterates(w, n, base, step)
  <2>1. w[0] = base
    BY <1>0, <1>1 DEF FromTheEnd
  <2>2. ASSUME NEW k \in 1..n PROVE w[k] = step[k][w[k - 1]]
    <3>1. k \in 0..n /\ k - 1 \in 0..n
      OBVIOUS
    <3>2. /\ 1..k \in SUBSET (1..n) /\ 1..k # {}
          /\ Max(1..k) = k /\ (1..k) \ {k} = 1..(k - 1)
      BY FirstPlaces
    <3>3. g[1..k] = step[k][g[1..(k - 1)]]
      BY <1>0, <3>2 DEF FromTheEnd
    <3>. QED
      BY <3>1, <3>3
  <2>. QED
    BY <2>1, <2>2 DEF Iterates
<1>. HIDE DEF w
<1>. QED
  BY <1>2, <1>3, <1>4 DEF IteratesTo

(* Two that go on alike are where they are alike.                          *)
LEMMA SameIterates ==
  ASSUME NEW n \in Nat, NEW u, NEW w, u[0] = w[0],
         \A k \in 1..n : u[k - 1] = w[k - 1] => u[k] = w[k]
  PROVE  \A k \in 0..n : u[k] = w[k]
<1>. DEFINE P == {k \in 0..n : u[k] = w[k]}
<1>1. 0 \in P
  OBVIOUS
<1>2. \A k \in 0..(n - 1) : k \in P => k + 1 \in P
  <2>1. \A k \in 0..(n - 1) : k + 1 \in 1..n /\ k + 1 \in 0..n /\ (k + 1) - 1 = k
    OBVIOUS
  <2>. QED
    BY <2>1
<1>. HIDE DEF P
<1>3. \A k \in 0..n : k \in P
  BY ONLY <1>1, <1>2, n \in Nat, UpTo
<1>. QED
  BY <1>3 DEF P

=============================================================================
