--------------------------- MODULE AdmissionProofs ---------------------------
(***************************************************************************)
(* Proofs about admission: what the planner makes of any candidates and    *)
(* any headroom (PlanOK), and that no queue of tasks is treated unfairly.  *)
(***************************************************************************)
EXTENDS AdmissionQueue, FoldLemmas

CandidatesOf(I) == [id : I, peak : Nat, score : Int]
PlansOver(I)    == [available : Nat, remaining : Int, admitted : SUBSET I]

(* The planning loop, candidate by candidate: p[k] is the plan after the   *)
(* first k of s.                                                           *)
InTurn(p, n, s, start) ==
  /\ p[0] = start
  /\ \A k \in 1..n : p[k] = Take(p[k - 1], s[k])
  /\ FoldLeft(Take, start, s) = p[n]

LEMMA TakeInTurn ==
  ASSUME NEW I, NEW n \in Nat, NEW s \in [1..n -> CandidatesOf(I)], NEW start \in PlansOver(I)
  PROVE  \E p \in [0..n -> PlansOver(I)] : InTurn(p, n, s, start)
<1>. USE DEF CandidatesOf, PlansOver
<1>. DEFINE V == PlansOver(I)
            pick == [S \in (SUBSET (1..n)) \ {{}} |-> Max(S)]
            step == [k \in 1..n |-> [v \in V |-> Take(v, s[k])]]
<1>1. \A S \in (SUBSET (1..n)) \ {{}} : Max(S) \in S
  <2>. SUFFICES ASSUME NEW S \in (SUBSET (1..n)) \ {{}} PROVE Max(S) \in S
    OBVIOUS
  <2>1. S \subseteq 0..n /\ S # {}
    OBVIOUS
  <2>. QED
    BY <2>1, MaxOK
<1>2. \A v \in V : \A k \in 1..n : Take(v, s[k]) \in V
  <2>. SUFFICES ASSUME NEW v \in V, NEW k \in 1..n PROVE Take(v, s[k]) \in V
    OBVIOUS
  <2>1. s[k] \in [id : I, peak : Nat, score : Int]
    OBVIOUS
  <2>2. s[k].peak \in Nat /\ s[k].id \in I
    BY <2>1
  <2>3. v.remaining - s[k].peak \in Int /\ v.admitted \cup {s[k].id} \in SUBSET I
    BY <2>2
  <2>4. [v EXCEPT !.remaining = @ - s[k].peak, !.admitted = @ \cup {s[k].id}] \in V
    BY <2>3
  <2>. QED
    BY <2>4 DEF Take
<1>3. PICK g \in [SUBSET (1..n) -> V] : TakesApart(g, 1..n, start, pick, step)
  <2>1. pick \in [(SUBSET (1..n)) \ {{}} -> 1..n]
        /\ \A S \in (SUBSET (1..n)) \ {{}} : pick[S] \in S
    BY <1>1
  <2>2. step \in [1..n -> [V -> V]]
    BY <1>2
  <2>3. start \in V /\ IsFiniteSet(1..n)
    BY FS_Interval
  <2>. HIDE DEF pick, step, V
  <2>. QED
    BY <2>1, <2>2, <2>3, FoldExists
<1>. DEFINE Turn(h, S) == IF S = {} THEN start ELSE Take(h[S \ {Max(S)}], s[Max(S)])
            iter[S \in SUBSET (1..n)] == IF S = {} THEN start ELSE Take(iter[S \ {Max(S)}], s[Max(S)])
<1>4. FoldLeft(Take, start, s) = iter[1..n]
  <2>1. DOMAIN s = 1..n
    OBVIOUS
  <2>. QED
    BY <2>1 DEF FoldLeft, MapThenFoldSet
<1>5. \E w : w = [S \in SUBSET (1..n) |-> Turn(w, S)]
  <2>. DEFINE w == [S \in SUBSET (1..n) |-> g[S]]
  <2>1. \A S \in SUBSET (1..n) : w[S] = Turn(w, S)
    <3>. SUFFICES ASSUME NEW S \in SUBSET (1..n) PROVE w[S] = Turn(w, S)
      OBVIOUS
    <3>1. CASE S = {}
      BY <1>3, <3>1 DEF TakesApart
    <3>2. CASE S # {}
      <4>1. S \ {Max(S)} \in SUBSET (1..n) /\ Max(S) \in 1..n
        BY <1>1, <3>2
      <4>2. g[S] = step[pick[S]][g[S \ {pick[S]}]] /\ pick[S] = Max(S)
        BY <1>3, <3>2 DEF TakesApart
      <4>3. g[S \ {Max(S)}] \in V
        BY <4>1
      <4>4. step[Max(S)][g[S \ {Max(S)}]] = Take(g[S \ {Max(S)}], s[Max(S)])
        BY <4>1, <4>3
      <4>. HIDE DEF pick, step, V
      <4>. QED
        BY <3>2, <4>1, <4>2, <4>4
    <3>. QED
      BY <3>1, <3>2
  <2>2. w = [S \in SUBSET (1..n) |-> w[S]]
    OBVIOUS
  <2>. HIDE DEF w, Turn
  <2>3. w = [S \in SUBSET (1..n) |-> Turn(w, S)]
    BY <2>1, <2>2
  <2>. QED
    BY <2>3
<1>6. iter = [S \in SUBSET (1..n) |-> Turn(iter, S)]
  BY <1>5, Zenon
<1>. HIDE DEF iter, pick, step
<1>7. \A S \in SUBSET (1..n) : iter[S] = Turn(iter, S)
  BY <1>6, Zenon
<1>. DEFINE p == [k \in 0..n |-> iter[1..k]]
<1>8. p[0] = start
  <2>1. 1..0 = {} /\ 1..0 \in SUBSET (1..n) /\ 0 \in 0..n
    OBVIOUS
  <2>. QED
    BY <1>7, <2>1
<1>9. ASSUME NEW k \in 1..n PROVE p[k] = Take(p[k - 1], s[k])
  <2>1. 1..k \in SUBSET (1..n) /\ 1..k # {} /\ (1..k) \ {k} = 1..(k - 1)
    <3>1. k \in 1..k /\ \A m \in 1..k : m \in 1..n
      OBVIOUS
    <3>2. \A m : m \in (1..k) \ {k} <=> m \in 1..(k - 1)
      OBVIOUS
    <3>. QED
      BY <3>1, <3>2
  <2>2. Max(1..k) = k
    <3>1. \A m \in 1..k : k >= m /\ (m >= k => m = k)
      OBVIOUS
    <3>. QED
      BY <3>1 DEF Max
  <2>3. iter[1..k] = Take(iter[1..(k - 1)], s[k])
    BY <1>7, <2>1, <2>2
  <2>4. k \in 0..n /\ k - 1 \in 0..n
    OBVIOUS
  <2>. QED
    BY <2>3, <2>4
<1>10. \A k \in 0..n : p[k] \in V
  <2>. DEFINE P == {k \in 0..n : p[k] \in V}
  <2>1. 0 \in P
    BY <1>8
  <2>2. ASSUME NEW k \in 0..(n - 1), k \in P PROVE k + 1 \in P
    <3>1. k + 1 \in 1..n /\ k + 1 \in 0..n /\ (k + 1) - 1 = k
      OBVIOUS
    <3>. HIDE DEF p, V
    <3>. QED
      BY <1>2, <1>9, <2>2, <3>1
  <2>. HIDE DEF P
  <2>3. \A k \in 0..n : k \in P
    BY <2>1, <2>2, UpTo
  <2>. QED
    BY <2>3 DEF P
<1>11. p \in [0..n -> V] /\ FoldLeft(Take, start, s) = p[n]
  BY <1>4, <1>10
<1>. HIDE DEF p
<1>12. InTurn(p, n, s, start)
  BY <1>8, <1>9, <1>11 DEF InTurn
<1>. QED
  BY <1>11, <1>12

-----------------------------------------------------------------------------
(* The order in which the candidates are considered.                       *)

(* With ids all different it takes each candidate once, better ones first. *)
LEMMA OrderOK ==
  ASSUME NEW I, I \subseteq Int, NEW C, C \subseteq CandidatesOf(I), IsFiniteSet(C),
         \A c \in C : \A d \in C : c.id = d.id => c = d
  PROVE  /\ Cardinality(C) \in Nat
         /\ InOrder(C) \in [1..Cardinality(C) -> C]
         /\ \A c \in C : \E k \in 1..Cardinality(C) : InOrder(C)[k] = c
         /\ \A j \in 1..Cardinality(C) : \A k \in 1..Cardinality(C) :
              j < k <=> Precedes(InOrder(C)[j], InOrder(C)[k])
<1>. DEFINE n == Cardinality(C)
            Before(c) == {d \in C : Precedes(d, c)}
            rank == [c \in C |-> Cardinality(Before(c))]
<1>1. n \in Nat
  BY FS_CardinalityType
<1>2. \A c \in C : c.id \in Int /\ c.score \in Int
  BY DEF CandidatesOf
<1>3. /\ \A c \in C : ~Precedes(c, c)
      /\ \A c \in C : \A d \in C : c = d \/ Precedes(c, d) \/ Precedes(d, c)
      /\ \A c \in C : \A d \in C : \A e \in C : Precedes(c, d) /\ Precedes(d, e) => Precedes(c, e)
  <2>1. \A c \in C : ~Precedes(c, c)
    BY <1>2 DEF Precedes
  <2>2. \A c \in C : \A d \in C : c = d \/ Precedes(c, d) \/ Precedes(d, c)
    <3>. SUFFICES ASSUME NEW c \in C, NEW d \in C, c # d PROVE Precedes(c, d) \/ Precedes(d, c)
      OBVIOUS
    <3>1. c.id # d.id
      OBVIOUS
    <3>. QED
      BY <1>2, <3>1 DEF Precedes
  <2>3. \A c \in C : \A d \in C : \A e \in C : Precedes(c, d) /\ Precedes(d, e) => Precedes(c, e)
    BY <1>2 DEF Precedes
  <2>. QED
    BY <2>1, <2>2, <2>3
<1>4. \A c \in C : IsFiniteSet(Before(c)) /\ Before(c) \subseteq C /\ c \notin Before(c)
  BY <1>3, FS_Subset
<1>5. \A c \in C : rank[c] \in 0..(n - 1)
  <2>. SUFFICES ASSUME NEW c \in C PROVE rank[c] \in 0..(n - 1)
    OBVIOUS
  <2>. DEFINE b == Before(c)
  <2>1. IsFiniteSet(b) /\ b \in SUBSET C /\ b # C
    BY <1>4
  <2>. HIDE DEF b
  <2>2. Cardinality(b) \in Nat /\ Cardinality(b) <= n /\ (n = Cardinality(b) => C = b)
    BY <2>1, FS_Subset, FS_CardinalityType
  <2>3. Cardinality(b) \in 0..(n - 1)
    BY <1>1, <2>1, <2>2
  <2>. QED
    BY <2>3 DEF b
<1>6. \A c \in C : \A d \in C : Precedes(c, d) => rank[c] < rank[d]
  <2>. SUFFICES ASSUME NEW c \in C, NEW d \in C, Precedes(c, d) PROVE rank[c] < rank[d]
    OBVIOUS
  <2>. DEFINE a == Before(c)
              b == Before(d)
  <2>1. a \in SUBSET b /\ c \in b /\ c \notin a /\ IsFiniteSet(a) /\ IsFiniteSet(b)
    BY <1>3, <1>4
  <2>. HIDE DEF a, b
  <2>2. /\ Cardinality(a) \in Nat /\ Cardinality(b) \in Nat /\ Cardinality(a) <= Cardinality(b)
        /\ (Cardinality(b) = Cardinality(a) => b = a)
    BY <2>1, FS_Subset, FS_CardinalityType
  <2>3. Cardinality(a) < Cardinality(b)
    BY <2>1, <2>2
  <2>. QED
    BY <2>3 DEF a, b
<1>. HIDE DEF rank
<1>7. \A k \in 1..n : \E c \in C : rank[c] = k - 1
  <2>1. rank \in Injection(C, 0..(n - 1))
    <3>1. rank \in [C -> 0..(n - 1)]
      BY <1>5 DEF rank
    <3>2. \A c \in C : \A d \in C : rank[c] = rank[d] => c = d
      BY <1>3, <1>5, <1>6
    <3>. QED
      BY <3>1, <3>2 DEF Injection, IsInjective
  <2>2. IsFiniteSet(0..(n - 1)) /\ Cardinality(0..(n - 1)) = n
    BY <1>1, FS_Interval
  <2>3. rank \in Surjection(C, 0..(n - 1))
    BY <2>1, <2>2, FS_Injection
  <2>. QED
    BY <1>1, <2>3 DEF Surjection
<1>. DEFINE s == InOrder(C)
<1>8. ASSUME NEW k \in 1..n PROVE s[k] \in C /\ rank[s[k]] = k - 1
  <2>1. s[k] = CHOOSE c \in C : Cardinality(Before(c)) = k - 1
    BY DEF InOrder
  <2>2. \E c \in C : Cardinality(Before(c)) = k - 1
    BY <1>7 DEF rank
  <2>3. s[k] \in C /\ Cardinality(Before(s[k])) = k - 1
    BY <2>1, <2>2, Zenon
  <2>. HIDE DEF s
  <2>. QED
    BY <2>3 DEF rank
<1>9. s \in [1..n -> C]
  BY <1>8 DEF InOrder
<1>. HIDE DEF s, n
<1>10. ASSUME NEW c \in C PROVE \E k \in 1..n : s[k] = c
  <2>. DEFINE k == rank[c] + 1
  <2>1. k \in 1..n /\ k - 1 = rank[c]
    BY <1>1, <1>5
  <2>2. s[k] \in C /\ rank[s[k]] = rank[c]
    BY <1>8, <2>1
  <2>3. s[k] = c
    BY <1>3, <1>5, <1>6, <2>2
  <2>. QED
    BY <2>1, <2>3
<1>11. ASSUME NEW j \in 1..n, NEW k \in 1..n PROVE j < k <=> Precedes(s[j], s[k])
  <2>1. s[j] \in C /\ s[k] \in C /\ rank[s[j]] = j - 1 /\ rank[s[k]] = k - 1
    BY <1>8
  <2>2. j < k => Precedes(s[j], s[k])
    <3>. SUFFICES ASSUME j < k PROVE Precedes(s[j], s[k])
      OBVIOUS
    <3>1. s[j] # s[k] /\ ~(rank[s[k]] < rank[s[j]])
      BY <1>1, <2>1
    <3>. QED
      BY <1>3, <1>6, <2>1, <3>1
  <2>3. Precedes(s[j], s[k]) => j < k
    BY <1>1, <1>6, <2>1
  <2>. QED
    BY <2>2, <2>3
<1>. QED
  BY <1>1, <1>9, <1>10, <1>11 DEF s, n

-----------------------------------------------------------------------------
(* The tasks admitted ahead of c.                                          *)
AheadOf(C, A, c) == {d.id : d \in {d \in C : d.id \in A /\ d # c /\ Precedes(d, c)}}

(* The plan over any candidates, for any headroom: what is admitted fits,  *)
(* and a candidate is admitted exactly if it fits beside those admitted    *)
(* ahead of it.                                                            *)
LEMMA PlanOK ==
  ASSUME NEW I, I \subseteq Int, IsFiniteSet(I), NEW f \in [I -> Nat],
         NEW C, C \subseteq CandidatesOf(I),
         \A c \in C : \A d \in C : c.id = d.id => c = d,
         \A c \in C : c.peak = f[c.id],
         NEW room \in Nat, NEW A, A = PlanAdmission(C, room)
  PROVE  /\ A \subseteq {c.id : c \in C}
         /\ ReservedBytes(A, f) <= room
         /\ \A c \in C : c.id \in A <=> c.peak + ReservedBytes(AheadOf(C, A, c), f) <= room
<1>. DEFINE n == Cardinality(C)
            s == InOrder(C)
            V == PlansOver(I)
            Sum(T) == SumFunctionOnSet(f, T)
            start == [available |-> room, remaining |-> room, admitted |-> {}]
<1>0. IsFiniteSet(C)
  <2>. DEFINE name == [c \in C |-> c.id]
  <2>1. name \in Injection(C, I)
    <3>1. name \in [C -> I]
      BY DEF CandidatesOf
    <3>. QED
      BY <3>1 DEF Injection, IsInjective
  <2>. QED
    BY <2>1, FS_Injection
<1>1. /\ n \in Nat
      /\ s \in [1..n -> C]
      /\ \A c \in C : \E k \in 1..n : s[k] = c
      /\ \A j \in 1..n : \A k \in 1..n : j < k <=> Precedes(s[j], s[k])
  BY <1>0, OrderOK
<1>2. A = FoldLeft(Take, start, s).admitted
  BY DEF PlanAdmission
<1>. HIDE DEF n, s
<1>3. PICK p \in [0..n -> V] : InTurn(p, n, s, start)
  <2>1. s \in [1..n -> CandidatesOf(I)] /\ start \in PlansOver(I)
    BY <1>1 DEF PlansOver
  <2>. HIDE DEF start
  <2>. QED
    BY <1>1, <2>1, TakeInTurn
<1>4. A = p[n].admitted
  BY <1>2, <1>3 DEF InTurn
<1>5. /\ Sum({}) = 0
      /\ \A T \in SUBSET I : Sum(T) \in Nat
      /\ \A T \in SUBSET I : \A x \in T : Sum(T) = f[x] + Sum(T \ {x})
  <2>1. /\ SumFunctionOnSet(f, {}) = 0
        /\ \A T \in SUBSET I : SumFunctionOnSet(f, T) \in Nat
        /\ \A T \in SUBSET I : \A x \in T :
             SumFunctionOnSet(f, T) = f[x] + SumFunctionOnSet(f, T \ {x})
    <3>1. IsFiniteSet(I) /\ f \in [I -> Nat]
      OBVIOUS
    <3>. QED
      BY ONLY <3>1, SumOK
  <2>. QED
    BY <2>1, Zenon
<1>6. \A k \in 1..n : s[k] \in C /\ s[k].id \in I /\ s[k].peak \in Nat /\ s[k].peak = f[s[k].id]
  BY <1>1 DEF CandidatesOf
<1>7. \A j \in 1..n : \A k \in 1..n : s[j].id = s[k].id => j = k
  <2>. SUFFICES ASSUME NEW j \in 1..n, NEW k \in 1..n, s[j].id = s[k].id, j # k PROVE FALSE
    OBVIOUS
  <2>1. s[j] = s[k]
    BY <1>6
  <2>2. ~(j < k) /\ ~(k < j)
    <3>1. \A c \in C : ~Precedes(c, c)
      <4>1. \A c \in C : c.id \in Int /\ c.score \in Int
        BY DEF CandidatesOf
      <4>. QED
        BY <4>1 DEF Precedes
    <3>. QED
      BY <1>1, <1>6, <2>1, <3>1
  <2>. QED
    BY <1>1, <2>2
<1>8. \A v \in V : \A k \in 1..n :
        IF s[k].peak <= v.remaining
        THEN /\ Take(v, s[k]).remaining = v.remaining - s[k].peak
             /\ Take(v, s[k]).admitted = v.admitted \cup {s[k].id}
        ELSE Take(v, s[k]) = v
  BY DEF Take, PlansOver
<1>. HIDE DEF Sum, V
<1>. DEFINE Ids(k) == {s[j].id : j \in 1..k}
            Kept(k) == /\ p[k].admitted \subseteq Ids(k)
                       /\ p[k].remaining = room - Sum(p[k].admitted) /\ p[k].remaining >= 0
                       /\ \A j \in 0..k : p[k].admitted \cap Ids(j) = p[j].admitted
            Done == {k \in 0..n : Kept(k)}
<1>9. \A k \in 0..n : p[k].admitted \in SUBSET I /\ p[k].remaining \in Int
  BY DEF V, PlansOver
<1>10. 0 \in Done
  <2>1. p[0].admitted = {} /\ p[0].remaining = room /\ 0 \in 0..n
    BY <1>1, <1>3 DEF InTurn
  <2>2. \A j \in 0..0 : {} \cap Ids(j) = {} /\ j = 0
    OBVIOUS
  <2>. HIDE DEF Ids
  <2>3. p[0].remaining = room - Sum(p[0].admitted) /\ p[0].remaining >= 0
    BY <1>5, <2>1
  <2>4. Kept(0)
    BY <2>1, <2>2, <2>3
  <2>. QED
    BY <2>1, <2>4
<1>11. ASSUME NEW k \in 0..(n - 1), k \in Done PROVE k + 1 \in Done
  <2>. DEFINE c == s[k + 1]
              a == p[k].admitted
              b == p[k + 1].admitted
  <2>1. k \in 0..n /\ k + 1 \in 1..n /\ k + 1 \in 0..n /\ (k + 1) - 1 = k
    BY <1>1
  <2>2. c.id \in I /\ c.peak \in Nat /\ c.peak = f[c.id]
    BY <1>6, <2>1
  <2>3. \A j \in 0..k : c.id \notin Ids(j) /\ Ids(j) \subseteq Ids(k)
    <3>1. \A j \in 0..k : \A i \in 1..j : i \in 1..k /\ i \in 1..n /\ i # k + 1
      BY <1>1
    <3>. QED
      BY <1>7, <2>1, <3>1
  <2>4. Ids(k + 1) = Ids(k) \cup {c.id}
    <3>1. 1..(k + 1) = (1..k) \cup {k + 1}
      BY <2>1
    <3>. QED
      BY <3>1
  <2>5. p[k + 1] = Take(p[k], s[k + 1]) /\ p[k] \in V
    BY <1>3, <2>1 DEF InTurn
  <2>6. Kept(k)
    BY <1>11
  <2>. HIDE DEF Ids
  <2>7. CASE c.peak <= p[k].remaining
    <3>1. p[k + 1].remaining = p[k].remaining - c.peak /\ b = a \cup {c.id}
      BY <1>8, <2>1, <2>5, <2>7
    <3>2. c.id \notin a
      BY <2>1, <2>3, <2>6
    <3>3. b \ {c.id} = a /\ b \in SUBSET I /\ c.id \in b
      BY <1>9, <2>2, <3>1, <3>2, <2>1
    <3>4. Sum(b) = c.peak + Sum(a) /\ Sum(a) \in Nat
      <4>. HIDE DEF a, b, c
      <4>1. Sum(b) = f[c.id] + Sum(b \ {c.id})
        BY <1>5, <3>3
      <4>2. a \in SUBSET I
        BY <3>3
      <4>. QED
        BY <1>5, <2>2, <3>3, <4>1, <4>2
    <3>5. p[k + 1].remaining = room - Sum(b) /\ p[k + 1].remaining >= 0
      <4>1. p[k].remaining = room - Sum(a) /\ p[k].remaining \in Int
        BY <1>9, <2>1, <2>6
      <4>. QED
        BY <2>2, <2>7, <3>1, <3>4, <4>1
    <3>6. b \subseteq Ids(k + 1)
      BY <2>4, <2>6, <3>1
    <3>7. ASSUME NEW j \in 0..(k + 1) PROVE b \cap Ids(j) = p[j].admitted
      <4>1. CASE j = k + 1
        BY <3>6, <4>1
      <4>2. CASE j # k + 1
        <5>1. j \in 0..k
          BY <4>2
        <5>2. b \cap Ids(j) = a \cap Ids(j)
          BY <2>3, <3>1, <5>1
        <5>. QED
          BY <2>6, <5>1, <5>2
      <4>. QED
        BY <4>1, <4>2
    <3>. QED
      BY <2>1, <3>5, <3>6, <3>7
  <2>8. CASE ~(c.peak <= p[k].remaining)
    <3>1. p[k + 1] = p[k]
      BY <1>8, <2>1, <2>5, <2>8
    <3>2. ASSUME NEW j \in 0..(k + 1) PROVE b \cap Ids(j) = p[j].admitted
      <4>1. CASE j = k + 1
        BY <2>4, <2>6, <3>1, <4>1
      <4>2. CASE j # k + 1
        <5>1. j \in 0..k
          BY <4>2
        <5>. QED
          BY <2>6, <3>1, <5>1
      <4>. QED
        BY <4>1, <4>2
    <3>3. b \subseteq Ids(k + 1)
      BY <2>4, <2>6, <3>1
    <3>. QED
      BY <2>1, <2>6, <3>1, <3>2, <3>3
  <2>. QED
    BY <2>7, <2>8
<1>. HIDE DEF Done
<1>12. \A k \in 0..n : k \in Done
  BY <1>1, <1>10, <1>11, UpTo
<1>13. \A k \in 0..n : Kept(k)
  BY <1>12 DEF Done
<1>14. A \subseteq {c.id : c \in C}
  <2>1. A \subseteq Ids(n)
    BY <1>1, <1>4, <1>13
  <2>. QED
    BY <1>6, <2>1
<1>15. Sum(A) <= room
  <2>1. n \in 0..n /\ A \in SUBSET I
    BY <1>1, <1>4, <1>9
  <2>. QED
    BY <1>4, <1>5, <1>13, <2>1
<1>16. ASSUME NEW c \in C PROVE c.id \in A <=> c.peak + Sum(AheadOf(C, A, c)) <= room
  <2>1. PICK k \in 1..n : s[k] = c
    BY <1>1
  <2>2. k \in 0..n /\ k - 1 \in 0..n /\ n \in 0..n /\ k \in 0..k /\ k - 1 \in 0..k
    BY <1>1
  <2>3. A \cap Ids(k - 1) = p[k - 1].admitted /\ A \cap Ids(k) = p[k].admitted
    BY <1>4, <1>13, <2>2
  <2>4. AheadOf(C, A, c) = p[k - 1].admitted
    <3>1. ASSUME NEW d \in C, d.id \in A, d # c, Precedes(d, c) PROVE d.id \in Ids(k - 1)
      <4>1. PICK j \in 1..n : s[j] = d
        BY <1>1
      <4>2. j < k
        BY <1>1, <2>1, <3>1, <4>1
      <4>. QED
        BY <4>1, <4>2
    <3>2. ASSUME NEW x \in A \cap Ids(k - 1) PROVE x \in AheadOf(C, A, c)
      <4>1. PICK j \in 1..(k - 1) : x = s[j].id
        BY <3>2
      <4>2. j \in 1..n /\ j < k
        BY <1>1, <4>1
      <4>3. Precedes(s[j], c) /\ s[j] \in C /\ s[j] # c
        BY <1>1, <1>6, <1>7, <2>1, <4>2
      <4>. QED
        BY <4>1, <4>3 DEF AheadOf
    <3>3. AheadOf(C, A, c) \subseteq A \cap Ids(k - 1)
      <4>. HIDE DEF Ids
      <4>. QED
        BY <3>1 DEF AheadOf
    <3>. QED
      BY <2>3, <3>2, <3>3
  <2>5. c.id \in Ids(k) /\ c.id \notin Ids(k - 1)
    <3>1. k \in 1..k /\ \A j \in 1..(k - 1) : j \in 1..n /\ j # k
      BY <1>1
    <3>. QED
      BY <1>7, <2>1, <3>1
  <2>. HIDE DEF Ids
  <2>6. c.id \in A <=> c.id \in p[k].admitted
    BY <2>3, <2>5
  <2>7. c.id \notin p[k - 1].admitted
    BY <2>3, <2>5
  <2>8. p[k] = Take(p[k - 1], s[k]) /\ p[k - 1] \in V
    BY <1>3, <2>2 DEF InTurn
  <2>9. c.id \in p[k].admitted <=> c.peak <= p[k - 1].remaining
    BY <1>8, <2>1, <2>7, <2>8
  <2>10. p[k - 1].remaining = room - Sum(p[k - 1].admitted)
    BY <1>13, <2>2
  <2>11. Sum(p[k - 1].admitted) \in Nat /\ c.peak \in Nat
    BY <1>5, <1>6, <1>9, <2>1, <2>2
  <2>12. c.peak <= p[k - 1].remaining <=> c.peak + Sum(p[k - 1].admitted) <= room
    BY <2>10, <2>11
  <2>. QED
    BY <2>4, <2>6, <2>9, <2>12
<1>. QED
  BY <1>14, <1>15, <1>16 DEF Sum, ReservedBytes

-----------------------------------------------------------------------------
(* The score.                                                              *)

LEMMA MinPair ==
  ASSUME NEW a \in Int, NEW b \in Int
  PROVE  Min({a, b}) = IF a <= b THEN a ELSE b
<1>1. \E x \in {a, b} : \A y \in {a, b} : x <= y
  OBVIOUS
<1>2. Min({a, b}) \in {a, b} /\ \A y \in {a, b} : Min({a, b}) <= y
  BY <1>1 DEF Min
<1>. QED
  BY <1>2

LEMMA MaxPair ==
  ASSUME NEW a \in Int, NEW b \in Int
  PROVE  Max({a, b}) = IF a >= b THEN a ELSE b
<1>1. \E x \in {a, b} : \A y \in {a, b} : x >= y
  OBVIOUS
<1>2. Max({a, b}) \in {a, b} /\ \A y \in {a, b} : Max({a, b}) >= y
  BY <1>1 DEF Max
<1>. QED
  BY <1>2

LEMMA TimesGrows ==
  ASSUME NEW x \in Nat, NEW y \in Nat, NEW b \in Nat, x <= y
  PROVE  x * b <= y * b
<1>1. y = x + (y - x) /\ y - x \in Nat
  OBVIOUS
<1>2. \A d \in Nat : (x + d) * b = x * b + d * b /\ d * b \in Nat /\ x * b \in Nat
  OBVIOUS
<1>. QED
  BY <1>1, <1>2

(* Of two tasks of one priority and one size the older has the better      *)
(* score.                                                                  *)
LEMMA ScoreOK ==
  ASSUME NEW priority \in Priorities, NEW peak \in Nat, NEW unit \in Nat, NEW budget \in Nat,
         NEW age \in Nat
  PROVE  /\ Score(priority, age, peak, unit, budget) \in Int
         /\ \A younger \in Nat : younger <= age =>
              Score(priority, younger, peak, unit, budget) <= Score(priority, age, peak, unit, budget)
<1>. DEFINE reward(a) == PriorityRank[priority] * unit + Min({a, unit})
            penalty == IF budget = 0 THEN 2 * unit ELSE 2 * unit * Min({peak, 2 * budget})
            scale == IF budget = 0 THEN 1 ELSE budget
<1>1. PriorityRank[priority] \in Nat
  BY DEF PriorityRank, Priorities
<1>2. \A a \in Nat : reward(a) \in Nat
  <2>. SUFFICES ASSUME NEW a \in Nat PROVE reward(a) \in Nat
    OBVIOUS
  <2>1. Min({a, unit}) \in Nat
    BY MinPair
  <2>. QED
    BY <1>1, <2>1
<1>3. penalty \in Int /\ scale \in Nat
  <2>1. Min({peak, 2 * budget}) \in Int
    <3>1. 2 * budget \in Int
      OBVIOUS
    <3>. QED
      BY <3>1, MinPair
  <2>. QED
    BY <2>1
<1>4. \A a \in Nat : Score(priority, a, peak, unit, budget) = reward(a) * scale - penalty
  BY DEF Score
<1>5. \A y \in Nat : y <= age => reward(y) <= reward(age)
  <2>. SUFFICES ASSUME NEW y \in Nat, y <= age PROVE reward(y) <= reward(age)
    OBVIOUS
  <2>1. Min({y, unit}) <= Min({age, unit}) /\ Min({y, unit}) \in Nat /\ Min({age, unit}) \in Nat
    BY MinPair
  <2>2. PriorityRank[priority] * unit \in Nat
    BY <1>1
  <2>. QED
    BY <2>1, <2>2
<1>. HIDE DEF reward, penalty, scale
<1>6. \A a \in Nat : reward(a) * scale \in Int
  BY <1>2, <1>3
<1>7. \A y \in Nat : y <= age => reward(y) * scale <= reward(age) * scale
  BY <1>2, <1>3, <1>5, TimesGrows
<1>. QED
  BY <1>3, <1>4, <1>6, <1>7

-----------------------------------------------------------------------------
(* The queue: what waits is typed, and nothing is older than what came     *)
(* before it.                                                              *)
Waiters == [priority : Priorities, class : Classes, age : Nat]

QueueInv ==
  /\ waiting \in Seq(Waiters)
  /\ available \in Budgets
  /\ \A i \in DOMAIN waiting : \A j \in DOMAIN waiting :
       i < j => waiting[j].age <= waiting[i].age

LEMMA WaitersTyped ==
  ASSUME QueueInv
  PROVE  /\ Len(waiting) \in Nat /\ DOMAIN waiting = 1..Len(waiting)
         /\ \A i \in DOMAIN waiting : /\ waiting[i] \in Waiters
                                      /\ waiting[i].priority \in Priorities
                                      /\ waiting[i].class \in Classes /\ waiting[i].age \in Nat
<1>1. waiting \in Seq(Waiters)
  BY DEF QueueInv
<1>2. \A i \in DOMAIN waiting : waiting[i] \in Waiters
  BY <1>1
<1>3. \A w \in Waiters : w.priority \in Priorities /\ w.class \in Classes /\ w.age \in Nat
  BY DEF Waiters
<1>. QED
  BY <1>1, <1>2, <1>3

LEMMA QueueTypeStep == QueueInv /\ [QueueNext]_queueVars => QueueInv'
<1>. SUFFICES ASSUME QueueInv, [QueueNext]_queueVars PROVE QueueInv'
  OBVIOUS
<1>. USE DEF QueueInv
<1>1. CASE Arrive
  <2>1. PICK k \in Arrivals :
          waiting' = Append(waiting, [priority |-> k[1], class |-> k[2], age |-> 0])
    BY <1>1 DEF Arrive
  <2>0. k[1] \in Priorities /\ k[2] \in Classes
    BY QueueAssumption
  <2>. DEFINE new == [priority |-> k[1], class |-> k[2], age |-> 0]
  <2>2. new \in Waiters /\ new.age = 0
    BY <2>0 DEF Waiters
  <2>. HIDE DEF new
  <2>3. waiting' = Append(waiting, new) /\ Len(waiting) \in Nat
    BY <2>1 DEF new
  <2>4. /\ waiting' \in Seq(Waiters)
        /\ \A i \in DOMAIN waiting' : IF i = Len(waiting) + 1 THEN waiting'[i] = new
                                        ELSE i \in DOMAIN waiting /\ waiting'[i] = waiting[i]
    BY <2>2, <2>3
  <2>5. \A i \in DOMAIN waiting : waiting[i].age \in Nat
    BY WaitersTyped
  <2>6. ASSUME NEW i \in DOMAIN waiting', NEW j \in DOMAIN waiting', i < j
        PROVE  waiting'[j].age <= waiting'[i].age
    <3>1. i \in 1..(Len(waiting) + 1) /\ j \in 1..(Len(waiting) + 1)
      BY <2>3
    <3>2. i # Len(waiting) + 1 /\ i \in DOMAIN waiting /\ waiting'[i] = waiting[i]
      BY <2>3, <2>4, <2>6, <3>1
    <3>3. CASE j = Len(waiting) + 1
      BY <2>2, <2>4, <2>5, <3>2, <3>3
    <3>4. CASE j # Len(waiting) + 1
      BY <2>4, <2>6, <3>2, <3>4
    <3>. QED
      BY <3>3, <3>4
  <2>. QED
    BY <1>1, <2>4, <2>6 DEF Arrive
<1>2. CASE TimePasses
  <2>1. waiting' = [i \in DOMAIN waiting |->
                      [waiting[i] EXCEPT !.age = IF @ < AgeSteps THEN @ + 1 ELSE @]]
    BY <1>2 DEF TimePasses
  <2>2. ASSUME NEW i \in DOMAIN waiting
        PROVE  /\ waiting'[i] \in Waiters
               /\ waiting'[i].age = IF waiting[i].age < AgeSteps THEN waiting[i].age + 1 ELSE waiting[i].age
    <3>1. waiting[i] \in Waiters /\ waiting[i].age \in Nat
      BY WaitersTyped
    <3>. DEFINE new == [waiting[i] EXCEPT !.age = IF @ < AgeSteps THEN @ + 1 ELSE @]
    <3>2. waiting'[i] = new
      BY <2>1
    <3>3. AgeSteps \in Nat
      BY QueueAssumption
    <3>4. new \in Waiters
             /\ new.age = IF waiting[i].age < AgeSteps THEN waiting[i].age + 1 ELSE waiting[i].age
      BY <3>1, <3>3 DEF Waiters
    <3>. QED
      BY <3>2, <3>4
  <2>3. DOMAIN waiting' = DOMAIN waiting /\ waiting' \in Seq(Waiters)
    <3>1. DOMAIN waiting = 1..Len(waiting) /\ Len(waiting) \in Nat
      OBVIOUS
    <3>2. waiting' \in [1..Len(waiting) -> Waiters]
      BY <2>1, <2>2, <3>1
    <3>. QED
      BY <2>1, <3>1, <3>2
  <2>4. ASSUME NEW i \in DOMAIN waiting, NEW j \in DOMAIN waiting, i < j
        PROVE  waiting'[j].age <= waiting'[i].age
    <3>1. waiting[j].age <= waiting[i].age /\ waiting[j].age \in Nat /\ waiting[i].age \in Nat
      BY <2>4, WaitersTyped
    <3>2. AgeSteps \in Nat
      BY QueueAssumption
    <3>. QED
      BY <2>2, <3>1, <3>2
  <2>. QED
    BY <1>2, <2>3, <2>4 DEF TimePasses
<1>3. CASE HeadroomChanges
  BY <1>3 DEF HeadroomChanges
<1>4. CASE UNCHANGED queueVars
  BY <1>4 DEF queueVars
<1>. QED
  BY <1>1, <1>2, <1>3, <1>4 DEF QueueNext

(* On a queue in that shape the plan is fair.                              *)
LEMMA FairPlan == QueueInv => PlanIsFair
<1>. SUFFICES ASSUME QueueInv PROVE PlanIsFair
  OBVIOUS
<1>. DEFINE I == DOMAIN waiting
            Card(i) == [id |-> i, peak |-> PeakAt[i],
                        score |-> Score(waiting[i].priority, waiting[i].age, PeakAt[i], AgeSteps, Biggest)]
            A == PlanAdmission(Queue, available)
            Ahead(c) == AheadOf(Queue, A, c)
            Sum(T) == ReservedBytes(T, PeakAt)
<1>1. Biggest \in Nat /\ AgeSteps \in Nat /\ available \in Nat
  <2>1. Biggest \in Budgets
    BY QueueAssumption DEF Biggest
  <2>. QED
    BY <2>1, QueueAssumption DEF QueueInv
<1>2. I \subseteq Int /\ IsFiniteSet(I)
  <2>1. I = 1..Len(waiting) /\ Len(waiting) \in Nat
    BY DEF QueueInv
  <2>2. IsFiniteSet(1..Len(waiting))
    BY <2>1, FS_Interval
  <2>. QED
    BY <2>1, <2>2
<1>3. \A i \in I : waiting[i].priority \in Priorities /\ waiting[i].class \in Classes /\ waiting[i].age \in Nat
  BY WaitersTyped
<1>4. PeakAt \in [I -> Nat] /\ \A i \in I : PeakAt[i] = PeakOf[waiting[i].class]
  <2>1. \A c \in Classes : PeakOf[c] \in Nat
    BY DEF PeakOf, Classes
  <2>. QED
    BY <1>3, <2>1 DEF PeakAt
<1>5. Queue = {Card(i) : i \in I}
  BY DEF Queue
<1>6. \A i \in I : Card(i).score \in Int /\ Card(i) \in CandidatesOf(I)
  <2>. SUFFICES ASSUME NEW i \in I PROVE Card(i).score \in Int /\ Card(i) \in CandidatesOf(I)
    OBVIOUS
  <2>1. PeakAt[i] \in Nat
    BY <1>4
  <2>2. Score(waiting[i].priority, waiting[i].age, PeakAt[i], AgeSteps, Biggest) \in Int
    BY <1>1, <1>3, <2>1, ScoreOK
  <2>. QED
    BY <2>1, <2>2 DEF CandidatesOf
<1>7. \A i \in I : Card(i).id = i /\ Card(i).peak = PeakAt[i]
  OBVIOUS
<1>. HIDE DEF Card
<1>8. /\ Queue \subseteq CandidatesOf(I)
      /\ \A c \in Queue : \A d \in Queue : c.id = d.id => c = d
      /\ \A c \in Queue : c.peak = PeakAt[c.id]
  BY <1>5, <1>6, <1>7
<1>9. \A c \in Queue : c.id \in A <=> c.peak + Sum(Ahead(c)) <= available
  <2>. HIDE DEF I, A
  <2>1. A = PlanAdmission(Queue, available)
    BY DEF A
  <2>. QED
    BY <1>1, <1>2, <1>4, <1>8, <2>1, PlanOK
<1>10. ASSUME NEW i \in I, NEW j \in I, i < j, j \in A,
              waiting[i].priority = waiting[j].priority, waiting[i].class = waiting[j].class
       PROVE  i \in A
  <2>1. PeakAt[i] = PeakAt[j] /\ PeakAt[i] \in Nat
    BY <1>4, <1>10
  <2>2. Card(j).score <= Card(i).score
    <3>1. waiting[j].age <= waiting[i].age
      BY <1>10 DEF QueueInv
    <3>. QED
      BY <1>1, <1>3, <1>10, <2>1, <3>1, ScoreOK DEF Card
  <2>3. \A c \in Queue : c.id \in Int /\ c.score \in Int
    BY <1>2, <1>8 DEF CandidatesOf
  <2>4. Card(i) \in Queue /\ Card(j) \in Queue /\ i \in Int /\ j \in Int
    BY <1>2, <1>5
  <2>5. Precedes(Card(i), Card(j))
    BY <1>6, <1>7, <1>10, <2>2, <2>4 DEF Precedes
  <2>6. Ahead(Card(i)) \subseteq Ahead(Card(j))
    <3>1. ASSUME NEW d \in Queue, Precedes(d, Card(i)) PROVE Precedes(d, Card(j)) /\ d # Card(j)
      BY <2>3, <2>4, <2>5, <3>1 DEF Precedes
    <3>. QED
      BY <3>1 DEF AheadOf
  <2>7. \A c \in Queue : Ahead(c) \in SUBSET I
    BY <1>8 DEF AheadOf, CandidatesOf
  <2>8. Sum(Ahead(Card(i))) <= Sum(Ahead(Card(j))) /\ Sum(Ahead(Card(i))) \in Nat /\ Sum(Ahead(Card(j))) \in Nat
    <3>. HIDE DEF Ahead, I
    <3>1. Ahead(Card(i)) \in SUBSET I /\ Ahead(Card(j)) \in SUBSET I
      BY <2>4, <2>7
    <3>. QED
      BY <1>2, <1>4, <2>6, <3>1, SumOK, SumGrows DEF ReservedBytes
  <2>9. Card(j).peak + Sum(Ahead(Card(j))) <= available
    BY <1>7, <1>9, <1>10, <2>4
  <2>. HIDE DEF Sum, Ahead
  <2>10. Card(i).peak + Sum(Ahead(Card(i))) <= available
    BY <1>1, <1>7, <2>1, <2>8, <2>9
  <2>. QED
    BY <1>7, <1>9, <2>4, <2>10
<1>. QED
  BY <1>9, <1>10 DEF PlanIsFair, Admitted, AheadOf

(* Whatever arrives, however long it waits, and whatever headroom there    *)
(* is: the plan admits what fits in the order of the score, and nothing    *)
(* overtakes its like.                                                     *)
THEOREM QueueIsTreatedFairly == QueueSpec => []PlanIsFair
<1>1. QueueInit => QueueInv
  BY DEF QueueInit, QueueInv
<1>. QED
  BY <1>1, QueueTypeStep, FairPlan, PTL DEF QueueSpec

=============================================================================
