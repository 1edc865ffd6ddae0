----------------------------- MODULE FiniteSums -----------------------------
(***************************************************************************)
(* What proofs about the counters need: induction in the form of sets,     *)
(* which the provers can instantiate, remainders, and sums over finite     *)
(* sets.                                                                   *)
(***************************************************************************)
EXTENDS FiniteSetsExt, FiniteSetTheorems, WellFoundedInduction, TLAPS

LEMMA LeastExists ==
  ASSUME NEW T, T \subseteq Nat, T # {}
  PROVE  \E m \in T : \A n \in T : m <= n
<1> DEFINE R == OpToRel(<, Nat)
<1>1. IsWellFoundedOn(R, Nat)
  BY NatLessThanWellFounded, Zenon
<1> HIDE DEF R
<1>2. PICK m \in T : \A n \in T : ~(<<n, m>> \in R)
  BY <1>1, WFMin
<1>3. \A n \in T : ~(n < m)
  BY <1>2 DEF R, OpToRel
<1> QED
  BY <1>3

\* A set of numbers that has 0 and, with a number, the next, has them all.
LEMMA SetInduction ==
  ASSUME NEW A, 0 \in A, \A n \in Nat : n \in A => n + 1 \in A
  PROVE  Nat \subseteq A
<1> SUFFICES ASSUME Nat \ A # {} PROVE FALSE
  OBVIOUS
<1>1. PICK m \in Nat \ A : \A n \in Nat \ A : m <= n
  BY LeastExists
<1>2. m - 1 \in Nat /\ m - 1 \in A
  BY <1>1
<1> QED
  BY <1>2

LEMMA MinIn ==
  ASSUME NEW T, T \subseteq Nat, T # {}
  PROVE  Min(T) \in T /\ \A n \in T : Min(T) <= n
BY LeastExists DEF Min

LEMMA MaxIn ==
  ASSUME NEW N \in Nat, NEW T, T \subseteq 0 .. N, T # {}
  PROVE  Max(T) \in T /\ \A n \in T : n <= Max(T)
<1> DEFINE U == {n \in 0 .. N : N - n \in T}
<1>1. T # {} /\ \A n \in T : n \in 0 .. N /\ N - n \in U
  <2>1. \A n \in T : n \in 0 .. N /\ N - (N - n) = n /\ N - n \in 0 .. N
    OBVIOUS
  <2> QED
    BY <2>1
<1>2. U \subseteq Nat /\ U # {}
  <2>1. U \subseteq 0 .. N
    OBVIOUS
  <2>2. 0 .. N \subseteq Nat
    OBVIOUS
  <2> HIDE DEF U
  <2> QED
    BY <1>1, <2>1, <2>2
<1>3. PICK m \in U : \A n \in U : m <= n
  <2> HIDE DEF U
  <2> QED
    BY <1>2, LeastExists
<1>4. m \in 0 .. N /\ N - m \in T
  OBVIOUS
<1>5. \A n \in T : n <= N - m
  <2> SUFFICES ASSUME NEW n \in T PROVE n <= N - m
    OBVIOUS
  <2>1. n \in 0 .. N /\ N - n \in U
    BY <1>1
  <2> HIDE DEF U
  <2>2. m <= N - n
    BY <1>3, <2>1
  <2> QED
    BY <1>4, <2>1, <2>2
<1> QED
  BY <1>4, <1>5 DEF Max

-----------------------------------------------------------------------------
(* Remainders.                                                              *)

LEMMA DivMod ==
  ASSUME NEW N \in Nat \ {0}, NEW a \in Int
  PROVE  \E i \in Int, u \in 0 .. N - 1 : a = N * i + u /\ a % N = u
<1>1. a \div N \in Int /\ a % N \in 0 .. N - 1 /\ a = N * (a \div N) + (a % N)
  OBVIOUS
<1> QED
  BY <1>1

LEMMA SameRemainder ==
  ASSUME NEW N \in Nat \ {0}, NEW u \in 0 .. N - 1, NEW v \in 0 .. N - 1,
         NEW k \in Int, u = v + N * k
  PROVE  u = v
<1>1. N * k \in Int /\ N * k < N /\ N * k > -N
  OBVIOUS
<1>2. k >= 1 => N * k >= N
  OBVIOUS
<1>3. k <= -1 => N * k <= -N
  OBVIOUS
<1>4. k = 0
  BY <1>1, <1>2, <1>3
<1> QED
  BY <1>4

LEMMA ModOfSum ==
  ASSUME NEW N \in Nat \ {0}, NEW a \in Int, NEW x \in Int
  PROVE  ((a % N) + x) % N = (a + x) % N
<1>1. PICK i \in Int, u \in 0 .. N - 1 : a = N * i + u /\ a % N = u
  BY DivMod
<1>2. u + x \in Int /\ a + x \in Int
  BY <1>1
<1>3. PICK j \in Int, v \in 0 .. N - 1 : u + x = N * j + v /\ (u + x) % N = v
  BY <1>2, DivMod
<1>4. PICK k \in Int, w \in 0 .. N - 1 : a + x = N * k + w /\ (a + x) % N = w
  BY <1>2, DivMod
<1>5. w = v + N * (i + j - k)
  BY <1>1, <1>3, <1>4
<1>6. i + j - k \in Int
  OBVIOUS
<1>7. w = v
  BY <1>5, <1>6, SameRemainder
<1> QED
  BY <1>1, <1>3, <1>4, <1>7

-----------------------------------------------------------------------------
(* The sum of a function over a set.                                        *)

Picked(s) == CHOOSE x \in s : TRUE

\* One turn of the recursion by which SumFunctionOnSet is defined.
Turn(f, S, g) ==
  [s \in SUBSET S |-> IF s = {} THEN 0 ELSE f[Picked(s)] + g[s \ {Picked(s)}]]

SumsOf(f, S) == CHOOSE g : g = Turn(f, S, g)

LEMMA SumIsLast == ASSUME NEW f, NEW S PROVE SumFunctionOnSet(f, S) = SumsOf(f, S)[S]
BY Zenon DEF SumFunctionOnSet, FoldFunctionOnSet, MapThenFoldSet, SumsOf, Turn, Picked

LEMMA PickedIn == ASSUME NEW s, s # {} PROVE Picked(s) \in s
BY DEF Picked

LEMMA Removed ==
  ASSUME NEW S, IsFiniteSet(S), NEW s \in SUBSET S, NEW x \in s
  PROVE  /\ s \ {x} \in SUBSET S
         /\ Cardinality(s) \in Nat \ {0}
         /\ Cardinality(s \ {x}) = Cardinality(s) - 1
<1>1. IsFiniteSet(s)
  BY FS_Subset
<1>2. Cardinality(s) \in Nat /\ Cardinality(s) # 0
  BY <1>1, FS_CardinalityType, FS_EmptySet
<1> QED
  BY <1>1, <1>2, FS_RemoveElement

LEMMA Smallest ==
  ASSUME NEW S, IsFiniteSet(S), NEW s \in SUBSET S, Cardinality(s) = 0
  PROVE  s = {}
BY FS_Subset, FS_EmptySet

LEMMA Sizes ==
  ASSUME NEW S, IsFiniteSet(S)
  PROVE  /\ \A s \in SUBSET S : Cardinality(s) \in Nat
         /\ \A s \in SUBSET S : Cardinality(s) <= Cardinality(S)
         /\ S \in SUBSET S
BY FS_Subset, FS_CardinalityType

\* Small sets have sums: g satisfies the recursion up to the size n.
Solves(f, S, g, n) ==
  \A s \in SUBSET S : Cardinality(s) <= n => g[s] = Turn(f, S, g)[s]

LEMMA SolutionsGrow ==
  ASSUME NEW f, NEW S, IsFiniteSet(S), NEW n \in Nat, NEW g, Solves(f, S, g, n)
  PROVE  Solves(f, S, Turn(f, S, g), n + 1)
<1> DEFINE h == Turn(f, S, g)
<1> SUFFICES ASSUME NEW s \in SUBSET S, Cardinality(s) <= n + 1
             PROVE  h[s] = Turn(f, S, h)[s]
  BY DEF Solves
<1>1. CASE s = {}
  BY <1>1 DEF Turn
<1>2. CASE s # {}
  <2> DEFINE t == s \ {Picked(s)}
  <2>1. t \in SUBSET S /\ Cardinality(t) <= n
    BY <1>2, PickedIn, Removed
  <2>2. g[t] = h[t]
    BY <2>1 DEF Solves
  <2>3. h[s] = f[Picked(s)] + g[t] /\ Turn(f, S, h)[s] = f[Picked(s)] + h[t]
    BY <1>2 DEF Turn
  <2> QED
    BY <2>2, <2>3
<1> QED
  BY <1>1, <1>2

\* The function by which the sum is defined satisfies its equation.
LEMMA SumsExist ==
  ASSUME NEW f, NEW S, IsFiniteSet(S)
  PROVE  SumsOf(f, S) = Turn(f, S, SumsOf(f, S))
<1> DEFINE A == {n \in Nat : \E g : Solves(f, S, g, n)}
<1>1. 0 \in A
  <2>1. Solves(f, S, [s \in SUBSET S |-> 0], 0)
    <3> SUFFICES ASSUME NEW s \in SUBSET S, Cardinality(s) <= 0
                 PROVE  0 = Turn(f, S, [t \in SUBSET S |-> 0])[s]
      BY DEF Solves
    <3>1. s = {}
      BY Sizes, Smallest
    <3> QED
      BY <3>1 DEF Turn
  <2> QED
    BY <2>1
<1>2. \A n \in Nat : n \in A => n + 1 \in A
  BY SolutionsGrow
<1>3. Cardinality(S) \in A
  <2> HIDE DEF A
  <2> QED
    BY <1>1, <1>2, SetInduction, FS_CardinalityType
<1>4. PICK g : Solves(f, S, g, Cardinality(S))
  BY <1>3
<1>5. Turn(f, S, g) = Turn(f, S, Turn(f, S, g))
  <2> DEFINE h == Turn(f, S, g)
  <2>1. \A s \in SUBSET S : g[s] = h[s]
    BY <1>4, Sizes DEF Solves
  <2>2. ASSUME NEW s \in SUBSET S
        PROVE  (IF s = {} THEN 0 ELSE f[Picked(s)] + g[s \ {Picked(s)}])
                 = IF s = {} THEN 0 ELSE f[Picked(s)] + h[s \ {Picked(s)}]
    <3>1. s \ {Picked(s)} \in SUBSET S
      OBVIOUS
    <3> QED
      BY <2>1, <3>1
  <2> HIDE DEF h
  <2>3. Turn(f, S, g) = Turn(f, S, h)
    BY <2>2 DEF Turn
  <2> QED
    BY <2>3 DEF h
<1>6. \E h : h = Turn(f, S, h)
  BY <1>5
<1> QED
  BY <1>6, Zenon DEF SumsOf

\* Neither the set around it nor values outside of it matter to a sum.
LEMMA SumsAgree ==
  ASSUME NEW f, NEW g, NEW S, IsFiniteSet(S), NEW T \in SUBSET S,
         \A x \in T : f[x] = g[x]
  PROVE  \A t \in SUBSET T : SumsOf(f, S)[t] = SumsOf(g, T)[t]
<1> DEFINE F == SumsOf(f, S)
           G == SumsOf(g, T)
           A == {n \in Nat : \A t \in SUBSET T : Cardinality(t) <= n => F[t] = G[t]}
<1>1. IsFiniteSet(T)
  BY FS_Subset
<1>2. F = Turn(f, S, F) /\ G = Turn(g, T, G)
  BY <1>1, SumsExist
<1> HIDE DEF F, G
<1>3. \A t \in SUBSET T :
        /\ F[t] = IF t = {} THEN 0 ELSE f[Picked(t)] + F[t \ {Picked(t)}]
        /\ G[t] = IF t = {} THEN 0 ELSE g[Picked(t)] + G[t \ {Picked(t)}]
  <2>1. \A t \in SUBSET T : t \in SUBSET S
    OBVIOUS
  <2>2. \A t \in SUBSET S : Turn(f, S, F)[t] = IF t = {} THEN 0 ELSE f[Picked(t)] + F[t \ {Picked(t)}]
    BY DEF Turn
  <2>3. \A t \in SUBSET T : Turn(g, T, G)[t] = IF t = {} THEN 0 ELSE g[Picked(t)] + G[t \ {Picked(t)}]
    BY DEF Turn
  <2> QED
    BY <1>2, <2>1, <2>2, <2>3, Zenon
<1>4. 0 \in A
  <2>1. ASSUME NEW t \in SUBSET T, Cardinality(t) <= 0 PROVE t = {}
    BY <1>1, <2>1, Sizes, Smallest
  <2> QED
    BY <1>3, <2>1
<1>5. ASSUME NEW n \in Nat, n \in A PROVE n + 1 \in A
  <2> SUFFICES ASSUME NEW t \in SUBSET T, Cardinality(t) <= n + 1
               PROVE  F[t] = G[t]
    OBVIOUS
  <2> SUFFICES ASSUME t # {} PROVE F[t] = G[t]
    <3>1. F[t] = IF t = {} THEN 0 ELSE f[Picked(t)] + F[t \ {Picked(t)}]
      BY <1>3
    <3>2. G[t] = IF t = {} THEN 0 ELSE g[Picked(t)] + G[t \ {Picked(t)}]
      BY <1>3
    <3> QED
      BY <3>1, <3>2
  <2>1. Picked(t) \in t
    BY PickedIn
  <2>2. t \ {Picked(t)} \in SUBSET T /\ Cardinality(t \ {Picked(t)}) <= n
    BY <1>1, <2>1, Removed
  <2>3. F[t \ {Picked(t)}] = G[t \ {Picked(t)}] /\ f[Picked(t)] = g[Picked(t)]
    BY <1>5, <2>1, <2>2
  <2> QED
    BY <1>3, <2>3
<1>6. Nat \subseteq A
  <2> HIDE DEF A
  <2> QED
    BY <1>4, <1>5, SetInduction
<1> QED
  BY <1>1, <1>6, Sizes DEF F, G

-----------------------------------------------------------------------------
(* What other modules use.                                                  *)

LEMMA SumOfNothing == ASSUME NEW f PROVE SumFunctionOnSet(f, {}) = 0
<1>1. SumsOf(f, {})[{}] = Turn(f, {}, SumsOf(f, {}))[{}]
  BY SumsExist, FS_EmptySet
<1>2. Turn(f, {}, SumsOf(f, {}))[{}] = 0
  BY DEF Turn
<1> QED
  BY <1>1, <1>2, SumIsLast

LEMMA SumsEqual ==
  ASSUME NEW f, NEW g, NEW S, IsFiniteSet(S), \A x \in S : f[x] = g[x]
  PROVE  SumFunctionOnSet(f, S) = SumFunctionOnSet(g, S)
BY SumsAgree, SumIsLast

LEMMA SumOfPicked ==
  ASSUME NEW f, NEW S, IsFiniteSet(S), S # {}
  PROVE  SumFunctionOnSet(f, S) = f[Picked(S)] + SumFunctionOnSet(f, S \ {Picked(S)})
<1> DEFINE T == S \ {Picked(S)}
<1>1. SumsOf(f, S)[S] = Turn(f, S, SumsOf(f, S))[S]
  BY SumsExist
<1>2. Turn(f, S, SumsOf(f, S))[S] = f[Picked(S)] + SumsOf(f, S)[T]
  BY DEF Turn
<1>3. SumsOf(f, S)[T] = SumsOf(f, T)[T]
  BY SumsAgree
<1> QED
  BY <1>1, <1>2, <1>3, SumIsLast

\* The sum of integers is one, and any element can be taken first.
SplitsAt(f, T) ==
  /\ SumFunctionOnSet(f, T) \in Int
  /\ \A x \in T : SumFunctionOnSet(f, T) = f[x] + SumFunctionOnSet(f, T \ {x})

LEMMA SumSplits ==
  ASSUME NEW f, NEW S, IsFiniteSet(S), \A x \in S : f[x] \in Int
  PROVE  SplitsAt(f, S)
<1> DEFINE Sum(T) == SumFunctionOnSet(f, T)
           A == {n \in Nat : \A T \in SUBSET S : Cardinality(T) <= n => SplitsAt(f, T)}
<1>1. 0 \in A
  <2>1. ASSUME NEW T \in SUBSET S, Cardinality(T) <= 0 PROVE SplitsAt(f, T)
    <3>1. T = {}
      BY <2>1, Sizes, Smallest
    <3> QED
      BY <3>1, SumOfNothing DEF SplitsAt
  <2> QED
    BY <2>1
<1>2. ASSUME NEW n \in Nat, n \in A PROVE n + 1 \in A
  <2> SUFFICES ASSUME NEW T \in SUBSET S, Cardinality(T) <= n + 1, T # {} PROVE SplitsAt(f, T)
    BY SumOfNothing DEF SplitsAt
  <2> DEFINE p == Picked(T)
  <2>1. p \in T /\ f[p] \in Int
    BY PickedIn
  <2>2. IsFiniteSet(T) /\ \A x \in T : T \ {x} \in SUBSET S /\ Cardinality(T \ {x}) <= n
    BY FS_Subset, Removed
  <2>3. \A x \in T : SplitsAt(f, T \ {x})
    BY <1>2, <2>2
  <2>4. Sum(T) = f[p] + Sum(T \ {p}) /\ Sum(T \ {p}) \in Int
    BY <2>1, <2>2, <2>3, SumOfPicked DEF SplitsAt
  <2> HIDE DEF p
  <2>5. ASSUME NEW x \in T, x # p PROVE Sum(T) = f[x] + Sum(T \ {x})
    <3> DEFINE U == (T \ {x}) \ {p}
    <3>1. U = (T \ {p}) \ {x} /\ p \in T \ {x} /\ x \in T \ {p}
      BY <2>1, <2>5
    <3>2. Sum(T \ {x}) = f[p] + Sum(U) /\ Sum(T \ {p}) = f[x] + Sum(U)
      BY <2>1, <2>3, <3>1 DEF SplitsAt
    <3>3. Sum(T \ {x}) \in Int /\ f[x] \in Int
      BY <2>3 DEF SplitsAt
    <3>4. Sum(U) \in Int
      <4>1. U \in SUBSET S /\ Cardinality(U) <= n
        <5>1. IsFiniteSet(T \ {x}) /\ U \subseteq T \ {x}
          BY <2>2, FS_Subset
        <5>2. Cardinality(U) <= Cardinality(T \ {x}) /\ Cardinality(U) \in Nat
              /\ Cardinality(T \ {x}) \in Nat
          BY <5>1, FS_Subset, FS_CardinalityType
        <5> QED
          BY <2>2, <5>2
      <4> QED
        BY <1>2, <4>1 DEF SplitsAt
    <3> HIDE DEF U, Sum
    <3> QED
      BY <2>1, <2>4, <3>2, <3>3, <3>4
  <2> QED
    BY <2>1, <2>4, <2>5, SMTT(30) DEF SplitsAt
<1>3. Cardinality(S) \in A
  <2> HIDE DEF A
  <2> QED
    BY <1>1, <1>2, SetInduction, FS_CardinalityType
<1> QED
  BY <1>3, Sizes

LEMMA SumWithAnother ==
  ASSUME NEW f, NEW S, IsFiniteSet(S), NEW x, x \notin S, \A y \in S \cup {x} : f[y] \in Int
  PROVE  SumFunctionOnSet(f, S \cup {x}) = f[x] + SumFunctionOnSet(f, S)
<1>1. IsFiniteSet(S \cup {x}) /\ (S \cup {x}) \ {x} = S
  BY FS_AddElement
<1> QED
  BY <1>1, SumSplits DEF SplitsAt
=============================================================================
