---------------------------- MODULE ProofBasics ----------------------------
(***************************************************************************)
(* What the proofs of several modules need: induction over the natural     *)
(* numbers and over finite sets, recursion, the sum of a function over a   *)
(* finite set (SumFunctionOnSet of the community modules), and what an id  *)
(* map finds.                                                              *)
(*                                                                         *)
(* Induction is stated about sets: a smallest counterexample exists        *)
(* because < is well founded on Nat.                                       *)
(***************************************************************************)
EXTENDS IdMap, Functions, FiniteSetTheorems, TLAPS

PairSortProofs == INSTANCE QuickSortProofs WITH Element <- Pair, Key <- Id, Alike <- SameId

\* Induction over the natural numbers.
LEMMA SetInduction ==
  ASSUME NEW S, 0 \in S, \A n \in Nat : n \in S => n + 1 \in S
  PROVE  \A n \in Nat : n \in S
BY PairSortProofs!SetInduction

\* Every set of natural numbers has a smallest element.
LEMMA SmallestExists ==
  ASSUME NEW T \in SUBSET Nat, T # {}
  PROVE  \E m \in T : \A k \in T : m <= k
<1> DEFINE S == {m \in Nat : \A k \in T : m <= k}
<1> SUFFICES ASSUME ~ \E m \in T : \A k \in T : m <= k PROVE FALSE
  OBVIOUS
<1>1. 0 \in S
  OBVIOUS
<1>2. ASSUME NEW m \in Nat, m \in S PROVE m + 1 \in S
  <2>1. m \notin T
    BY <1>2
  <2>2. \A k \in T : m <= k /\ m # k /\ k \in Nat
    BY <1>2, <2>1
  <2> QED BY <2>2
<1>3. \A m \in Nat : m \in S
  <2> HIDE DEF S
  <2> QED BY <1>1, <1>2, SetInduction
<1>4. PICK k \in T : TRUE
  OBVIOUS
<1>5. k + 1 \in Nat
  BY <1>4
<1> QED BY <1>3, <1>4, <1>5

\* The sets of S that a property fails for have a smallest one: if G holds of the
\* empty set, and of a set when it holds of the set without any one element, it
\* holds of S.
LEMMA FiniteInduction ==
  ASSUME NEW S, IsFiniteSet(S), NEW G,
         {} \in G,
         \A T \in SUBSET S : T # {} /\ (\A x \in T : T \ {x} \in G) => T \in G
  PROVE  \A T \in SUBSET S : T \in G
<1> DEFINE N == {n \in Nat : \A T \in SUBSET S : Cardinality(T) = n => T \in G}
<1>1. \A T \in SUBSET S : IsFiniteSet(T) /\ Cardinality(T) \in Nat
  BY FS_Subset, FS_CardinalityType
<1>2. 0 \in N
  BY <1>1, FS_EmptySet
<1>3. ASSUME NEW n \in Nat, n \in N PROVE n + 1 \in N
  <2> SUFFICES ASSUME NEW T \in SUBSET S, Cardinality(T) = n + 1 PROVE T \in G
    OBVIOUS
  <2>1. T # {}
    <3>1. Cardinality({}) = 0 /\ n + 1 # 0
      BY FS_EmptySet
    <3> QED BY <3>1
  <2>2. ASSUME NEW x \in T PROVE T \ {x} \in SUBSET S /\ Cardinality(T \ {x}) = n
    <3>1. Cardinality(T \ {x}) = Cardinality(T) - 1
      BY <1>1, FS_RemoveElement
    <3> QED BY <3>1
  <2> QED BY <1>3, <2>1, <2>2
<1>4. \A n \in Nat : n \in N
  <2> HIDE DEF N
  <2> QED BY <1>2, <1>3, SetInduction
<1> QED BY <1>1, <1>4

\* A recursive function is defined if its step looks only at smaller arguments.
LooksDown(E, S, size, bound, step) ==
  /\ [E -> S] # {}
  /\ size \in [E -> Nat] /\ bound \in Nat /\ \A x \in E : size[x] < bound
  /\ \A g \in [E -> S], x \in E : step[<<g, x>>] \in S
  /\ \A g, h \in [E -> S], x \in E :
       (\A y \in E : size[y] < size[x] => g[y] = h[y]) => step[<<g, x>>] = step[<<h, x>>]

LEMMA MeasuredRecursion ==
  ASSUME NEW E, NEW S, NEW size, NEW bound, NEW step, LooksDown(E, S, size, bound, step)
  PROVE  \E f \in [E -> S] : \A x \in E : f[x] = step[<<f, x>>]
<1> USE DEF LooksDown
<1> DEFINE Upto(f, k) == \A x \in E : size[x] < k => f[x] = step[<<f, x>>]
           N == {k \in Nat : \E f \in [E -> S] : Upto(f, k)}
<1>1. 0 \in N
  <2>1. PICK f \in [E -> S] : TRUE
    OBVIOUS
  <2>2. Upto(f, 0)
    OBVIOUS
  <2> QED BY <2>1, <2>2
<1>2. ASSUME NEW k \in Nat, k \in N PROVE k + 1 \in N
  <2>1. PICK g \in [E -> S] : Upto(g, k)
    BY <1>2
  <2> DEFINE h == [x \in E |-> step[<<g, x>>]]
  <2>2. h \in [E -> S]
    OBVIOUS
  <2>3. ASSUME NEW x \in E, size[x] < k + 1 PROVE h[x] = step[<<h, x>>]
    <3>1. \A y \in E : size[y] < size[x] => g[y] = h[y]
      BY <2>1, <2>3
    <3>2. step[<<g, x>>] = step[<<h, x>>]
      BY <2>2, <3>1
    <3> QED BY <3>2
  <2>4. Upto(h, k + 1)
    BY <2>3
  <2> HIDE DEF h, Upto
  <2> QED BY <2>2, <2>4
<1>3. \A k \in Nat : k \in N
  <2> HIDE DEF N
  <2> QED BY <1>1, <1>2, SetInduction
<1>4. PICK f \in [E -> S] : Upto(f, bound)
  BY <1>3
<1> QED BY <1>4

\* How many elements of K are not greater than i.
Rank(K, i) == Cardinality({j \in K : j <= i})

\* The smallest index has rank 1, and so on: each rank belongs to one index.
LEMMA Ranks ==
  ASSUME NEW K \in SUBSET Int, IsFiniteSet(K)
  PROVE  /\ \A i \in K : Rank(K, i) \in 1 .. Cardinality(K)
         /\ \A i, j \in K : Rank(K, i) = Rank(K, j) => i = j
         /\ \A k \in 1 .. Cardinality(K) : \E i \in K : Rank(K, i) = k
<1> DEFINE Below(i) == {j \in K : j <= i}
           f == [i \in K |-> Rank(K, i)]
<1>1. \A i \in K : /\ IsFiniteSet(Below(i)) /\ Cardinality(Below(i)) \in Nat
                   /\ Cardinality(Below(i)) <= Cardinality(K) /\ i \in Below(i)
  BY FS_Subset, FS_CardinalityType
<1>2. Cardinality(K) \in Nat
  BY FS_CardinalityType
<1>3. ASSUME NEW i \in K PROVE Rank(K, i) \in 1 .. Cardinality(K)
  <2>1. Cardinality(Below(i)) # 0
    BY <1>1, FS_EmptySet
  <2> QED BY <1>1, <1>2, <2>1 DEF Rank
<1>4. ASSUME NEW i \in K, NEW j \in K, i < j PROVE Rank(K, i) # Rank(K, j)
  <2>1. Below(i) \in SUBSET Below(j) /\ j \in Below(j) /\ j \notin Below(i)
    <3>1. i \in Int /\ j \in Int /\ \A l \in K : l \in Int
      OBVIOUS
    <3>2. \A l \in K : l <= i => l <= j
      BY <1>4, <3>1
    <3>3. Below(i) \in SUBSET Below(j)
      BY <3>2
    <3>4. j <= j /\ ~ (j <= i)
      BY <1>4, <3>1
    <3> QED BY <3>3, <3>4
  <2>2. Cardinality(Below(i)) # Cardinality(Below(j))
    BY <1>1, <2>1, FS_Subset
  <2> QED BY <2>2 DEF Rank
<1>5. \A i, j \in K : Rank(K, i) = Rank(K, j) => i = j
  <2> TAKE i, j \in K
  <2>1. i < j \/ j < i \/ i = j
    OBVIOUS
  <2> QED BY <1>4, <2>1
<1>6. f \in Injection(K, 1 .. Cardinality(K))
  BY <1>3, <1>5 DEF Injection, IsInjective
<1>7. IsFiniteSet(1 .. Cardinality(K)) /\ Cardinality(1 .. Cardinality(K)) = Cardinality(K)
  BY <1>2, FS_Interval
<1>8. f \in Surjection(K, 1 .. Cardinality(K))
  BY <1>6, <1>7, FS_Injection
<1> QED BY <1>3, <1>5, <1>8 DEF Surjection

-----------------------------------------------------------------------------
(* Sums.                                                                   *)

\* The recursive function behind SumFunctionOnSet.
SumStep(f, g, T) ==
  IF T = {} THEN 0 ELSE LET x == CHOOSE x \in T : TRUE IN f[x] + g[T \ {x}]

Sums(f, S) == CHOOSE g : g = [T \in SUBSET S |-> SumStep(f, g, T)]

LEMMA SumBySums == \A f, S : SumFunctionOnSet(f, S) = Sums(f, S)[S]
BY DEF SumFunctionOnSet, FoldFunctionOnSet, MapThenFoldSet, Sums, SumStep

\* It is defined for every finite set.
LEMMA SumsDefined ==
  ASSUME NEW f, NEW S, IsFiniteSet(S)
  PROVE  \A T \in SUBSET S : Sums(f, S)[T] = SumStep(f, Sums(f, S), T)
<1> DEFINE Upto(g, n) == \A T \in SUBSET S : Cardinality(T) < n => g[T] = SumStep(f, g, T)
           N == {n \in Nat : \E g : Upto(g, n)}
<1>0. \A T \in SUBSET S : /\ IsFiniteSet(T) /\ Cardinality(T) \in Nat
                          /\ \A x \in T : T \ {x} \in SUBSET S /\ Cardinality(T \ {x}) = Cardinality(T) - 1
  BY FS_Subset, FS_CardinalityType, FS_RemoveElement
<1>1. 0 \in N
  BY <1>0
<1>2. ASSUME NEW n \in Nat, n \in N PROVE n + 1 \in N
  <2>1. PICK g : Upto(g, n)
    BY <1>2
  <2> DEFINE h == [T \in SUBSET S |-> SumStep(f, g, T)]
  <2>2. \A T \in SUBSET S : h[T] = SumStep(f, g, T)
    OBVIOUS
  <2>3. \A T \in SUBSET S : Cardinality(T) < n => h[T] = g[T]
    BY <2>1, <2>2
  <2> HIDE DEF h
  <2>4. ASSUME NEW T \in SUBSET S, Cardinality(T) < n + 1 PROVE h[T] = SumStep(f, h, T)
    <3>1. CASE T = {}
      BY <2>2, <3>1 DEF SumStep
    <3>2. CASE T # {}
      <4> DEFINE x == CHOOSE x \in T : TRUE
      <4>1. x \in T
        BY <3>2
      <4> HIDE DEF x
      <4>2. h[T \ {x}] = g[T \ {x}]
        BY <1>0, <2>3, <2>4, <4>1
      <4> QED BY <2>2, <3>2, <4>2 DEF SumStep, x
    <3> QED BY <3>1, <3>2
  <2> QED BY <2>4
<1>3. \A n \in Nat : n \in N
  <2> HIDE DEF N
  <2> QED BY <1>1, <1>2, SetInduction
<1>4. PICK g : Upto(g, Cardinality(S) + 1)
  <2>1. Cardinality(S) + 1 \in Nat
    BY FS_CardinalityType
  <2> QED BY <1>3, <2>1
<1> DEFINE h == [T \in SUBSET S |-> g[T]]
<1>5. \A T \in SUBSET S : Cardinality(T) < Cardinality(S) + 1
  BY FS_Subset, FS_CardinalityType
<1>6. \A T \in SUBSET S : h[T] = SumStep(f, h, T)
  <2>1. \A T \in SUBSET S : h[T] = g[T] /\ g[T] = SumStep(f, g, T)
    BY <1>4, <1>5
  <2> HIDE DEF h
  <2> TAKE T \in SUBSET S
  <2>2. CASE T = {}
    BY <2>1, <2>2 DEF SumStep
  <2>3. CASE T # {}
    <3> DEFINE x == CHOOSE x \in T : TRUE
    <3>1. x \in T
      BY <2>3
    <3> HIDE DEF x
    <3>2. h[T \ {x}] = g[T \ {x}]
      BY <1>0, <2>1, <3>1
    <3> QED BY <2>1, <2>3, <3>2 DEF SumStep, x
  <2> QED BY <2>2, <2>3
<1>7. h = [T \in SUBSET S |-> SumStep(f, h, T)]
  <2>1. h = [T \in SUBSET S |-> h[T]]
    OBVIOUS
  <2> HIDE DEF h
  <2> QED BY <1>6, <2>1
<1>8. Sums(f, S) = [T \in SUBSET S |-> SumStep(f, Sums(f, S), T)]
  <2> HIDE DEF h
  <2> QED BY <1>7 DEF Sums
<1> HIDE DEF h
<1> QED BY <1>8

-----------------------------------------------------------------------------
(* What the proofs use of sums.                                            *)

\* The sum depends on the summands alone.
LEMMA SumsAgree ==
  ASSUME NEW f, NEW g, NEW R, IsFiniteSet(R), NEW S, IsFiniteSet(S)
  PROVE  \A T \in SUBSET R : T \in SUBSET S /\ (\A x \in T : f[x] = g[x]) =>
                               Sums(f, R)[T] = Sums(g, S)[T]
<1> DEFINE Same(T) == T \in SUBSET S /\ (\A x \in T : f[x] = g[x]) =>
                        Sums(f, R)[T] = Sums(g, S)[T]
           G == {T \in SUBSET R : Same(T)}
<1>1. /\ \A T \in SUBSET R : Sums(f, R)[T] = SumStep(f, Sums(f, R), T)
      /\ \A T \in SUBSET S : Sums(g, S)[T] = SumStep(g, Sums(g, S), T)
  BY SumsDefined
<1>2. {} \in G
  BY <1>1 DEF SumStep
<1>3. ASSUME NEW T \in SUBSET R, T # {}, \A x \in T : T \ {x} \in G PROVE T \in G
  <2> SUFFICES ASSUME T \in SUBSET S, \A x \in T : f[x] = g[x]
      PROVE  Sums(f, R)[T] = Sums(g, S)[T]
    OBVIOUS
  <2> DEFINE c == CHOOSE x \in T : TRUE
  <2>1. c \in T
    BY <1>3
  <2>2. /\ Sums(f, R)[T] = f[c] + Sums(f, R)[T \ {c}]
        /\ Sums(g, S)[T] = g[c] + Sums(g, S)[T \ {c}]
    BY <1>1, <1>3 DEF SumStep
  <2> HIDE DEF c
  <2>3. Same(T \ {c})
    BY <1>3, <2>1
  <2> QED BY <2>1, <2>2, <2>3
<1> HIDE DEF G
<1>4. \A T \in SUBSET R : T \in G
  BY <1>2, <1>3, FiniteInduction
<1> QED BY <1>4 DEF G

LEMMA SumSame ==
  ASSUME NEW S, IsFiniteSet(S), NEW f, NEW g, \A x \in S : f[x] = g[x]
  PROVE  SumFunctionOnSet(f, S) = SumFunctionOnSet(g, S)
BY SumBySums, SumsAgree

LEMMA SumEmpty == ASSUME NEW f PROVE SumFunctionOnSet(f, {}) = 0
BY SumBySums, SumsDefined, FS_EmptySet DEF SumStep

LEMMA SumOfChosen ==
  ASSUME NEW S, IsFiniteSet(S), S # {}, NEW f
  PROVE  LET c == CHOOSE x \in S : TRUE
         IN  c \in S /\ SumFunctionOnSet(f, S) = f[c] + SumFunctionOnSet(f, S \ {c})
<1> DEFINE c == CHOOSE x \in S : TRUE
<1>1. c \in S
  OBVIOUS
<1>2. Sums(f, S)[S] = f[c] + Sums(f, S)[S \ {c}]
  BY SumsDefined DEF SumStep
<1> HIDE DEF c
<1>3. IsFiniteSet(S \ {c})
  BY FS_Subset
<1>4. Sums(f, S)[S \ {c}] = Sums(f, S \ {c})[S \ {c}]
  BY <1>3, SumsAgree
<1>5. /\ SumFunctionOnSet(f, S) = Sums(f, S)[S]
      /\ SumFunctionOnSet(f, S \ {c}) = Sums(f, S \ {c})[S \ {c}]
  BY SumBySums
<1>6. SumFunctionOnSet(f, S) = f[c] + SumFunctionOnSet(f, S \ {c})
  BY <1>2, <1>4, <1>5
<1> QED BY <1>1, <1>6 DEF c

LEMMA SumType ==
  ASSUME NEW S, IsFiniteSet(S), NEW f, \A x \in S : f[x] \in Int
  PROVE  SumFunctionOnSet(f, S) \in Int
<1> DEFINE G == {T \in SUBSET S : SumFunctionOnSet(f, T) \in Int}
<1>1. {} \in G
  BY SumEmpty
<1>2. ASSUME NEW T \in SUBSET S, T # {}, \A x \in T : T \ {x} \in G PROVE T \in G
  <2>1. IsFiniteSet(T)
    BY FS_Subset
  <2>2. PICK c \in T : SumFunctionOnSet(f, T) = f[c] + SumFunctionOnSet(f, T \ {c})
    BY <1>2, <2>1, SumOfChosen
  <2> QED BY <1>2, <2>2
<1> HIDE DEF G
<1>3. \A T \in SUBSET S : T \in G
  BY <1>1, <1>2, FiniteInduction
<1> QED BY <1>3 DEF G

LEMMA SumNat ==
  ASSUME NEW S, IsFiniteSet(S), NEW f, \A x \in S : f[x] \in Nat
  PROVE  SumFunctionOnSet(f, S) \in Nat
<1> DEFINE G == {T \in SUBSET S : SumFunctionOnSet(f, T) \in Nat}
<1>1. {} \in G
  BY SumEmpty
<1>2. ASSUME NEW T \in SUBSET S, T # {}, \A x \in T : T \ {x} \in G PROVE T \in G
  <2>1. IsFiniteSet(T)
    BY FS_Subset
  <2>2. PICK c \in T : SumFunctionOnSet(f, T) = f[c] + SumFunctionOnSet(f, T \ {c})
    BY <1>2, <2>1, SumOfChosen
  <2> QED BY <1>2, <2>2
<1> HIDE DEF G
<1>3. \A T \in SUBSET S : T \in G
  BY <1>1, <1>2, FiniteInduction
<1> QED BY <1>3 DEF G

\* Any summand can be taken out.
LEMMA SumRemove ==
  ASSUME NEW S, IsFiniteSet(S), NEW f, \A x \in S : f[x] \in Int, NEW x \in S
  PROVE  SumFunctionOnSet(f, S) = f[x] + SumFunctionOnSet(f, S \ {x})
<1> DEFINE Out(T) == \A y \in T : SumFunctionOnSet(f, T) = f[y] + SumFunctionOnSet(f, T \ {y})
           G == {T \in SUBSET S : Out(T)}
<1>1. {} \in G
  OBVIOUS
<1>2. ASSUME NEW T \in SUBSET S, T # {}, \A y \in T : T \ {y} \in G PROVE T \in G
  <2>1. IsFiniteSet(T) /\ T # {}
    BY <1>2, FS_Subset
  <2>2. \E c \in T : SumFunctionOnSet(f, T) = f[c] + SumFunctionOnSet(f, T \ {c})
    <3> HIDE DEF G
    <3> QED BY <2>1, SumOfChosen
  <2> PICK c \in T : SumFunctionOnSet(f, T) = f[c] + SumFunctionOnSet(f, T \ {c})
    BY <2>2
  <2>3. ASSUME NEW y \in T, y # c
        PROVE  SumFunctionOnSet(f, T) = f[y] + SumFunctionOnSet(f, T \ {y})
    <3> DEFINE U == (T \ {c}) \ {y}
    <3>1. U = (T \ {y}) \ {c}
      OBVIOUS
    <3>2. SumFunctionOnSet(f, T \ {c}) = f[y] + SumFunctionOnSet(f, U)
      <4>1. Out(T \ {c}) /\ y \in T \ {c}
        BY <1>2, <2>3
      <4> QED BY <4>1
    <3>3. SumFunctionOnSet(f, T \ {y}) = f[c] + SumFunctionOnSet(f, (T \ {y}) \ {c})
      <4>1. Out(T \ {y}) /\ c \in T \ {y}
        BY <1>2, <2>3
      <4> HIDE DEF U
      <4> QED BY <4>1
    <3>4. SumFunctionOnSet(f, T \ {y}) = f[c] + SumFunctionOnSet(f, U)
      BY <3>1, <3>3
    <3>5. IsFiniteSet(U) /\ \A z \in U : f[z] \in Int
      BY <2>1, FS_Subset
    <3> HIDE DEF U
    <3>6. SumFunctionOnSet(f, U) \in Int
      BY <3>5, SumType
    <3> QED BY <3>2, <3>4, <3>6
  <2> QED BY <2>2, <2>3
<1> HIDE DEF G
<1>3. \A T \in SUBSET S : T \in G
  BY <1>1, <1>2, FiniteInduction
<1> QED BY <1>3 DEF G

LEMMA SumAdd ==
  ASSUME NEW S, IsFiniteSet(S), NEW f, NEW x, x \notin S,
         f[x] \in Int, \A y \in S : f[y] \in Int
  PROVE  SumFunctionOnSet(f, S \cup {x}) = f[x] + SumFunctionOnSet(f, S)
<1> DEFINE T == S \cup {x}
<1>1. IsFiniteSet(T) /\ T \ {x} = S /\ x \in T /\ \A y \in T : f[y] \in Int
  BY FS_AddElement
<1> HIDE DEF T
<1>2. SumFunctionOnSet(f, T) = f[x] + SumFunctionOnSet(f, T \ {x})
  BY <1>1, SumRemove
<1> QED BY <1>1, <1>2 DEF T

\* Raising every summand by d.
LEMMA SumRaised ==
  ASSUME NEW S, IsFiniteSet(S), NEW d \in Int, NEW f, NEW g,
         \A x \in S : f[x] \in Int /\ g[x] = f[x] + d
  PROVE  SumFunctionOnSet(g, S) = SumFunctionOnSet(f, S) + d * Cardinality(S)
<1> DEFINE G == {T \in SUBSET S : SumFunctionOnSet(g, T) = SumFunctionOnSet(f, T) + d * Cardinality(T)}
<1>1. {} \in G
  BY SumEmpty, FS_EmptySet
<1>2. ASSUME NEW T \in SUBSET S, T # {}, \A x \in T : T \ {x} \in G PROVE T \in G
  <2>1. IsFiniteSet(T) /\ \A x \in T : f[x] \in Int /\ g[x] \in Int /\ g[x] = f[x] + d
    BY FS_Subset
  <2>2. PICK x \in T : TRUE
    BY <1>2
  <2> DEFINE U == T \ {x}
  <2>3. /\ SumFunctionOnSet(f, T) = f[x] + SumFunctionOnSet(f, U)
        /\ SumFunctionOnSet(g, T) = g[x] + SumFunctionOnSet(g, U)
    <3> HIDE DEF G
    <3> QED BY <2>1, SumRemove
  <2>4. SumFunctionOnSet(g, U) = SumFunctionOnSet(f, U) + d * Cardinality(U)
    BY <1>2
  <2>5. IsFiniteSet(U) /\ Cardinality(U) \in Nat /\ Cardinality(T) = Cardinality(U) + 1
    <3>1. IsFiniteSet(U) /\ Cardinality(U) = Cardinality(T) - 1
      BY <2>1, FS_RemoveElement
    <3>2. Cardinality(T) \in Nat /\ Cardinality(U) \in Nat
      BY <2>1, <3>1, FS_CardinalityType
    <3> HIDE DEF U
    <3> QED BY <3>1, <3>2
  <2>6. \A y \in U : f[y] \in Int
    BY <2>1
  <2> HIDE DEF U, G
  <2>7. SumFunctionOnSet(f, U) \in Int
    BY <2>5, <2>6, SumType
  <2>8. d * (Cardinality(U) + 1) = d * Cardinality(U) + d /\ d * Cardinality(U) \in Int
    BY <2>5
  <2>9. SumFunctionOnSet(g, T) = SumFunctionOnSet(f, T) + d * Cardinality(T)
    BY <2>1, <2>3, <2>4, <2>5, <2>7, <2>8
  <2> QED BY <2>9 DEF G
<1> HIDE DEF G
<1>3. \A T \in SUBSET S : T \in G
  BY <1>1, <1>2, FiniteInduction
<1> QED BY <1>3 DEF G

\* Renaming what is summed over.
LEMMA SumRenamed ==
  ASSUME NEW S, IsFiniteSet(S), NEW f, NEW g, NEW h,
         \A x \in S : f[x] \in Int /\ g[h[x]] = f[x],
         \A x, y \in S : h[x] = h[y] => x = y
  PROVE  SumFunctionOnSet(f, S) = SumFunctionOnSet(g, {h[x] : x \in S})
<1> DEFINE Image(T) == {h[x] : x \in T}
           G == {T \in SUBSET S : IsFiniteSet(Image(T)) /\ SumFunctionOnSet(f, T) = SumFunctionOnSet(g, Image(T))}
<1>1. {} \in G
  <2>1. Image({}) = {}
    OBVIOUS
  <2>2. SumFunctionOnSet(f, {}) = 0 /\ SumFunctionOnSet(g, {}) = 0 /\ IsFiniteSet({})
    BY SumEmpty, FS_EmptySet
  <2> HIDE DEF Image
  <2> QED BY <2>1, <2>2
<1>2. ASSUME NEW T \in SUBSET S, T # {}, \A x \in T : T \ {x} \in G PROVE T \in G
  <2>1. PICK x \in T : TRUE
    BY <1>2
  <2> DEFINE U == T \ {x}
  <2>2. IsFiniteSet(Image(U)) /\ SumFunctionOnSet(f, U) = SumFunctionOnSet(g, Image(U))
    BY <1>2
  <2>3. Image(T) = Image(U) \cup {h[x]}
    OBVIOUS
  <2>4. h[x] \notin Image(U) /\ g[h[x]] \in Int /\ \A y \in Image(U) : g[y] \in Int
    OBVIOUS
  <2>5. IsFiniteSet(T) /\ \A y \in T : f[y] \in Int
    BY FS_Subset
  <2> HIDE DEF G, Image, U
  <2>6. SumFunctionOnSet(g, Image(U) \cup {h[x]}) = g[h[x]] + SumFunctionOnSet(g, Image(U))
    BY <2>2, <2>4, SumAdd
  <2>7. SumFunctionOnSet(f, T) = f[x] + SumFunctionOnSet(f, U)
    BY <2>5, SumRemove DEF U
  <2>8. IsFiniteSet(Image(T))
    BY SMTT(30), <2>2, <2>3, FS_AddElement
  <2>9. SumFunctionOnSet(f, T) = SumFunctionOnSet(g, Image(T))
    BY <2>2, <2>3, <2>6, <2>7
  <2> QED BY <2>8, <2>9 DEF G
<1> HIDE DEF G
<1>3. \A T \in SUBSET S : T \in G
  BY <1>1, <1>2, FiniteInduction
<1> QED BY <1>3 DEF G

\* A sum with one more summand, which agrees with f on the others.
LEMMA SumExtended ==
  ASSUME NEW S, IsFiniteSet(S), NEW f, NEW g, NEW x, x \notin S,
         g[x] \in Int, \A y \in S : f[y] \in Int, \A y \in S : g[y] = f[y]
  PROVE  SumFunctionOnSet(g, S \cup {x}) = g[x] + SumFunctionOnSet(f, S)
<1>1. \A y \in S : g[y] \in Int
  OBVIOUS
<1>2. SumFunctionOnSet(g, S \cup {x}) = g[x] + SumFunctionOnSet(g, S)
  BY <1>1, SumAdd
<1>3. SumFunctionOnSet(g, S) = SumFunctionOnSet(f, S)
  BY SumSame
<1> QED BY <1>2, <1>3

\* A sum of which one summand changes.
LEMMA SumChanged ==
  ASSUME NEW S, IsFiniteSet(S), NEW f, NEW g, NEW x \in S,
         \A y \in S : f[y] \in Int, \A y \in S : y # x => g[y] = f[y], g[x] \in Int
  PROVE  SumFunctionOnSet(g, S) = SumFunctionOnSet(f, S) - f[x] + g[x]
<1> DEFINE U == S \ {x}
<1>1. IsFiniteSet(U) /\ \A y \in U : f[y] \in Int /\ g[y] = f[y]
  BY FS_Subset
<1>2. \A y \in S : g[y] \in Int
  OBVIOUS
<1>3. SumFunctionOnSet(f, S) = f[x] + SumFunctionOnSet(f, U)
  BY SumRemove
<1>4. SumFunctionOnSet(g, S) = g[x] + SumFunctionOnSet(g, U)
  BY <1>2, SumRemove
<1> HIDE DEF U
<1>5. SumFunctionOnSet(f, U) = SumFunctionOnSet(g, U) /\ SumFunctionOnSet(f, U) \in Int
  BY <1>1, SumSame, SumType
<1> QED BY <1>3, <1>4, <1>5

\* The sum of sums.
LEMMA SumPlus ==
  ASSUME NEW S, IsFiniteSet(S), NEW f, NEW g, NEW h,
         \A x \in S : f[x] \in Int /\ g[x] \in Int /\ h[x] = f[x] + g[x]
  PROVE  SumFunctionOnSet(h, S) = SumFunctionOnSet(f, S) + SumFunctionOnSet(g, S)
<1> DEFINE G == {T \in SUBSET S : SumFunctionOnSet(h, T) = SumFunctionOnSet(f, T) + SumFunctionOnSet(g, T)}
<1>1. {} \in G
  BY SumEmpty
<1>2. ASSUME NEW T \in SUBSET S, T # {}, \A x \in T : T \ {x} \in G PROVE T \in G
  <2>1. IsFiniteSet(T)
    BY FS_Subset
  <2>2. PICK x \in T : TRUE
    BY <1>2
  <2> DEFINE U == T \ {x}
  <2>3. /\ \A y \in T : f[y] \in Int /\ g[y] \in Int /\ h[y] \in Int
        /\ h[x] = f[x] + g[x]
    OBVIOUS
  <2>4. SumFunctionOnSet(h, U) = SumFunctionOnSet(f, U) + SumFunctionOnSet(g, U)
    BY <1>2
  <2>5. IsFiniteSet(U) /\ \A y \in U : f[y] \in Int /\ g[y] \in Int
    BY <2>1, FS_Subset
  <2> HIDE DEF G
  <2>6. SumFunctionOnSet(f, T) = f[x] + SumFunctionOnSet(f, U)
    BY <2>1, <2>3, SumRemove
  <2>7. SumFunctionOnSet(g, T) = g[x] + SumFunctionOnSet(g, U)
    BY <2>1, <2>3, SumRemove
  <2>8. SumFunctionOnSet(h, T) = h[x] + SumFunctionOnSet(h, U)
    BY <2>1, <2>3, SumRemove
  <2> HIDE DEF U
  <2>9. SumFunctionOnSet(f, U) \in Int /\ SumFunctionOnSet(g, U) \in Int
    BY <2>5, SumType
  <2>10. SumFunctionOnSet(h, T) = SumFunctionOnSet(f, T) + SumFunctionOnSet(g, T)
    BY <2>3, <2>4, <2>6, <2>7, <2>8, <2>9
  <2> QED BY <2>10 DEF G
<1> HIDE DEF G
<1>3. \A T \in SUBSET S : T \in G
  BY <1>1, <1>2, FiniteInduction
<1> QED BY <1>3 DEF G

\* Summands that are 0 do not count.
LEMMA SumPadded ==
  ASSUME NEW S, IsFiniteSet(S), NEW R \in SUBSET S, NEW f, NEW g,
         \A x \in R : g[x] \in Int /\ f[x] = g[x], \A x \in S \ R : f[x] = 0
  PROVE  SumFunctionOnSet(f, S) = SumFunctionOnSet(g, R)
<1> DEFINE G == {T \in SUBSET S : SumFunctionOnSet(f, T) = SumFunctionOnSet(g, T \cap R)}
<1>1. {} \in G
  <2>1. {} \cap R = {}
    OBVIOUS
  <2> QED BY <2>1, SumEmpty
<1>2. ASSUME NEW T \in SUBSET S, T # {}, \A x \in T : T \ {x} \in G PROVE T \in G
  <2>1. IsFiniteSet(T) /\ IsFiniteSet(T \cap R)
    BY FS_Subset
  <2>2. PICK x \in T : TRUE
    BY <1>2
  <2> DEFINE U == T \ {x}
  <2>3. \A y \in T : f[y] \in Int
    OBVIOUS
  <2>4. SumFunctionOnSet(f, U) = SumFunctionOnSet(g, U \cap R)
    BY <1>2
  <2>5. IsFiniteSet(U) /\ \A y \in U : f[y] \in Int
    BY <2>1, FS_Subset
  <2> HIDE DEF G
  <2>6. SumFunctionOnSet(f, T) = f[x] + SumFunctionOnSet(f, U) /\ SumFunctionOnSet(f, U) \in Int
    BY <2>1, <2>3, <2>5, SumRemove, SumType
  <2> HIDE DEF U
  <2>7. SumFunctionOnSet(f, T) = SumFunctionOnSet(g, T \cap R)
    <3>1. CASE x \in R
      <4> DEFINE V == T \cap R
      <4>1. V \ {x} = U \cap R /\ x \in V /\ \A y \in V : g[y] \in Int
        BY <3>1 DEF U
      <4> HIDE DEF V
      <4>2. SumFunctionOnSet(g, V) = g[x] + SumFunctionOnSet(g, V \ {x})
        BY <2>1, <4>1, SumRemove DEF V
      <4>3. f[x] = g[x]
        BY <3>1
      <4>4. SumFunctionOnSet(g, V) = g[x] + SumFunctionOnSet(g, U \cap R)
        BY <4>1, <4>2
      <4>5. SumFunctionOnSet(f, T) = SumFunctionOnSet(g, V)
        BY <2>4, <2>6, <4>3, <4>4
      <4> QED BY <4>5 DEF V
    <3>2. CASE x \notin R
      <4>1. f[x] = 0
        BY <3>2
      <4>2. T \cap R = U \cap R
        BY <3>2 DEF U
      <4>3. SumFunctionOnSet(f, T) = SumFunctionOnSet(f, U)
        BY <2>6, <4>1
      <4> QED BY <2>4, <4>2, <4>3
    <3> QED BY <3>1, <3>2
  <2> QED BY <2>7 DEF G
<1> HIDE DEF G
<1>3. \A T \in SUBSET S : T \in G
  BY <1>1, <1>2, FiniteInduction
<1>4. S \cap R = R
  OBVIOUS
<1> QED BY <1>3, <1>4 DEF G

-----------------------------------------------------------------------------
(* The id map.  Binary search is defined, since a range gets shorter, and  *)
(* an entry of the id that is looked for never leaves the range.           *)

Between(first, last) == [first |-> first, last |-> last]
Ranges(n) == [first : 0 .. n, last : -1 .. n - 1]

LEMMA RangesAre ==
  ASSUME NEW n \in Nat
  PROVE  /\ \A first \in 0 .. n, last \in -1 .. n - 1 : Between(first, last) \in Ranges(n)
         /\ \A r \in Ranges(n) : /\ r.first \in 0 .. n /\ r.last \in -1 .. n - 1
                                 /\ r = Between(r.first, r.last)
         /\ \A first, last : Between(first, last).first = first /\ Between(first, last).last = last
BY DEF Between, Ranges

Maps(n) == [0 .. n - 1 -> Pair]

Middle(r) == (r.first + r.last) \div 2

SearchStep(map, x, f, r) ==
  IF r.first > r.last THEN IDMAP_CONTENT_NOT_FOUND
  ELSE IF map[Middle(r)].id = x THEN map[Middle(r)].content
  ELSE IF map[Middle(r)].id < x THEN f[Between(Middle(r) + 1, r.last)]
  ELSE f[Between(r.first, Middle(r) - 1)]

Searching(n, map, x) == CHOOSE f : f = [r \in Ranges(n) |-> SearchStep(map, x, f, r)]

LEMMA SearchBySteps ==
  ASSUME NEW n \in Nat, NEW map \in Maps(n), NEW x
  PROVE  IdmapSearch(map, x) = Searching(n, map, x)[Between(0, n - 1)]
<1>1. Cardinality(DOMAIN map) = n
  <2>1. DOMAIN map = 0 .. n - 1 /\ 0 \in Int /\ n - 1 \in Int
    BY DEF Maps
  <2> QED BY <2>1, FS_Interval
<1> QED BY <1>1 DEF IdmapSearch, Searching, SearchStep, Middle, Between, Ranges

\* The two ranges that a step may go on with are shorter.
LEMMA RangeHalved ==
  ASSUME NEW n \in Nat, NEW r \in Ranges(n), r.first <= r.last
  PROVE  /\ Middle(r) \in 0 .. n - 1 /\ r.first <= Middle(r) /\ Middle(r) <= r.last
         /\ Between(Middle(r) + 1, r.last) \in Ranges(n)
         /\ Between(r.first, Middle(r) - 1) \in Ranges(n)
<1>1. r.first \in 0 .. n /\ r.last \in -1 .. n - 1
  BY RangesAre
<1>2. Middle(r) \in Int /\ r.first <= Middle(r) /\ Middle(r) <= r.last
  BY <1>1 DEF Middle
<1>3. Middle(r) \in 0 .. n - 1 /\ Middle(r) + 1 \in 0 .. n /\ Middle(r) - 1 \in -1 .. n - 1
  BY <1>1, <1>2
<1> QED BY <1>1, <1>2, <1>3, RangesAre

LEMMA SearchReturns ==
  ASSUME NEW n \in Nat, NEW map, NEW x
  PROVE  \A r \in Ranges(n) :
           Searching(n, map, x)[r] = SearchStep(map, x, Searching(n, map, x), r)
<1> DEFINE Dom == Ranges(n)
           Evaluated(f, r) == SearchStep(map, x, f, r)
           Size(r) == r.last - r.first + 1
           Upto(f, k) == \A r \in Dom : Size(r) < k => f[r] = Evaluated(f, r)
           S == {k \in Nat : \E f : Upto(f, k)}
<1>1. \A r \in Dom : /\ Size(r) \in Int /\ Size(r) <= n
                     /\ r.first > r.last <=> ~ (r.first <= r.last)
  BY RangesAre
<1>2. ASSUME NEW f, NEW g, NEW k \in Nat, \A r \in Dom : Size(r) < k => g[r] = f[r],
             NEW r \in Dom, Size(r) <= k
      PROVE  Evaluated(g, r) = Evaluated(f, r)
  <2>1. CASE r.first > r.last
    BY <2>1 DEF SearchStep
  <2>2. CASE ~ (r.first > r.last)
    <3> DEFINE left == Between(r.first, Middle(r) - 1)
               right == Between(Middle(r) + 1, r.last)
    <3>1. /\ Middle(r) \in 0 .. n - 1 /\ r.first <= Middle(r) /\ Middle(r) <= r.last
          /\ right \in Dom /\ left \in Dom /\ r.first \in Int /\ r.last \in Int
      BY <1>1, <2>2, RangeHalved, RangesAre
    <3>2. Size(left) < k /\ Size(right) < k
      BY SMTT(30), <1>2, <3>1, RangesAre
    <3>3. g[left] = f[left] /\ g[right] = f[right]
      BY <1>2, <3>1, <3>2
    <3> QED BY <3>3 DEF SearchStep
  <2> QED BY <2>1, <2>2
<1> HIDE DEF Dom, Evaluated, Size
<1>3. 0 \in S
  <2> DEFINE f == [r \in Dom |-> IDMAP_CONTENT_NOT_FOUND]
  <2>1. \A r \in Dom : Size(r) < 0 => Evaluated(f, r) = IDMAP_CONTENT_NOT_FOUND
    BY RangesAre DEF Dom, Size, Evaluated, SearchStep
  <2>2. Upto(f, 0)
    BY <2>1
  <2> QED BY <2>2
<1>4. ASSUME NEW k \in Nat, k \in S PROVE k + 1 \in S
  <2>1. PICK f : Upto(f, k)
    BY <1>4
  <2> DEFINE g == [r \in Dom |-> Evaluated(f, r)]
  <2>2. \A r \in Dom : g[r] = Evaluated(f, r)
    OBVIOUS
  <2> HIDE DEF g
  <2>3. \A r \in Dom : Size(r) < k => g[r] = f[r]
    BY <2>1, <2>2
  <2>4. ASSUME NEW r \in Dom, Size(r) < k + 1 PROVE g[r] = Evaluated(g, r)
    <3>1. Size(r) <= k
      BY <1>1, <2>4
    <3>2. Evaluated(g, r) = Evaluated(f, r)
      BY <1>2, <2>3, <3>1
    <3> QED BY <2>2, <3>2
  <2>5. Upto(g, k + 1)
    BY <2>4
  <2> QED BY <2>5
<1>5. \A k \in Nat : k \in S
  <2> HIDE DEF S
  <2> QED BY <1>3, <1>4, SetInduction
<1>6. PICK f : Upto(f, n + 1)
  BY <1>5
<1> DEFINE h == [r \in Dom |-> f[r]]
<1>7. \A r \in Dom : h[r] = f[r]
  OBVIOUS
<1>8. ASSUME NEW r \in Dom PROVE f[r] = Evaluated(h, r)
  <2>1. f[r] = Evaluated(f, r) /\ Size(r) <= n + 1
    BY <1>1, <1>6
  <2>2. Evaluated(h, r) = Evaluated(f, r)
    <3> HIDE DEF h
    <3> QED BY <1>2, <1>7, <2>1
  <2> QED BY <2>1, <2>2
<1>9. h = [r \in Dom |-> Evaluated(h, r)]
  BY <1>8
<1>10. Searching(n, map, x) = [r \in Dom |-> Evaluated(Searching(n, map, x), r)]
  <2> HIDE DEF h
  <2> QED BY <1>9 DEF Searching, Dom, Evaluated
<1> QED BY <1>10 DEF Dom, Evaluated

InOrderOfIds(n, map) == \A i, j \in 0 .. n - 1 : i < j => map[i].id < map[j].id

\* The search in a sorted map, for the entries within a range.
LEMMA SearchFinds ==
  ASSUME NEW n \in Nat, NEW map \in Maps(n), InOrderOfIds(n, map), NEW x \in Int
  PROVE  /\ \A i \in 0 .. n - 1 : map[i].id = x => IdmapSearch(map, x) = map[i].content
         /\ (\A i \in 0 .. n - 1 : map[i].id # x) => IdmapSearch(map, x) = IDMAP_CONTENT_NOT_FOUND
<1> DEFINE f == Searching(n, map, x)
           Size(r) == r.last - r.first + 1
           Fine(r) ==
             /\ \A i \in 0 .. n - 1 : r.first <= i /\ i <= r.last /\ map[i].id = x => f[r] = map[i].content
             /\ (\A i \in 0 .. n - 1 : map[i].id # x) => f[r] = IDMAP_CONTENT_NOT_FOUND
           S == {k \in Nat : \A r \in Ranges(n) : Size(r) < k => Fine(r)}
<1>1. \A r \in Ranges(n) : /\ f[r] = SearchStep(map, x, f, r)
                           /\ r.first \in 0 .. n /\ r.last \in -1 .. n - 1
  BY SearchReturns, RangesAre
<1>2. \A i \in 0 .. n - 1 : map[i].id \in Int
  BY DEF Pair, Maps
<1> HIDE DEF f
<1>3. 0 \in S
  BY <1>1 DEF SearchStep
<1>4. ASSUME NEW k \in Nat, k \in S PROVE k + 1 \in S
  <2> SUFFICES ASSUME NEW r \in Ranges(n), Size(r) < k + 1 PROVE Fine(r)
    BY <1>4
  <2>1. CASE r.first > r.last
    BY <1>1, <2>1 DEF SearchStep
  <2>2. CASE r.first <= r.last
    <3> DEFINE m == Middle(r)
               left == Between(r.first, m - 1)
               right == Between(m + 1, r.last)
    <3>1. m \in 0 .. n - 1 /\ r.first <= m /\ m <= r.last /\ right \in Ranges(n) /\ left \in Ranges(n)
      BY <2>2, RangeHalved
    <3>2. /\ left.first = r.first /\ left.last = m - 1
          /\ right.first = m + 1 /\ right.last = r.last
      BY RangesAre
    <3>3. f[r] = IF map[m].id = x THEN map[m].content
                 ELSE IF map[m].id < x THEN f[right] ELSE f[left]
      BY <1>1, <2>2 DEF SearchStep
    <3> HIDE DEF m, left, right
    <3>4. Fine(left) /\ Fine(right)
      <4>1. Size(left) < k /\ Size(right) < k
        BY <1>1, <3>1, <3>2
      <4> QED BY <1>4, <3>1, <4>1
    <3>5. ASSUME NEW i \in 0 .. n - 1, r.first <= i, i <= r.last, map[i].id = x
          PROVE  f[r] = map[i].content
      <4>1. CASE i = m
        BY <3>3, <3>5, <4>1
      <4>2. CASE i < m
        <5>1. map[i].id < map[m].id /\ i <= left.last /\ left.first <= i
          BY <3>1, <3>2, <3>5, <4>2 DEF InOrderOfIds
        <5>2. f[left] = map[i].content
          BY <3>4, <3>5, <5>1
        <5> QED BY <1>2, <3>1, <3>3, <3>5, <5>1, <5>2
      <4>3. CASE m < i
        <5>1. map[m].id < map[i].id /\ right.first <= i /\ i <= right.last
          BY <3>1, <3>2, <3>5, <4>3 DEF InOrderOfIds
        <5>2. f[right] = map[i].content
          BY <3>4, <3>5, <5>1
        <5> QED BY <1>2, <3>1, <3>3, <3>5, <5>1, <5>2
      <4> QED BY <3>1, <4>1, <4>2, <4>3
    <3>6. (\A i \in 0 .. n - 1 : map[i].id # x) => f[r] = IDMAP_CONTENT_NOT_FOUND
      BY <3>1, <3>3, <3>4
    <3> QED BY <3>5, <3>6
  <2> QED BY <1>1, <2>1, <2>2
<1>5. \A k \in Nat : k \in S
  <2> HIDE DEF S
  <2> QED BY <1>3, <1>4, SetInduction
<1>6. Between(0, n - 1) \in Ranges(n) /\ Size(Between(0, n - 1)) = n
  BY RangesAre
<1>7. Fine(Between(0, n - 1))
  <2>1. n + 1 \in S
    BY <1>5
  <2> QED BY <1>6, <2>1
<1>8. IdmapSearch(map, x) = f[Between(0, n - 1)]
  BY SearchBySteps DEF f
<1> QED BY <1>7, <1>8, RangesAre

-----------------------------------------------------------------------------
(* The pairs that are kept, in their order.                                *)

\* Every valid content has a valid id, and no two kept ids are equal.
AsIntended(ids, contents) ==
  /\ Valid(contents) \subseteq Valid(ids)
  /\ \A i, j \in Kept(ids, contents) : ids[i] = ids[j] => i = j

PairOf(ids, contents, i) == [id |-> ids[i], content |-> contents[i]]

LEMMA FilledWithPairs ==
  ASSUME NEW D \in SUBSET Int, IsFiniteSet(D), NEW ids \in [D -> Int], NEW contents \in [D -> Int],
         AsIntended(ids, contents)
  PROVE  LET n == Cardinality(Kept(ids, contents))
             map == Filled(ids, contents)
         IN  /\ n \in Nat /\ map \in Maps(n)
             /\ \A i \in Kept(ids, contents) : \E k \in 0 .. n - 1 : map[k] = PairOf(ids, contents, i)
             /\ \A k \in 0 .. n - 1 : \E i \in Kept(ids, contents) : map[k] = PairOf(ids, contents, i)
             /\ \A k, l \in 0 .. n - 1 : map[k].id = map[l].id => k = l
<1> DEFINE kept == Kept(ids, contents)
           n == Cardinality(kept)
           map == Filled(ids, contents)
           Nth(k) == CHOOSE i \in kept : Rank(kept, i) = k
<1>1. kept = Valid(contents) /\ kept \in SUBSET Int /\ kept \subseteq D
  BY DEF AsIntended, Kept, Valid
<1>2. IsFiniteSet(kept) /\ n \in Nat
  BY <1>1, FS_Subset, FS_CardinalityType
<1>3. /\ \A i \in kept : Rank(kept, i) \in 1 .. n
      /\ \A i, j \in kept : Rank(kept, i) = Rank(kept, j) => i = j
      /\ \A k \in 1 .. n : \E i \in kept : Rank(kept, i) = k
  BY <1>1, <1>2, Ranks
<1>4. map = [k \in 0 .. n - 1 |-> PairOf(ids, contents, Nth(k + 1))]
  <2>1. \A k \in 0 .. n - 1 : k < n /\ k + 1 \in 1 .. n
    BY <1>2
  <2> HIDE DEF kept
  <2>2. map = [k \in 0 .. n - 1 |-> IF k < n THEN PairOf(ids, contents, Nth(k + 1)) ELSE [id |-> 0, content |-> 0]]
    BY <1>1, <1>2, <2>1 DEF Filled, kept, Rank, PairOf
  <2> QED BY <2>1, <2>2
<1> HIDE DEF kept, n
<1>5. \A k \in 1 .. n : Nth(k) \in kept /\ Rank(kept, Nth(k)) = k
  BY <1>3
<1>6. \A i \in kept : Nth(Rank(kept, i)) = i
  BY <1>3, <1>5
<1>7. \A i \in kept : PairOf(ids, contents, i) \in Pair /\ PairOf(ids, contents, i).id = ids[i]
  BY <1>1 DEF Pair, PairOf
<1> HIDE DEF Nth
<1>8. \A k \in 0 .. n - 1 : k + 1 \in 1 .. n /\ Nth(k + 1) \in kept /\ map[k] = PairOf(ids, contents, Nth(k + 1))
  BY <1>2, <1>4, <1>5
<1>9. map \in Maps(n)
  BY <1>4, <1>7, <1>8 DEF Maps
<1>10. ASSUME NEW i \in kept PROVE \E k \in 0 .. n - 1 : map[k] = PairOf(ids, contents, i)
  <2>1. Rank(kept, i) - 1 \in 0 .. n - 1 /\ Rank(kept, i) - 1 + 1 = Rank(kept, i)
    BY <1>2, <1>3
  <2> QED BY <1>6, <1>8, <2>1
<1>11. ASSUME NEW k \in 0 .. n - 1, NEW l \in 0 .. n - 1, map[k].id = map[l].id PROVE k = l
  <2>1. ids[Nth(k + 1)] = ids[Nth(l + 1)]
    BY <1>7, <1>8, <1>11
  <2>2. Nth(k + 1) = Nth(l + 1)
    BY <1>8, <2>1 DEF AsIntended, kept
  <2>3. k + 1 = l + 1
    BY <1>5, <1>8, <2>2
  <2> QED BY <1>2, <2>3
<1>12. \A k \in 0 .. n - 1 : \E i \in kept : map[k] = PairOf(ids, contents, i)
  BY <1>8
<1> HIDE DEF map
<1> QED BY <1>2, <1>9, <1>10, <1>11, <1>12 DEF kept, n, map

-----------------------------------------------------------------------------
(* The map once it is sorted.                                              *)

LEMMA IdSortsAgree == \A a : PairSort!Sort(a) = PairSortProofs!Sort(a)
<1>1. \A S : PairSort!Cardinality(S) = PairSortProofs!Cardinality(S)
  BY DEF PairSort!Cardinality, PairSortProofs!Cardinality
<1> QED
  BY <1>1 DEF PairSort!Sort, PairSortProofs!Sort, PairSort!Partition, PairSortProofs!Partition, PairSort!Swap, PairSortProofs!Swap

\* Sorting entries with different ids keeps each of them, in order of their ids.
LEMMA SortedMap ==
  ASSUME NEW n \in Nat, NEW a \in Maps(n),
         \A k, l \in 0 .. n - 1 : a[k].id = a[l].id => k = l
  PROVE  LET map == PairSort!Sort(a)
         IN  /\ map \in Maps(n)
             /\ \A k \in 0 .. n - 1 : \E l \in 0 .. n - 1 : map[l] = a[k]
             /\ \A l \in 0 .. n - 1 : \E k \in 0 .. n - 1 : map[l] = a[k]
             /\ InOrderOfIds(n, map)
<1> DEFINE map == PairSort!Sort(a)
           Where(b, x) == {i \in 0 .. n - 1 : b[i] = x}
<1>1. PairSortProofs!KeysOrdered(Pair) /\ PairSortProofs!AlikeKeys(Pair)
  BY DEF PairSortProofs!KeysOrdered, PairSortProofs!AlikeKeys, Pair, Id, SameId
<1>2. a \in PairSortProofs!Arrays(n, Pair)
  BY DEF PairSortProofs!Arrays, Maps
<1>3. /\ map \in PairSortProofs!Arrays(n, Pair)
      /\ \A x : PairSortProofs!Occurrences(map, x) = PairSortProofs!Occurrences(a, x)
      /\ PairSortProofs!IsSorted(map)
  BY <1>1, <1>2, IdSortsAgree, PairSortProofs!SortCorrect
<1>4. map \in Maps(n)
  BY <1>3 DEF PairSortProofs!Arrays, Maps
<1> HIDE DEF map
<1>5. \A x : Cardinality(Where(map, x)) = Cardinality(Where(a, x))
  <2>1. DOMAIN map = 0 .. n - 1 /\ DOMAIN a = 0 .. n - 1
    BY <1>4 DEF Maps
  <2>2. \A S : Cardinality(S) = PairSortProofs!Cardinality(S)
    BY DEF Cardinality, PairSortProofs!Cardinality
  <2> QED BY <1>3, <2>1, <2>2 DEF PairSortProofs!Occurrences
<1>6. IsFiniteSet(0 .. n - 1)
  BY FS_Interval
<1>7. ASSUME NEW b, NEW x
      PROVE  IsFiniteSet(Where(b, x)) /\ (Cardinality(Where(b, x)) = 0 <=> Where(b, x) = {})
  <2> DEFINE P == Where(b, x)
  <2>1. P \in SUBSET (0 .. n - 1)
    OBVIOUS
  <2> HIDE DEF P
  <2>2. IsFiniteSet(P) /\ (Cardinality(P) = 0 <=> P = {})
    BY <1>6, <2>1, FS_Subset, FS_EmptySet
  <2> QED BY <2>2 DEF P
<1>12. \A b, x, i : i \in Where(b, x) <=> i \in 0 .. n - 1 /\ b[i] = x
  OBVIOUS
<1> HIDE DEF Where
<1>8. ASSUME NEW k \in 0 .. n - 1 PROVE \E l \in 0 .. n - 1 : map[l] = a[k]
  <2>1. Where(a, a[k]) # {}
    BY <1>12
  <2>2. Where(map, a[k]) # {}
    BY <1>5, <1>7, <2>1
  <2> QED BY <1>12, <2>2
<1>9. ASSUME NEW l \in 0 .. n - 1 PROVE \E k \in 0 .. n - 1 : map[l] = a[k]
  <2>1. Where(map, map[l]) # {}
    BY <1>12
  <2>2. Where(a, map[l]) # {}
    BY <1>5, <1>7, <2>1
  <2> QED BY <1>12, <2>2
\* An id that is in the map twice would be in a twice.
<1>10. ASSUME NEW i \in 0 .. n - 1, NEW j \in 0 .. n - 1, i < j, map[i].id = map[j].id PROVE FALSE
  <2>1. PICK k \in 0 .. n - 1 : map[i] = a[k]
    BY <1>9
  <2>2. PICK l \in 0 .. n - 1 : map[j] = a[l]
    BY <1>9
  <2>3. k = l
    BY <1>10, <2>1, <2>2
  <2>4. Where(a, a[k]) = {k}
    <3>1. \A m \in 0 .. n - 1 : a[m] = a[k] => m = k
      OBVIOUS
    <3> QED BY <1>12, <3>1
  <2>5. Cardinality(Where(map, a[k])) = 1
    BY <1>5, <2>4, FS_Singleton
  <2>6. PICK m : Where(map, a[k]) = {m}
    BY <1>7, <2>5, FS_Singleton
  <2>7. i \in Where(map, a[k]) /\ j \in Where(map, a[k])
    BY <1>12, <2>1, <2>2, <2>3
  <2> QED BY <1>10, <2>6, <2>7
<1>11. InOrderOfIds(n, map)
  <2> SUFFICES ASSUME NEW i \in 0 .. n - 1, NEW j \in 0 .. n - 1, i < j PROVE map[i].id < map[j].id
    BY DEF InOrderOfIds
  <2>1. map[i].id <= map[j].id
    <3>1. DOMAIN map = 0 .. n - 1
      BY <1>4 DEF Maps
    <3> QED BY <1>3, <3>1 DEF PairSortProofs!IsSorted, Id
  <2>2. map[i].id \in Int /\ map[j].id \in Int
    BY <1>4 DEF Pair, Maps
  <2> QED BY <1>10, <2>1, <2>2
<1> QED BY <1>4, <1>8, <1>9, <1>11 DEF map

\* The entries of a are the pairs of the indices in K.
Lists(n, a, K, ids, contents) ==
  /\ a \in Maps(n)
  /\ \A i \in K : ids[i] \in Int /\ \E k \in 0 .. n - 1 : a[k] = PairOf(ids, contents, i)
  /\ \A k \in 0 .. n - 1 : \E i \in K : a[k] = PairOf(ids, contents, i)

\* What a search in the map answers.
Answers(map, K, ids, contents) ==
  /\ \A i \in K : IdmapSearch(map, ids[i]) = contents[i]
  /\ \A x \in Int : (\A i \in K : ids[i] # x) => IdmapSearch(map, x) = IDMAP_CONTENT_NOT_FOUND

LEMMA FoundUnderItsId ==
  ASSUME NEW n \in Nat, NEW map, InOrderOfIds(n, map),
         NEW K, NEW ids, NEW contents, Lists(n, map, K, ids, contents)
  PROVE  Answers(map, K, ids, contents)
<1>0. map \in Maps(n)
  BY DEF Lists
<1>1. ASSUME NEW i \in K PROVE IdmapSearch(map, ids[i]) = contents[i]
  <2>1. PICK l \in 0 .. n - 1 : map[l] = PairOf(ids, contents, i)
    BY DEF Lists
  <2>2. ids[i] \in Int /\ map[l].id = ids[i] /\ map[l].content = contents[i]
    BY <2>1 DEF Lists, PairOf
  <2>3. IdmapSearch(map, ids[i]) = map[l].content
    BY <1>0, <2>2, SearchFinds
  <2> QED BY <2>2, <2>3
<1>2. ASSUME NEW x \in Int, \A i \in K : ids[i] # x
      PROVE  IdmapSearch(map, x) = IDMAP_CONTENT_NOT_FOUND
  <2>1. ASSUME NEW l \in 0 .. n - 1 PROVE map[l].id # x
    <3>1. PICK i \in K : map[l] = PairOf(ids, contents, i)
      BY DEF Lists
    <3> QED BY <1>2, <3>1 DEF PairOf
  <2> QED BY <1>0, <2>1, SearchFinds
<1> QED BY <1>1, <1>2 DEF Answers

LEMMA FoundAfterSort ==
  ASSUME NEW n \in Nat, NEW a, \A k, l \in 0 .. n - 1 : a[k].id = a[l].id => k = l,
         NEW K, NEW ids, NEW contents, Lists(n, a, K, ids, contents)
  PROVE  Answers(PairSort!Sort(a), K, ids, contents)
<1> DEFINE map == PairSort!Sort(a)
<1>0. a \in Maps(n)
  BY DEF Lists
<1>1. /\ map \in Maps(n)
      /\ \A k \in 0 .. n - 1 : \E l \in 0 .. n - 1 : map[l] = a[k]
      /\ \A l \in 0 .. n - 1 : \E k \in 0 .. n - 1 : map[l] = a[k]
      /\ InOrderOfIds(n, map)
  BY <1>0, SortedMap
<1> HIDE DEF map
<1>2. ASSUME NEW i \in K PROVE \E l \in 0 .. n - 1 : map[l] = PairOf(ids, contents, i)
  <2>1. PICK k \in 0 .. n - 1 : a[k] = PairOf(ids, contents, i)
    BY DEF Lists
  <2> QED BY <1>1, <2>1
<1>3. ASSUME NEW l \in 0 .. n - 1 PROVE \E i \in K : map[l] = PairOf(ids, contents, i)
  <2>1. PICK k \in 0 .. n - 1 : map[l] = a[k]
    BY <1>1
  <2> QED BY <2>1 DEF Lists
<1>4. Lists(n, map, K, ids, contents)
  BY <1>1, <1>2, <1>3 DEF Lists
<1>5. Answers(map, K, ids, contents)
  BY <1>1, <1>4, FoundUnderItsId
<1> QED BY <1>5 DEF map

\* idmap_search finds each content under its id, and nothing under any other id,
\* whatever arrays of ids and contents the map was created from, as long as they
\* fit together as all callers' do: otherwise memset's entries (0, 0) are in it.
THEOREM IdmapFindsWhatWasPutIn ==
  ASSUME NEW D \in SUBSET Int, IsFiniteSet(D), NEW ids \in [D -> Int], NEW contents \in [D -> Int],
         AsIntended(ids, contents)
  PROVE  LET map == CreateIdmap(ids, contents)
         IN  /\ \A i \in Kept(ids, contents) : IdmapSearch(map, ids[i]) = contents[i]
             /\ \A x \in Int : (\A i \in Kept(ids, contents) : ids[i] # x) =>
                                 IdmapSearch(map, x) = IDMAP_CONTENT_NOT_FOUND
<1> DEFINE K == Kept(ids, contents)
           a == Filled(ids, contents)
           n == Cardinality(K)
<1>1. /\ n \in Nat /\ a \in Maps(n)
      /\ \A i \in K : \E k \in 0 .. n - 1 : a[k] = PairOf(ids, contents, i)
      /\ \A k \in 0 .. n - 1 : \E i \in K : a[k] = PairOf(ids, contents, i)
      /\ \A k, l \in 0 .. n - 1 : a[k].id = a[l].id => k = l
  BY FilledWithPairs
<1>2. \A i \in K : ids[i] \in Int
  BY DEF Kept, Valid
<1> HIDE DEF K, a, n
<1>3. Lists(n, a, K, ids, contents)
  BY <1>1, <1>2 DEF Lists
<1>4. Answers(PairSort!Sort(a), K, ids, contents)
  BY <1>1, <1>3, FoundAfterSort
<1> QED BY <1>4 DEF CreateIdmap, Answers, K, a

=============================================================================
