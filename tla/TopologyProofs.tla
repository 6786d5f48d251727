--------------------------- MODULE TopologyProofs ---------------------------
(***************************************************************************)
(* Proofs about Topology: what each pass of getTopology leaves behind; and *)
(* about AnalyticModel: what the visits of graph_visit allocate, and that  *)
(* the printing visit writes all results, each queue solved once.          *)
(***************************************************************************)
EXTENDS AnalyticModel, ProofBasics, SequenceTheorems

-----------------------------------------------------------------------------
(* Sequences that list a set, each element once.                           *)

IsListing(s, S) ==
  /\ s \in Seq(S)
  /\ \A x \in S : \E i \in 1 .. Len(s) : s[i] = x
  /\ \A i, j \in 1 .. Len(s) : s[i] = s[j] => i = j

LEMMA ListingEmpty == IsListing(<<>>, {})
BY DEF IsListing

LEMMA ListingOne == ASSUME NEW x PROVE IsListing(<<x>>, {x})
BY DEF IsListing

LEMMA ListingTwo == ASSUME NEW x, NEW y, x # y PROVE IsListing(<<x, y>>, {x, y})
BY DEF IsListing

LEMMA ListingParts ==
  ASSUME NEW S, NEW s, IsListing(s, S)
  PROVE  /\ Len(s) \in Nat /\ DOMAIN s = 1 .. Len(s)
         /\ \A i \in 1 .. Len(s) : s[i] \in S
         /\ \A x \in S : \E i \in 1 .. Len(s) : s[i] = x
         /\ \A i, j \in 1 .. Len(s) : s[i] = s[j] => i = j
         /\ S = {s[i] : i \in DOMAIN s}
<1>1. Len(s) \in Nat /\ DOMAIN s = 1 .. Len(s) /\ \A i \in 1 .. Len(s) : s[i] \in S
  BY DEF IsListing
<1>2. S = {s[i] : i \in DOMAIN s}
  BY <1>1 DEF IsListing
<1> QED BY <1>1, <1>2 DEF IsListing

\* A listing of S followed by one of T.
LEMMA ListingConcat ==
  ASSUME NEW S, NEW T, NEW s, NEW t, IsListing(s, S), IsListing(t, T), S \cap T = {}
  PROVE  IsListing(s \o t, S \cup T)
<1> DEFINE U == S \cup T
           u == s \o t
<1>1. s \in Seq(U) /\ t \in Seq(U) /\ Len(s) \in Nat /\ Len(t) \in Nat
  <2>1. s \in Seq(S) /\ t \in Seq(T) /\ S \subseteq U /\ T \subseteq U
    BY DEF IsListing
  <2> QED BY <2>1, SeqMonotonic, LenProperties
<1>2. /\ u \in Seq(U) /\ Len(u) = Len(s) + Len(t)
      /\ \A i \in 1 .. Len(s) + Len(t) : u[i] = IF i <= Len(s) THEN s[i] ELSE t[i - Len(s)]
  BY <1>1, ConcatProperties
<1> HIDE DEF u
<1>3. ASSUME NEW i \in 1 .. Len(s) PROVE u[i] = s[i] /\ s[i] \in S
  <2>1. i \in 1 .. Len(s) + Len(t) /\ i <= Len(s)
    BY <1>1
  <2>2. s[i] \in S
    BY ListingParts
  <2> QED BY <1>2, <2>1, <2>2
<1>4. ASSUME NEW i \in 1 .. Len(t) PROVE u[Len(s) + i] = t[i] /\ t[i] \in T
  <2>1. Len(s) + i \in 1 .. Len(s) + Len(t) /\ ~ (Len(s) + i <= Len(s)) /\ (Len(s) + i) - Len(s) = i
    BY <1>1
  <2>2. t[i] \in T
    BY ListingParts
  <2> QED BY <1>2, <2>1, <2>2
<1>5. \A i \in 1 .. Len(u) : i \in 1 .. Len(s) \/ \E k \in 1 .. Len(t) : i = Len(s) + k
  <2> TAKE i \in 1 .. Len(u)
  <2>1. i \in 1 .. Len(s) \/ (i - Len(s) \in 1 .. Len(t) /\ i = Len(s) + (i - Len(s)))
    BY <1>1, <1>2
  <2> QED BY <2>1
<1>6. ASSUME NEW x \in U PROVE \E i \in 1 .. Len(u) : u[i] = x
  <2>1. CASE x \in S
    <3>1. PICK i \in 1 .. Len(s) : s[i] = x
      BY <2>1, ListingParts
    <3>2. i \in 1 .. Len(u)
      BY <1>1, <1>2
    <3> QED BY <1>3, <3>1, <3>2
  <2>2. CASE x \in T
    <3>1. PICK i \in 1 .. Len(t) : t[i] = x
      BY <2>2, ListingParts
    <3>2. Len(s) + i \in 1 .. Len(u)
      BY <1>1, <1>2
    <3> QED BY <1>4, <3>1, <3>2
  <2> QED BY <2>1, <2>2
<1>7. /\ \A i, j \in 1 .. Len(s) : s[i] = s[j] => i = j
      /\ \A i, j \in 1 .. Len(t) : t[i] = t[j] => i = j
  BY DEF IsListing
<1>8. ASSUME NEW i \in 1 .. Len(u), NEW j \in 1 .. Len(u), u[i] = u[j] PROVE i = j
  <2>1. CASE i \in 1 .. Len(s) /\ j \in 1 .. Len(s)
    BY <1>3, <1>7, <1>8, <2>1
  <2>2. CASE i \in 1 .. Len(s) /\ j \notin 1 .. Len(s)
    BY <1>3, <1>4, <1>5, <1>8, <2>2
  <2>3. CASE i \notin 1 .. Len(s) /\ j \in 1 .. Len(s)
    BY <1>3, <1>4, <1>5, <1>8, <2>3
  <2>4. CASE i \notin 1 .. Len(s) /\ j \notin 1 .. Len(s)
    <3>1. PICK k \in 1 .. Len(t) : i = Len(s) + k
      BY <1>5, <2>4
    <3>2. PICK l \in 1 .. Len(t) : j = Len(s) + l
      BY <1>5, <2>4
    <3>3. t[k] = t[l]
      BY <1>4, <1>8, <3>1, <3>2
    <3> QED BY <1>7, <3>1, <3>2, <3>3
  <2> QED BY <2>1, <2>2, <2>3, <2>4
<1> QED BY <1>2, <1>6, <1>8 DEF IsListing, u

\* Every listing of a finite set is as long as the set is large.
LEMMA ListingLength ==
  ASSUME NEW S, NEW s, IsListing(s, S)
  PROVE  IsFiniteSet(S) /\ Cardinality(S) = Len(s)
<1>1. Len(s) \in Nat /\ DOMAIN s = 1 .. Len(s) /\ s \in Seq(S)
  BY ListingParts DEF IsListing
<1>2. s \in [1 .. Len(s) -> S]
  BY <1>1, LenProperties
<1>3. s \in Bijection(1 .. Len(s), S)
  BY <1>2 DEF IsListing, Bijection, Injection, Surjection, IsInjective
<1>4. IsFiniteSet(1 .. Len(s)) /\ Cardinality(1 .. Len(s)) = Len(s)
  BY <1>1, FS_Interval
<1>5. ExistsBijection(1 .. Len(s), S)
  BY <1>3 DEF ExistsBijection
<1> HIDE DEF IsListing
<1> QED BY <1>4, <1>5, FS_Bijection

LEMMA ListingNumbers ==
  ASSUME NEW n \in Nat
  PROVE  IsListing(Numbers(n), 0 .. n - 1) /\ Len(Numbers(n)) = n
<1> DEFINE s == Numbers(n)
<1>1. s \in [1 .. n -> 0 .. n - 1] /\ \A i \in 1 .. n : s[i] = i - 1
  BY DEF Numbers
<1> HIDE DEF s
<1>2. s \in Seq(0 .. n - 1) /\ Len(s) = n
  BY <1>1
<1>3. \A x \in 0 .. n - 1 : x + 1 \in 1 .. n /\ s[x + 1] = x
  BY <1>1
<1> QED BY <1>1, <1>2, <1>3 DEF IsListing, s

-----------------------------------------------------------------------------
(* Sequences one after the other.                                          *)

JoinStep(f, w, s) == [i \in 0 .. Len(s) |-> IF i = 0 THEN <<>> ELSE f[i - 1] \o w[s[i]]]
Joins(w, s) == CHOOSE f : f = JoinStep(f, w, s)

LEMMA JoinedByJoins == \A w, s : Joined(w, s) = Joins(w, s)[Len(s)]
BY DEF Joined, Joins, JoinStep

SequencesOver(w, D, S) == \A x \in D : w[x] \in Seq(S)
IsJoin(j, w, s, S) ==
  /\ \A i \in 0 .. Len(s) : j[i] \in Seq(S)
  /\ j[0] = <<>>
  /\ \A i \in 1 .. Len(s) : j[i] = j[i - 1] \o w[s[i]]

LEMMA JoinsDefined ==
  ASSUME NEW D, NEW s \in Seq(D), NEW S, NEW w, SequencesOver(w, D, S)
  PROVE  IsJoin(Joins(w, s), w, s, S)
<1> DEFINE E == 0 .. Len(s)
           F == [E -> Seq(S)]
           step == [p \in F \X E |-> IF p[2] = 0 THEN <<>> ELSE p[1][p[2] - 1] \o w[s[p[2]]]]
           size == [i \in E |-> i]
<1>1. Len(s) \in Nat /\ \A i \in 1 .. Len(s) : w[s[i]] \in Seq(S)
  BY LenProperties, ElementOfSeq DEF SequencesOver
<1>2. ASSUME NEW f \in F, NEW i \in E
      PROVE  /\ step[<<f, i>>] = IF i = 0 THEN <<>> ELSE f[i - 1] \o w[s[i]]
             /\ step[<<f, i>>] \in Seq(S)
  <2>1. i # 0 => i - 1 \in E /\ i \in 1 .. Len(s)
    BY <1>1
  <2>2. i # 0 => f[i - 1] \in Seq(S) /\ w[s[i]] \in Seq(S)
    BY <1>1, <2>1
  <2>3. <<f, i>> \in F \X E /\ <<f, i>>[1] = f /\ <<f, i>>[2] = i
    OBVIOUS
  <2>4. step[<<f, i>>] = IF i = 0 THEN <<>> ELSE f[i - 1] \o w[s[i]]
    BY <2>3
  <2> QED BY <2>2, <2>4, ConcatProperties, EmptySeq
<1>4. size \in [E -> Nat] /\ (\A x \in E : size[x] < Len(s) + 1) /\ Len(s) + 1 \in Nat
  BY <1>1
<1>5. ASSUME NEW g \in F, NEW h \in F, NEW x \in E, \A y \in E : size[y] < size[x] => g[y] = h[y]
      PROVE  step[<<g, x>>] = step[<<h, x>>]
  <2>1. x # 0 => x - 1 \in E /\ size[x - 1] < size[x]
    BY <1>1
  <2>2. x # 0 => g[x - 1] = h[x - 1]
    BY <1>5, <2>1
  <2> QED BY <1>2, <2>2
<1>6. F # {}
  <2>1. [i \in E |-> <<>>] \in F
    BY EmptySeq
  <2> QED BY <2>1
<1> HIDE DEF step, size
<1>7. PICK f \in F : \A i \in E : f[i] = step[<<f, i>>]
  <2>1. \A g, h \in F, x \in E :
          (\A y \in E : size[y] < size[x] => g[y] = h[y]) => step[<<g, x>>] = step[<<h, x>>]
    BY <1>5
  <2>2. LooksDown(E, Seq(S), size, Len(s) + 1, step)
    BY <1>2, <1>4, <1>6, <2>1 DEF LooksDown
  <2> HIDE DEF E
  <2> QED BY <2>2, MeasuredRecursion
<1>8. f = [i \in E |-> f[i]]
  OBVIOUS
<1>9. f = JoinStep(f, w, s)
  <2>1. \A i \in E : f[i] = IF i = 0 THEN <<>> ELSE f[i - 1] \o w[s[i]]
    BY <1>2, <1>7
  <2> QED BY <1>8, <2>1 DEF JoinStep
<1> DEFINE j == Joins(w, s)
<1>10. j = JoinStep(j, w, s)
  BY <1>9 DEF Joins
<1> HIDE DEF j
<1>11. j[0] = <<>> /\ \A i \in 1 .. Len(s) : j[i] = j[i - 1] \o w[s[i]]
  <2>1. \A i \in E : j[i] = IF i = 0 THEN <<>> ELSE j[i - 1] \o w[s[i]]
    BY <1>10 DEF JoinStep
  <2>2. 0 \in E /\ \A i \in 1 .. Len(s) : i \in E /\ i # 0
    BY <1>1
  <2> QED BY <2>1, <2>2
<1>12. \A i \in E : j[i] \in Seq(S)
  <2> DEFINE N == {i \in Nat : i \in E => j[i] \in Seq(S)}
  <2>1. 0 \in N
    BY <1>11, EmptySeq
  <2>2. ASSUME NEW i \in Nat, i \in N PROVE i + 1 \in N
    <3>1. SUFFICES ASSUME i + 1 \in E PROVE j[i + 1] \in Seq(S)
      OBVIOUS
    <3>2. i \in E /\ i + 1 \in 1 .. Len(s) /\ (i + 1) - 1 = i
      BY <1>1, <3>1
    <3>3. j[i + 1] = j[i] \o w[s[i + 1]] /\ j[i] \in Seq(S) /\ w[s[i + 1]] \in Seq(S)
      BY <1>1, <1>11, <2>2, <3>2
    <3> QED BY <3>3, ConcatProperties
  <2>3. \A i \in Nat : i \in N
    <3> HIDE DEF N
    <3> QED BY <2>1, <2>2, SetInduction
  <2> QED BY <1>1, <2>3
<1> QED BY <1>11, <1>12 DEF j, IsJoin
\* If the sequences list disjoint sets, they list the union one after the other.
LEMMA JoinedListing ==
  ASSUME NEW D, NEW s, IsListing(s, D), NEW w, NEW Part,
         \A x \in D : IsListing(w[x], Part[x]),
         \A x, y \in D : x # y => Part[x] \cap Part[y] = {}
  PROVE  IsListing(Joined(w, s), UNION {Part[x] : x \in D})
<1> DEFINE S == UNION {Part[x] : x \in D}
           n == Len(s)
           j == Joins(w, s)
           Upto(k) == UNION {Part[s[i]] : i \in 1 .. k}
<1>1. /\ n \in Nat /\ s \in Seq(D)
      /\ \A i \in 1 .. n : s[i] \in D
      /\ \A x \in D : \E i \in 1 .. n : s[i] = x
      /\ \A i, k \in 1 .. n : s[i] = s[k] => i = k
  BY ListingParts DEF IsListing
<1>2. SequencesOver(w, D, S)
  <2> SUFFICES ASSUME NEW x \in D PROVE w[x] \in Seq(S)
    BY DEF SequencesOver
  <2>1. w[x] \in Seq(Part[x]) /\ Part[x] \subseteq S
    BY DEF IsListing
  <2> QED BY <2>1, SeqMonotonic
<1>3. j[0] = <<>> /\ \A i \in 1 .. n : j[i] = j[i - 1] \o w[s[i]]
  <2> HIDE DEF S, j
  <2>1. IsJoin(j, w, s, S)
    BY <1>1, <1>2, JoinsDefined DEF j
  <2> QED BY <2>1 DEF IsJoin
<1> HIDE DEF j, n
<1>4. ASSUME NEW k \in Nat, k + 1 <= n
      PROVE  Upto(k) \cap Part[s[k + 1]] = {} /\ Upto(k + 1) = Upto(k) \cup Part[s[k + 1]]
  <2>1. \A i \in 1 .. k : i \in 1 .. n /\ i # k + 1
    BY <1>1, <1>4
  <2>2. k + 1 \in 1 .. n
    BY <1>1, <1>4
  <2>3. \A i \in 1 .. k : Part[s[i]] \cap Part[s[k + 1]] = {}
    BY <1>1, <2>1, <2>2
  <2>4. \A i \in 1 .. k + 1 : i \in 1 .. k \/ i = k + 1
    OBVIOUS
  <2>5. 1 .. k \subseteq 1 .. k + 1 /\ k + 1 \in 1 .. k + 1
    OBVIOUS
  <2> QED BY <2>3, <2>4, <2>5
<1> DEFINE N == {k \in Nat : k <= n => IsListing(j[k], Upto(k))}
<1>5. 0 \in N
  <2>1. Upto(0) = {}
    OBVIOUS
  <2> QED BY <1>3, <2>1, ListingEmpty
<1>6. ASSUME NEW k \in Nat, k \in N PROVE k + 1 \in N
  <2>1. SUFFICES ASSUME k + 1 <= n PROVE IsListing(j[k + 1], Upto(k + 1))
    OBVIOUS
  <2>2. k + 1 \in 1 .. n /\ (k + 1) - 1 = k /\ k <= n
    BY <1>1, <2>1
  <2>3. j[k + 1] = j[k] \o w[s[k + 1]]
    BY <1>3, <2>2
  <2>4. IsListing(j[k], Upto(k)) /\ IsListing(w[s[k + 1]], Part[s[k + 1]])
    BY <1>1, <1>6, <2>2
  <2>5. Upto(k) \cap Part[s[k + 1]] = {} /\ Upto(k + 1) = Upto(k) \cup Part[s[k + 1]]
    BY <1>4, <2>1
  <2> HIDE DEF Upto
  <2> QED BY <2>3, <2>4, <2>5, ListingConcat
<1>7. \A k \in Nat : k \in N
  <2> HIDE DEF N
  <2> QED BY <1>5, <1>6, SetInduction
<1>8. IsListing(j[n], Upto(n))
  <2> HIDE DEF Upto
  <2> QED BY <1>1, <1>7
<1>9. Upto(n) = S
  BY <1>1
<1> QED BY <1>8, <1>9, JoinedByJoins DEF j, n

\* The lengths of the sequences.
Lengths(w, s) == [i \in 1 .. Len(s) |-> Len(w[s[i]])]

\* The length is the sum of the lengths, and each sequence is found after those before it.
LEMMA JoinedParts ==
  ASSUME NEW D, NEW s \in Seq(D), NEW S, NEW w, SequencesOver(w, D, S)
  PROVE  /\ Joined(w, s) \in Seq(S)
         /\ Len(Joined(w, s)) = SumFunctionOnSet(Lengths(w, s), 1 .. Len(s))
         /\ \A k \in 1 .. Len(s) :
              LET start == SumFunctionOnSet(Lengths(w, s), 1 .. k - 1)
              IN  SubSeq(Joined(w, s), start + 1, start + Len(w[s[k]])) = w[s[k]]
<1> DEFINE n == Len(s)
           j == Joins(w, s)
           L == Lengths(w, s)
           Start(k) == SumFunctionOnSet(L, 1 .. k)
<1>1. n \in Nat /\ \A i \in 1 .. n : w[s[i]] \in Seq(S) /\ Len(w[s[i]]) \in Nat
  BY LenProperties, ElementOfSeq DEF SequencesOver
<1>2. \A i \in 1 .. n : L[i] = Len(w[s[i]]) /\ L[i] \in Nat
  BY <1>1 DEF Lengths
<1>3. /\ \A i \in 0 .. n : j[i] \in Seq(S)
      /\ j[0] = <<>>
      /\ \A i \in 1 .. n : j[i] = j[i - 1] \o w[s[i]]
  <2>1. IsJoin(j, w, s, S)
    BY JoinsDefined
  <2> HIDE DEF j
  <2> QED BY <2>1 DEF IsJoin
<1> HIDE DEF n, j, L
<1>4. \A k \in 0 .. n : IsFiniteSet(1 .. k) /\ Start(k) \in Nat
  <2> TAKE k \in 0 .. n
  <2>1. \A i \in 1 .. k : i \in 1 .. n
    BY <1>1
  <2>2. IsFiniteSet(1 .. k)
    BY <1>1, FS_Interval
  <2> QED BY <1>2, <2>1, <2>2, SumNat
<1>5. Start(0) = 0
  <2>1. 1 .. 0 = {}
    OBVIOUS
  <2> QED BY <2>1, SumEmpty
<1>6. ASSUME NEW k \in Nat, k + 1 <= n PROVE Start(k + 1) = Start(k) + L[k + 1]
  <2>1. 1 .. k + 1 = (1 .. k) \cup {k + 1} /\ k + 1 \notin 1 .. k
    OBVIOUS
  <2>2. k \in 0 .. n /\ k + 1 \in 1 .. n /\ \A i \in 1 .. k : i \in 1 .. n
    BY <1>1, <1>6
  <2>3. L[k + 1] \in Int /\ \A i \in 1 .. k : L[i] \in Int
    BY <1>2, <2>2
  <2>4. IsFiniteSet(1 .. k) /\ Start(k) \in Nat
    BY <1>4, <2>2
  <2>5. SumFunctionOnSet(L, (1 .. k) \cup {k + 1}) = L[k + 1] + SumFunctionOnSet(L, 1 .. k)
    BY <2>1, <2>3, <2>4, SumAdd
  <2>6. Start(k + 1) = L[k + 1] + Start(k)
    BY <2>1, <2>5, Zenon
  <2> HIDE DEF Start
  <2> QED BY <2>3, <2>4, <2>6
<1> DEFINE Found(i, k) == \A p \in 1 .. L[k] : j[i][Start(k - 1) + p] = w[s[k]][p]
           N == {i \in Nat : i <= n => /\ Len(j[i]) = Start(i)
                                       /\ \A k \in 1 .. i : Found(i, k) /\ Start(k - 1) + L[k] <= Start(i)}
<1>7. 0 \in N
  <2>1. Len(j[0]) = 0
    BY <1>3
  <2>2. \A k \in 1 .. 0 : FALSE
    OBVIOUS
  <2> QED BY <1>5, <2>1, <2>2
<1>8. ASSUME NEW i \in Nat, i \in N PROVE i + 1 \in N
  <2>1. SUFFICES ASSUME i + 1 <= n
                 PROVE  /\ Len(j[i + 1]) = Start(i + 1)
                        /\ \A k \in 1 .. i + 1 : Found(i + 1, k) /\ Start(k - 1) + L[k] <= Start(i + 1)
    OBVIOUS
  <2>2. i \in 0 .. n /\ i + 1 \in 1 .. n /\ (i + 1) - 1 = i /\ i <= n
    BY <1>1, <2>1
  <2> DEFINE u == j[i]
             v == w[s[i + 1]]
  <2>3. j[i + 1] = u \o v /\ u \in Seq(S) /\ v \in Seq(S) /\ Len(v) = L[i + 1] /\ L[i + 1] \in Nat
    BY <1>1, <1>2, <1>3, <2>2
  <2>4. /\ Len(u) = Start(i) /\ Start(i) \in Nat /\ Start(i + 1) = Start(i) + L[i + 1]
        /\ \A k \in 1 .. i : Found(i, k) /\ Start(k - 1) + L[k] <= Start(i)
    BY <1>4, <1>6, <1>8, <2>1, <2>2
  <2>5. /\ Len(u \o v) = Len(u) + Len(v)
        /\ \A p \in 1 .. Len(u) + Len(v) : (u \o v)[p] = IF p <= Len(u) THEN u[p] ELSE v[p - Len(u)]
    BY <2>3, ConcatProperties
  <2> HIDE DEF v, Start
  <2>6. Len(j[i + 1]) = Start(i + 1)
    BY <2>3, <2>4, <2>5
  <2>7. ASSUME NEW k \in 1 .. i PROVE Found(i + 1, k) /\ Start(k - 1) + L[k] <= Start(i + 1)
    <3>1. /\ L[k] \in Nat /\ Start(k - 1) \in Nat /\ Start(k - 1) + L[k] <= Start(i)
          /\ \A p \in 1 .. L[k] : u[Start(k - 1) + p] = w[s[k]][p]
      <4>1. k \in 1 .. n /\ k - 1 \in 0 .. n
        BY <1>1, <2>2
      <4>2. L[k] \in Nat /\ Start(k - 1) \in Nat
        BY <1>2, <1>4, <4>1
      <4>3. Found(i, k) /\ Start(k - 1) + L[k] <= Start(i)
        BY <2>4
      <4>4. \A p \in 1 .. L[k] : u[Start(k - 1) + p] = w[s[k]][p]
        BY <4>3, Zenon
      <4> HIDE DEF Found
      <4> QED BY <4>2, <4>3, <4>4
    <3> HIDE DEF u
    <3>2. \A p \in 1 .. L[k] : Start(k - 1) + p \in 1 .. Len(u) + Len(v) /\ Start(k - 1) + p <= Len(u)
      <4> DEFINE a == Start(k - 1)
                 b == Len(u)
                 c == Len(v)
      <4>1. a \in Nat /\ L[k] \in Nat /\ b \in Nat /\ c \in Nat /\ a + L[k] <= b
        BY <2>3, <2>4, <3>1
      <4> HIDE DEF a, b, c
      <4>2. \A p \in 1 .. L[k] : a + p \in 1 .. b + c /\ a + p <= b
        BY <4>1
      <4> QED BY <4>2 DEF a, b, c
    <3>3. \A p \in 1 .. L[k] : (u \o v)[Start(k - 1) + p] = w[s[k]][p]
      BY <2>5, <3>1, <3>2
    <3>4. Start(k - 1) + L[k] <= Start(i + 1)
      BY SMTT(30), <2>3, <2>4, <3>1
    <3> QED BY <2>3, <3>3, <3>4
  <2>8. Found(i + 1, i + 1) /\ Start((i + 1) - 1) + L[i + 1] <= Start(i + 1)
    <3> HIDE DEF u
    <3>1. \A p \in 1 .. L[i + 1] : /\ Start(i) + p \in 1 .. Len(u) + Len(v)
                                   /\ ~ (Start(i) + p <= Len(u)) /\ (Start(i) + p) - Len(u) = p
      BY <2>3, <2>4
    <3>2. \A p \in 1 .. L[i + 1] : (u \o v)[Start(i) + p] = v[p]
      BY <2>5, <3>1
    <3>3. Start(i) + L[i + 1] <= Start(i + 1)
      BY <2>3, <2>4
    <3> QED BY <2>2, <2>3, <3>2, <3>3 DEF v
  <2>9. \A k \in 1 .. i + 1 : k \in 1 .. i \/ k = i + 1
    OBVIOUS
  <2> HIDE DEF Found
  <2> QED BY <2>6, <2>7, <2>8, <2>9
<1>9. \A i \in Nat : i \in N
  <2> HIDE DEF N
  <2> QED BY <1>7, <1>8, SetInduction
<1>10. /\ Len(j[n]) = Start(n) /\ j[n] \in Seq(S)
       /\ \A k \in 1 .. n : Found(n, k) /\ Start(k - 1) + L[k] <= Start(n)
  <2> HIDE DEF Start, Found
  <2> QED BY <1>1, <1>3, <1>9
<1>11. ASSUME NEW k \in 1 .. n
       PROVE  SubSeq(j[n], Start(k - 1) + 1, Start(k - 1) + L[k]) = w[s[k]]
  <2>1. /\ Start(k - 1) \in Nat /\ L[k] \in Nat /\ Start(k - 1) + L[k] <= Len(j[n]) /\ Len(w[s[k]]) = L[k]
        /\ \A p \in 1 .. L[k] : j[n][Start(k - 1) + p] = w[s[k]][p]
    <3>1. k - 1 \in 0 .. n
      BY <1>1
    <3> QED BY <1>2, <1>4, <1>10, <3>1
  <2> DEFINE a == Start(k - 1) + 1
             b == Start(k - 1) + L[k]
             sub == SubSeq(j[n], a, b)
  <2> HIDE DEF Start
  <2>2. a \in Int /\ b \in Int /\ \A i \in a .. b : i \in 1 .. Len(j[n])
    BY <2>1
  <2>3. \A i \in a .. b : j[n][i] \in S
    BY <1>10, <2>2, ElementOfSeq
  <2> HIDE DEF a, b
  <2>4. /\ sub \in Seq(S) /\ Len(sub) = IF a <= b THEN b - a + 1 ELSE 0
        /\ \A i \in 1 .. b - a + 1 : sub[i] = j[n][a + i - 1]
    BY <2>2, <2>3, SubSeqProperties
  <2> HIDE DEF sub
  <2>5. Len(sub) = L[k] /\ \A p \in 1 .. L[k] : p \in 1 .. b - a + 1 /\ a + p - 1 = Start(k - 1) + p
    <3> DEFINE m == Start(k - 1)
    <3>3. m \in Nat /\ L[k] \in Nat /\ a = m + 1 /\ b = m + L[k]
      BY <2>1 DEF a, b
    <3> HIDE DEF m
    <3>1. b - a + 1 = L[k] /\ a \in Int /\ b \in Int /\ (a <= b <=> L[k] # 0)
      BY <3>3
    <3>2. \A p \in 1 .. L[k] : a + p - 1 = Start(k - 1) + p
      BY <3>3 DEF m
    <3> QED BY <2>1, <2>4, <3>1, <3>2
  <2>6. \A p \in 1 .. L[k] : sub[p] = w[s[k]][p]
    BY <2>1, <2>4, <2>5
  <2>7. sub = w[s[k]]
    BY <1>1, <2>1, <2>4, <2>5, <2>6, SeqEqual
  <2> QED BY <2>7 DEF sub, a, b
<1> QED BY <1>2, <1>10, <1>11, JoinedByJoins DEF n, j, L
-----------------------------------------------------------------------------
(* The tree.                                                               *)

TreeOk == tree \in Trees

\* What lies where, level after level.
Depth(x) ==
  IF x = 0 THEN 0
  ELSE IF x \in Kind(WAN) THEN (IF tree.upper[x] = 0 THEN 1 ELSE 3)
  ELSE IF x \in Nodes(REGIONAL) THEN 2
  ELSE IF x \in Nodes(LOCAL_NODE) THEN 4
  ELSE IF x \in Kind(LAN) THEN 5 ELSE 6

LEMMA ElementsAre ==
  ASSUME TreeOk
  PROVE  /\ IsFiniteSet(Elements) /\ Elements = 0 .. Cardinality(Elements) - 1
         /\ Cardinality(Elements) \in Nat /\ 0 \in Elements /\ None \notin Elements
         /\ Elements \subseteq Nat
<1>1. IsTopology(tree)
  BY TopologyAssumption DEF TreeOk
<1>2. IsFiniteSet(Elements) /\ Elements = 0 .. Cardinality(Elements) - 1
  BY <1>1 DEF IsTopology, Elements
<1>3. 0 \in Elements
  BY <1>1 DEF IsTopology, Elements
<1>4. Cardinality(Elements) \in Nat
  BY <1>2, FS_CardinalityType
<1> QED BY <1>2, <1>3, <1>4 DEF None

LEMMA TreeShape ==
  ASSUME TreeOk
  PROVE  /\ Nodes(CENTRAL) = {0} /\ tree.upper[0] = None
         /\ Nodes(REGIONAL) # {}
         /\ \A x \in Elements \ {0} :
              \/ x \in Nodes(REGIONAL) /\ tree.upper[x] \in Kind(WAN) /\ tree.upper[tree.upper[x]] = 0
              \/ x \in Nodes(LOCAL_NODE) /\ tree.upper[x] \in Kind(WAN) /\ tree.upper[tree.upper[x]] \in Nodes(REGIONAL)
              \/ x \in Kind(WAN) /\ tree.upper[x] \in {0} \cup Nodes(REGIONAL)
              \/ x \in Kind(LAN) /\ tree.upper[x] \in Nodes(LOCAL_NODE)
              \/ x \in Devices /\ tree.upper[x] \in Kind(LAN)
         /\ \A n \in {0} \cup Nodes(REGIONAL) :
              \E w \in Kind(WAN) : \A v \in Kind(WAN) : tree.upper[v] = n <=> v = w
<1>1. IsTopology(tree)
  BY TopologyAssumption DEF TreeOk
<1> QED BY <1>1 DEF IsTopology, Elements, Nodes, Kind, Devices

LEMMA KindsApart ==
  /\ \A x : x \in Kind(NODE) \cup Kind(WAN) \cup Kind(LAN) \cup Devices => x \in Elements
  /\ \A t : Nodes(t) \subseteq Kind(NODE)
  /\ \A x \in Kind(NODE) : x \notin Kind(WAN) /\ x \notin Kind(LAN) /\ x \notin Devices
  /\ \A x \in Kind(WAN) : x \notin Kind(LAN) /\ x \notin Devices
  /\ \A x \in Kind(LAN) : x \notin Devices
  /\ \A x \in Nodes(CENTRAL) : x \notin Nodes(REGIONAL) /\ x \notin Nodes(LOCAL_NODE)
  /\ \A x \in Nodes(REGIONAL) : x \notin Nodes(LOCAL_NODE)
BY DEF Kind, Nodes, Devices, NODE, WAN, LAN, SENSOR, ACTUATOR, CENTRAL, REGIONAL, LOCAL_NODE

LEMMA Depths ==
  ASSUME TreeOk
  PROVE  \A x \in Elements :
           /\ Depth(x) \in 0 .. 6
           /\ Depth(x) = 0 <=> x = 0
           /\ Depth(x) = 1 <=> x \in Kind(WAN) /\ tree.upper[x] = 0
           /\ Depth(x) = 2 <=> x \in Nodes(REGIONAL)
           /\ Depth(x) = 3 <=> x \in Kind(WAN) /\ tree.upper[x] \in Nodes(REGIONAL)
           /\ Depth(x) = 4 <=> x \in Nodes(LOCAL_NODE)
           /\ Depth(x) = 5 <=> x \in Kind(LAN)
           /\ Depth(x) = 6 <=> x \in Devices
           /\ x # 0 => tree.upper[x] \in Elements /\ Depth(x) = Depth(tree.upper[x]) + 1
<1> SUFFICES ASSUME NEW x \in Elements
    PROVE  /\ Depth(x) \in 0 .. 6
           /\ Depth(x) = 0 <=> x = 0
           /\ Depth(x) = 1 <=> x \in Kind(WAN) /\ tree.upper[x] = 0
           /\ Depth(x) = 2 <=> x \in Nodes(REGIONAL)
           /\ Depth(x) = 3 <=> x \in Kind(WAN) /\ tree.upper[x] \in Nodes(REGIONAL)
           /\ Depth(x) = 4 <=> x \in Nodes(LOCAL_NODE)
           /\ Depth(x) = 5 <=> x \in Kind(LAN)
           /\ Depth(x) = 6 <=> x \in Devices
           /\ x # 0 => tree.upper[x] \in Elements /\ Depth(x) = Depth(tree.upper[x]) + 1
  OBVIOUS
<1> DEFINE u == tree.upper[x]
<1>1. 0 \in Nodes(CENTRAL) /\ \A n \in Nodes(REGIONAL) \cup Nodes(LOCAL_NODE) : n # 0
  BY TreeShape, KindsApart
<1>2. \A y \in Kind(WAN) \cup Kind(LAN) \cup Devices : y # 0 /\ y \in Elements
  BY <1>1, KindsApart
<1>3. CASE x = 0
  BY <1>1, <1>2, <1>3 DEF Depth
<1>4. CASE x \in Nodes(REGIONAL) /\ u \in Kind(WAN) /\ tree.upper[u] = 0
  <2>1. x # 0 /\ x \notin Kind(WAN) /\ x \notin Kind(LAN) /\ x \notin Devices /\ x \notin Nodes(LOCAL_NODE) /\ u # 0 /\ u \in Elements
    BY <1>1, <1>2, <1>4, KindsApart
  <2>2. Depth(x) = 2 /\ Depth(u) = 1
    BY <1>4, <2>1 DEF Depth
  <2> QED BY <1>4, <2>1, <2>2
<1>5. CASE x \in Nodes(LOCAL_NODE) /\ u \in Kind(WAN) /\ tree.upper[u] \in Nodes(REGIONAL)
  <2>1. /\ x # 0 /\ x \notin Kind(WAN) /\ x \notin Kind(LAN) /\ x \notin Devices /\ x \notin Nodes(REGIONAL)
        /\ u # 0 /\ u \in Elements /\ tree.upper[u] # 0
    BY <1>1, <1>2, <1>5, KindsApart
  <2>2. Depth(x) = 4 /\ Depth(u) = 3
    BY <1>5, <2>1 DEF Depth
  <2> QED BY <1>5, <2>1, <2>2
<1>6. CASE x \in Kind(WAN) /\ u \in {0} \cup Nodes(REGIONAL)
  <2>1. /\ x # 0 /\ x \notin Kind(LAN) /\ x \notin Devices
        /\ x \notin Nodes(REGIONAL) /\ x \notin Nodes(LOCAL_NODE)
    BY <1>1, <1>2, <1>6, KindsApart
  <2>2. CASE u = 0
    <3>1. Depth(x) = 1 /\ Depth(u) = 0 /\ u \in Elements /\ u \notin Nodes(REGIONAL)
      BY <1>1, <1>6, <2>1, <2>2, ElementsAre DEF Depth
    <3> QED BY <1>6, <2>1, <2>2, <3>1
  <2>3. CASE u \in Nodes(REGIONAL)
    <3>1. u # 0 /\ u \notin Kind(WAN) /\ u \in Elements
      BY <1>1, <2>3, KindsApart
    <3>2. Depth(x) = 3 /\ Depth(u) = 2
      BY <1>6, <2>1, <2>3, <3>1 DEF Depth
    <3> QED BY <1>6, <2>1, <2>3, <3>1, <3>2
  <2> QED BY <1>6, <2>2, <2>3
<1>7. CASE x \in Kind(LAN) /\ u \in Nodes(LOCAL_NODE)
  <2>1. /\ x # 0 /\ x \notin Kind(WAN) /\ x \notin Devices /\ x \notin Nodes(REGIONAL) /\ x \notin Nodes(LOCAL_NODE)
        /\ u # 0 /\ u \notin Kind(WAN) /\ u \notin Nodes(REGIONAL) /\ u \in Elements
    BY <1>1, <1>2, <1>7, KindsApart
  <2>2. Depth(x) = 5 /\ Depth(u) = 4
    BY <1>7, <2>1 DEF Depth
  <2> QED BY <1>7, <2>1, <2>2
<1>8. CASE x \in Devices /\ u \in Kind(LAN)
  <2>1. /\ x # 0 /\ x \notin Kind(WAN) /\ x \notin Kind(LAN) /\ x \notin Nodes(REGIONAL) /\ x \notin Nodes(LOCAL_NODE)
        /\ u # 0 /\ u \notin Kind(WAN) /\ u \notin Nodes(REGIONAL) /\ u \notin Nodes(LOCAL_NODE) /\ u \in Elements
    BY <1>1, <1>2, <1>8, KindsApart
  <2>2. Depth(x) = 6 /\ Depth(u) = 5
    BY <1>8, <2>1 DEF Depth
  <2> QED BY <1>8, <2>1, <2>2
<1> QED BY <1>3, <1>4, <1>5, <1>6, <1>7, <1>8, TreeShape
\* Induction down the tree, for a set of elements.
LEMMA DownTheTree ==
  ASSUME TreeOk, NEW S, 0 \in S, \A x \in Elements \ {0} : tree.upper[x] \in S => x \in S
  PROVE  \A x \in Elements : x \in S
<1> DEFINE N == {k \in Nat : \A x \in Elements : Depth(x) = k => x \in S}
<1>1. 0 \in N
  BY Depths
<1>2. ASSUME NEW k \in Nat, k \in N PROVE k + 1 \in N
  <2> SUFFICES ASSUME NEW x \in Elements, Depth(x) = k + 1 PROVE x \in S
    OBVIOUS
  <2>1. x # 0 /\ tree.upper[x] \in Elements /\ Depth(tree.upper[x]) = k
    BY Depths
  <2> QED BY <1>2, <2>1
<1>3. \A k \in Nat : k \in N
  <2> HIDE DEF N
  <2> QED BY <1>1, <1>2, SetInduction
<1>4. \A x \in Elements : Depth(x) \in Nat
  BY Depths
<1> QED BY <1>3, <1>4

\* Induction up the tree.
LEMMA UpTheTree ==
  ASSUME TreeOk, NEW S, \A x \in Elements : Below(x) \subseteq S => x \in S
  PROVE  \A x \in Elements : x \in S
<1> DEFINE N == {k \in Nat : \A x \in Elements : Depth(x) + k = 6 => x \in S}
<1>1. \A x \in Elements : \A l \in Below(x) : l \in Elements /\ Depth(l) = Depth(x) + 1 /\ Depth(l) \in 0 .. 6
  <2> SUFFICES ASSUME NEW x \in Elements, NEW l \in Below(x)
               PROVE  l \in Elements /\ Depth(l) = Depth(x) + 1 /\ Depth(l) \in 0 .. 6
    OBVIOUS
  <2>1. l \in Elements /\ tree.upper[l] = x
    BY DEF Below
  <2>2. l # 0
    BY <2>1, TreeShape, ElementsAre
  <2> QED BY <2>1, <2>2, Depths
<1>2. \A x \in Elements : Depth(x) \in 0 .. 6
  BY Depths
<1>3. 0 \in N
  <2> SUFFICES ASSUME NEW x \in Elements, Depth(x) + 0 = 6 PROVE x \in S
    OBVIOUS
  <2>1. Below(x) = {}
    BY <1>1, <1>2
  <2> QED BY <2>1
<1>4. ASSUME NEW k \in Nat, k \in N PROVE k + 1 \in N
  <2> SUFFICES ASSUME NEW x \in Elements, Depth(x) + (k + 1) = 6 PROVE x \in S
    OBVIOUS
  <2>1. \A l \in Below(x) : l \in Elements /\ Depth(l) + k = 6
    BY <1>1, <1>2
  <2>2. \A l \in Below(x) : l \in S
    BY <1>4, <2>1
  <2> QED BY <2>2
<1>5. \A k \in Nat : k \in N
  <2> HIDE DEF N
  <2> QED BY <1>3, <1>4, SetInduction
<1>6. \A x \in Elements : 6 - Depth(x) \in Nat /\ Depth(x) + (6 - Depth(x)) = 6
  BY <1>2
<1> QED BY <1>5, <1>6

UpStep(t, f) ==
  [x \in DOMAIN t.upper |-> IF t.upper[x] = None THEN {} ELSE {t.upper[x]} \cup f[t.upper[x]]]
Ups(t) == CHOOSE f : f = UpStep(t, f)

LEMMA AboveByUps == \A e : Above(e) = Ups(tree)[e]
BY DEF Above, AboveIn, Ups, UpStep

LEMMA AboveUnfolds ==
  ASSUME TreeOk
  PROVE  /\ Above(0) = {}
         /\ \A x \in Elements \ {0} : Above(x) = {tree.upper[x]} \cup Above(tree.upper[x])
         /\ \A x \in Elements : Above(x) \subseteq Elements
<1> DEFINE E == Elements
           u == tree.upper
           F == [E -> SUBSET E]
           step == [p \in F \X E |-> IF p[2] = 0 THEN {} ELSE {u[p[2]]} \cup p[1][u[p[2]]]]
           size == [x \in E |-> Depth(x)]
<1>1. /\ u[0] = None /\ 0 \in E
      /\ \A x \in E \ {0} : u[x] # None /\ u[x] \in E /\ Depth(u[x]) < Depth(x)
      /\ \A x \in E : Depth(x) \in 0 .. 6
  <2>1. u[0] = None /\ 0 \in E /\ None \notin E
    BY TreeShape, ElementsAre
  <2>2. \A x \in E : Depth(x) \in 0 .. 6 /\ (x # 0 => u[x] \in E /\ Depth(x) = Depth(u[x]) + 1)
    BY Depths
  <2> QED BY <2>1, <2>2
<1> HIDE DEF E, u
<1>2. \A f \in F, x \in E : /\ step[<<f, x>>] = IF x = 0 THEN {} ELSE {u[x]} \cup f[u[x]]
                            /\ step[<<f, x>>] \in SUBSET E
  BY <1>1
<1>3. LooksDown(E, SUBSET E, size, 7, step)
  <2>1. \A g, h \in F, x \in E :
          (\A y \in E : size[y] < size[x] => g[y] = h[y]) => step[<<g, x>>] = step[<<h, x>>]
    BY <1>1, <1>2
  <2>2. F # {} /\ size \in [E -> Nat] /\ \A x \in E : size[x] < 7
    <3>1. [x \in E |-> {}] \in F
      OBVIOUS
    <3>2. \A x \in E : size[x] = Depth(x) /\ size[x] \in Nat /\ size[x] < 7
      BY <1>1
    <3>3. size \in [E -> Nat]
      BY <3>2
    <3> HIDE DEF size, F
    <3> QED BY <3>1, <3>2, <3>3
  <2> HIDE DEF step, size
  <2> QED BY <1>2, <2>1, <2>2 DEF LooksDown
<1> HIDE DEF step, size
<1>4. PICK f \in F : \A x \in E : f[x] = step[<<f, x>>]
  BY <1>3, MeasuredRecursion
<1>5. f = UpStep(tree, f)
  <2>1. \A x \in E : f[x] = IF u[x] = None THEN {} ELSE {u[x]} \cup f[u[x]]
    BY <1>1, <1>2, <1>4
  <2>2. f = [x \in E |-> f[x]]
    BY <1>4
  <2> QED BY <2>1, <2>2 DEF UpStep, E, u, Elements
<1> DEFINE g == Ups(tree)
<1>6. g = UpStep(tree, g)
  BY <1>5 DEF Ups
<1> HIDE DEF g
<1>7. \A x \in E : g[x] = IF u[x] = None THEN {} ELSE {u[x]} \cup g[u[x]]
  BY <1>6 DEF UpStep, E, u, Elements
<1>8. g[0] = {} /\ \A x \in E \ {0} : g[x] = {u[x]} \cup g[u[x]]
  BY <1>1, <1>7
<1>9. \A x \in E : g[x] \subseteq E
  <2> DEFINE S == {x \in E : g[x] \subseteq E}
  <2>1. 0 \in S
    BY <1>1, <1>8
  <2>2. \A x \in E \ {0} : u[x] \in S => x \in S
    BY <1>1, <1>8
  <2>3. \A x \in E : x \in S
    <3> HIDE DEF S
    <3> QED BY <2>1, <2>2, DownTheTree DEF E, u
  <2> QED BY <2>3
<1> QED BY <1>8, <1>9, AboveByUps DEF E, u, g

\* The way up from an element has one element of each depth.
LEMMA WayUp ==
  ASSUME TreeOk, NEW x \in Elements
  PROVE  /\ x \notin Above(x)
         /\ \A y \in Above(x) : y \in Elements /\ Depth(y) < Depth(x) /\ Above(y) \subseteq Above(x)
         /\ \A y \in {x} \cup Above(x) : y # 0 => tree.upper[y] \in Above(x)
         /\ \A y, z \in {x} \cup Above(x) : Depth(y) = Depth(z) => y = z
         /\ \A d \in 0 .. Depth(x) : \E y \in {x} \cup Above(x) : Depth(y) = d
<1> DEFINE E == Elements
           u == tree.upper
           Way(v) == {v} \cup Above(v)
           S == {v \in E : /\ \A y \in Above(v) : Depth(y) < Depth(v) /\ Above(y) \subseteq Above(v)
                           /\ \A y \in Way(v) : y # 0 => u[y] \in Above(v)
                           /\ \A y, z \in Way(v) : Depth(y) = Depth(z) => y = z
                           /\ \A d \in 0 .. Depth(v) : \E y \in Way(v) : Depth(y) = d}
<1>1. Above(0) = {} /\ 0 \in E /\ Depth(0) = 0
  BY AboveUnfolds, ElementsAre, Depths
<1>2. \A v \in E \ {0} : /\ u[v] \in E /\ Depth(v) = Depth(u[v]) + 1
                         /\ Above(v) = Way(u[v])
  BY AboveUnfolds, Depths
<1>3. \A v \in E : Depth(v) \in Nat /\ Above(v) \subseteq E
  BY AboveUnfolds, Depths
<1>4. 0 \in S
  BY <1>1
<1>5. ASSUME NEW v \in E \ {0}, u[v] \in S PROVE v \in S
  <2> DEFINE a == Above(u[v])
  <2>1. /\ \A y \in a : y \in E /\ Depth(y) < Depth(u[v]) /\ Above(y) \subseteq a
        /\ \A y \in Way(u[v]) : y # 0 => u[y] \in a
        /\ \A y, z \in Way(u[v]) : Depth(y) = Depth(z) => y = z
        /\ \A d \in 0 .. Depth(u[v]) : \E y \in Way(u[v]) : Depth(y) = d
    BY <1>2, <1>3, <1>5
  <2>2. Above(v) = {u[v]} \cup a /\ Depth(v) = Depth(u[v]) + 1 /\ Depth(u[v]) \in Nat
    BY <1>2, <1>3
  <2>3. \A y \in Above(v) : Depth(y) < Depth(v) /\ Depth(y) \in Nat /\ Above(y) \subseteq Above(v)
    BY <1>3, <2>1, <2>2
  <2>4. \A y \in Way(v) : y # 0 => u[y] \in Above(v)
    BY <2>1, <2>2
  <2>5. \A y, z \in Way(v) : Depth(y) = Depth(z) => y = z
    BY <2>1, <2>2, <2>3
  <2>6. \A d \in 0 .. Depth(v) : \E y \in Way(v) : Depth(y) = d
    <3> TAKE d \in 0 .. Depth(v)
    <3>1. d \in 0 .. Depth(u[v]) \/ d = Depth(v)
      BY <2>2
    <3> QED BY <2>1, <2>2, <3>1
  <2> QED BY <2>3, <2>4, <2>5, <2>6
<1>6. \A v \in E : v \in S
  <2> HIDE DEF S
  <2> QED BY <1>4, <1>5, DownTheTree
<1>7. \A y \in Above(x) : y \in Elements /\ Depth(y) < Depth(x)
  BY <1>3, <1>6
<1>8. x \notin Above(x)
  BY <1>3, <1>7
<1> QED BY <1>6, <1>7, <1>8
-----------------------------------------------------------------------------
(* The subtrees.                                                           *)

\* The elements on and below n, as seen from below.
On(n) == {x \in Elements : x = n \/ n \in Above(x)}

LEMMA BelowIs ==
  ASSUME TreeOk, NEW n \in Elements
  PROVE  \A l \in Below(n) : /\ l \in Elements /\ l # 0 /\ tree.upper[l] = n
                             /\ Depth(l) = Depth(n) + 1 /\ n \in Above(l)
<1> SUFFICES ASSUME NEW l \in Below(n)
             PROVE  l \in Elements /\ l # 0 /\ tree.upper[l] = n /\ Depth(l) = Depth(n) + 1 /\ n \in Above(l)
  OBVIOUS
<1>1. l \in Elements /\ tree.upper[l] = n
  BY DEF Below
<1>2. l # 0
  BY <1>1, TreeShape, ElementsAre
<1> QED BY <1>1, <1>2, Depths, AboveUnfolds

\* An element below n is on exactly one of the elements directly below n.
LEMMA OnSplits ==
  ASSUME TreeOk, NEW n \in Elements
  PROVE  /\ On(n) = {n} \cup UNION {On(l) : l \in Below(n)}
         /\ \A l \in Below(n) : n \notin On(l)
         /\ \A l, m \in Below(n) : l # m => On(l) \cap On(m) = {}
<1>1. ASSUME NEW x \in Elements, n \in Above(x)
      PROVE  \E l \in Below(n) : x \in On(l)
  <2>1. Depth(n) \in Nat /\ Depth(x) \in Nat /\ Depth(n) < Depth(x)
    BY <1>1, WayUp, Depths
  <2>2. PICK l \in {x} \cup Above(x) : Depth(l) = Depth(n) + 1
    <3>1. Depth(n) + 1 \in 0 .. Depth(x)
      BY <2>1
    <3> QED BY <3>1, WayUp
  <2>3. l # 0 /\ l \in Elements
    BY <1>1, <2>1, <2>2, Depths, WayUp
  <2>4. tree.upper[l] \in Above(x) /\ Depth(tree.upper[l]) = Depth(n)
    <3>1. tree.upper[l] \in Above(x)
      BY <2>2, <2>3, WayUp
    <3>2. Depth(l) = Depth(tree.upper[l]) + 1 /\ tree.upper[l] \in Elements
      BY <2>3, Depths
    <3>3. Depth(tree.upper[l]) \in Nat
      BY <3>2, Depths
    <3> QED BY <2>1, <2>2, <3>1, <3>2, <3>3
  <2>5. tree.upper[l] = n
    BY <1>1, <2>4, WayUp
  <2>6. l \in Below(n)
    BY <2>3, <2>5 DEF Below
  <2> QED BY <2>2, <2>6 DEF On
<1>2. \A l \in Below(n) : On(l) \subseteq On(n)
  <2> SUFFICES ASSUME NEW l \in Below(n), NEW x \in On(l) PROVE x \in On(n)
    OBVIOUS
  <2>1. n \in Above(l) /\ l \in Elements
    BY BelowIs
  <2>2. x \in Elements /\ (x = l \/ l \in Above(x))
    BY DEF On
  <2>3. n \in Above(x)
    BY <2>1, <2>2, WayUp
  <2> QED BY <2>2, <2>3 DEF On
<1>3. On(n) = {n} \cup UNION {On(l) : l \in Below(n)}
  <2>1. n \in On(n)
    BY DEF On
  <2>2. \A x \in On(n) : x = n \/ \E l \in Below(n) : x \in On(l)
    BY <1>1 DEF On
  <2> QED BY <1>2, <2>1, <2>2
<1>4. \A l \in Below(n) : n \notin On(l)
  <2> SUFFICES ASSUME NEW l \in Below(n), n \in On(l) PROVE FALSE
    OBVIOUS
  <2>1. l \in Elements /\ Depth(l) = Depth(n) + 1 /\ Depth(n) \in Nat
    BY BelowIs, Depths
  <2>2. n = l \/ l \in Above(n)
    BY DEF On
  <2>3. Depth(l) <= Depth(n)
    BY <2>1, <2>2, WayUp
  <2> QED BY <2>1, <2>3
<1>5. \A l, m \in Below(n) : l # m => On(l) \cap On(m) = {}
  <2> SUFFICES ASSUME NEW l \in Below(n), NEW m \in Below(n), NEW x \in On(l), x \in On(m) PROVE l = m
    OBVIOUS
  <2>1. x \in Elements /\ l \in {x} \cup Above(x) /\ m \in {x} \cup Above(x)
    BY DEF On
  <2>2. Depth(l) = Depth(m)
    BY BelowIs
  <2> QED BY <2>1, <2>2, WayUp
<1> QED BY <1>3, <1>4, <1>5
-----------------------------------------------------------------------------
(* The arrays that the elements put themselves into.                       *)

Arrays(n) == [1 .. n -> Elements \cup {None}]

FillStep(S, n, f) ==
  [m \in 0 .. Cardinality(Elements) |->
     IF m = 0 THEN EmptyPlaces(n)
     ELSE IF m - 1 \in S THEN PutFirst(m - 1, f[m - 1]) ELSE f[m - 1]]
Fills(S, n) == CHOOSE f : f = FillStep(S, n, f)

LEMMA PlacesByFills == \A S, n : Places(S, n) = Fills(S, n)[Cardinality(Elements)]
BY DEF Places, Fills, FillStep

LEMMA PutFirstArray ==
  ASSUME TreeOk, NEW n \in Nat, NEW a \in Arrays(n), NEW d \in Elements
  PROVE  PutFirst(d, a) \in Arrays(n)
BY DEF PutFirst, Arrays

IsFilling(f, S, n) ==
  /\ f[0] = EmptyPlaces(n)
  /\ \A m \in Elements : f[m + 1] = IF m \in S THEN PutFirst(m, f[m]) ELSE f[m]

LEMMA FillsDefined ==
  ASSUME TreeOk, NEW S \in SUBSET Elements, NEW n \in Nat
  PROVE  IsFilling(Fills(S, n), S, n)
<1> DEFINE c == Cardinality(Elements)
           E == 0 .. c
           A == Arrays(n)
           F == [E -> A]
           step == [p \in F \X E |-> IF p[2] = 0 THEN EmptyPlaces(n)
                                     ELSE IF p[2] - 1 \in S THEN PutFirst(p[2] - 1, p[1][p[2] - 1])
                                     ELSE p[1][p[2] - 1]]
           size == [i \in E |-> i]
<1>1. c \in Nat /\ Elements = 0 .. c - 1
  BY ElementsAre
<1>2. EmptyPlaces(n) \in A
  BY DEF EmptyPlaces, Arrays
<1> HIDE DEF c, A
<1>3. \A i \in E : i # 0 => i - 1 \in Elements /\ i - 1 \in E
  BY <1>1
<1>4. ASSUME NEW f \in F, NEW i \in E
      PROVE  /\ step[<<f, i>>] = IF i = 0 THEN EmptyPlaces(n)
                                 ELSE IF i - 1 \in S THEN PutFirst(i - 1, f[i - 1]) ELSE f[i - 1]
             /\ step[<<f, i>>] \in A
  <2>1. step[<<f, i>>] = IF i = 0 THEN EmptyPlaces(n)
                         ELSE IF i - 1 \in S THEN PutFirst(i - 1, f[i - 1]) ELSE f[i - 1]
    <3>1. <<f, i>> \in F \X E /\ <<f, i>>[1] = f /\ <<f, i>>[2] = i
      OBVIOUS
    <3> QED BY <3>1
  <2>2. i # 0 => f[i - 1] \in A /\ i - 1 \in Elements
    BY <1>3
  <2>3. i # 0 => PutFirst(i - 1, f[i - 1]) \in A
    BY <2>2, PutFirstArray DEF A
  <2> QED BY <1>2, <2>1, <2>2, <2>3
<1>5. LooksDown(E, A, size, c + 1, step)
  <2>1. ASSUME NEW g \in F, NEW h \in F, NEW x \in E, \A y \in E : size[y] < size[x] => g[y] = h[y]
        PROVE  step[<<g, x>>] = step[<<h, x>>]
    <3>1. x # 0 => x - 1 \in E /\ size[x - 1] < size[x]
      BY <1>1
    <3>2. x # 0 => g[x - 1] = h[x - 1]
      BY <2>1, <3>1
    <3> HIDE DEF step
    <3> QED BY <1>4, <3>2
  <2>2. \A g, h \in F, x \in E :
          (\A y \in E : size[y] < size[x] => g[y] = h[y]) => step[<<g, x>>] = step[<<h, x>>]
    <3> HIDE DEF F, E, size, step
    <3> QED BY <2>1
  <2>3. F # {}
    <3>1. [i \in E |-> EmptyPlaces(n)] \in F
      BY <1>2
    <3> QED BY <3>1
  <2>4. size \in [E -> Nat] /\ c + 1 \in Nat /\ \A x \in E : size[x] < c + 1
    BY <1>1
  <2>5. \A g \in F, x \in E : step[<<g, x>>] \in A
    <3> HIDE DEF step
    <3> QED BY <1>4
  <2> HIDE DEF E, step, size
  <2> QED BY <2>2, <2>3, <2>4, <2>5 DEF LooksDown
<1> HIDE DEF step, size
<1>6. PICK f \in F : \A i \in E : f[i] = step[<<f, i>>]
  <2> HIDE DEF E
  <2> QED BY <1>5, MeasuredRecursion
<1>7. f = FillStep(S, n, f)
  <2>1. \A i \in E : f[i] = IF i = 0 THEN EmptyPlaces(n)
                            ELSE IF i - 1 \in S THEN PutFirst(i - 1, f[i - 1]) ELSE f[i - 1]
    BY <1>4, <1>6
  <2>2. f = [i \in E |-> f[i]]
    BY <1>6
  <2> QED BY <2>1, <2>2 DEF FillStep, c
<1> DEFINE g == Fills(S, n)
<1>8. g = FillStep(S, n, g)
  BY <1>7 DEF Fills
<1> HIDE DEF g
<1>9. \A i \in E : g[i] = IF i = 0 THEN EmptyPlaces(n)
                          ELSE IF i - 1 \in S THEN PutFirst(i - 1, g[i - 1]) ELSE g[i - 1]
  BY <1>8 DEF FillStep, c
<1>10. 0 \in E /\ \A m \in Elements : m + 1 \in E /\ m + 1 # 0 /\ (m + 1) - 1 = m
  BY <1>1
<1> QED BY <1>9, <1>10 DEF g, IsFilling

\* The array has the elements below m that are in S in its first places.
Holds(a, S, n, m) ==
  LET c == Cardinality({x \in S : x < m})
  IN  /\ \A i \in 1 .. n : IF i <= c THEN a[i] \in S /\ a[i] < m ELSE a[i] = None
      /\ \A x \in S : x < m => \E i \in 1 .. c : a[i] = x
      /\ \A i, j \in 1 .. c : a[i] = a[j] => i = j

LEMMA FilledOneMore ==
  ASSUME TreeOk, NEW S \in SUBSET Elements, NEW n, n = Cardinality(S), NEW m \in S,
         NEW a \in Arrays(n), Holds(a, S, n, m)
  PROVE  Holds(PutFirst(m, a), S, n, m + 1)
<1> DEFINE Lower(k) == {x \in S : x < k}
           c == Cardinality(Lower(m))
<1>1. IsFiniteSet(S) /\ n \in Nat /\ m \in Nat /\ \A x \in S : x \in Nat
  BY ElementsAre, FS_Subset, FS_CardinalityType
<1>2. Lower(m + 1) = Lower(m) \cup {m} /\ m \notin Lower(m) /\ Lower(m + 1) \subseteq S
  <2>1. \A x \in S : x < m + 1 <=> x < m \/ x = m
    BY <1>1
  <2>2. ~ (m < m)
    BY <1>1
  <2> QED BY <2>1, <2>2
<1>3. IsFiniteSet(Lower(m)) /\ c \in Nat /\ Cardinality(Lower(m + 1)) = c + 1 /\ c + 1 <= n
  <2>1. Lower(m) \subseteq S
    OBVIOUS
  <2>2. IsFiniteSet(Lower(m)) /\ IsFiniteSet(Lower(m + 1)) /\ c \in Nat
    BY <1>1, <1>2, <2>1, FS_Subset, FS_CardinalityType
  <2>3. Cardinality(Lower(m + 1)) = c + 1
    BY <1>2, <2>2, FS_AddElement
  <2>4. Cardinality(Lower(m + 1)) <= n
    BY <1>1, <1>2, FS_Subset
  <2> QED BY <2>2, <2>3, <2>4
<1>4. /\ \A i \in 1 .. n : IF i <= c THEN a[i] \in S /\ a[i] < m ELSE a[i] = None
      /\ \A x \in S : x < m => \E i \in 1 .. c : a[i] = x
      /\ \A i, j \in 1 .. c : a[i] = a[j] => i = j
  BY DEF Holds
<1> HIDE DEF c, Lower
<1>5. DOMAIN a = 1 .. n
  BY DEF Arrays
<1> DEFINE fits == {i \in DOMAIN a : a[i] \in {None, m}}
<1>6. fits = {i \in 1 .. n : i > c}
  <2>1. \A i \in 1 .. n : i <= c => a[i] # None /\ a[i] # m
    BY <1>1, <1>4 DEF None
  <2>2. \A i \in 1 .. n : i > c => a[i] = None
    BY <1>3, <1>4
  <2>3. \A i \in 1 .. n : i <= c \/ i > c
    BY <1>3
  <2> QED BY <1>5, <2>1, <2>2, <2>3
<1>7. c + 1 \in fits /\ \A i \in fits : c + 1 <= i
  BY <1>1, <1>3, <1>6
<1> HIDE DEF fits
<1>8. (CHOOSE i \in fits : \A j \in fits : i <= j) = c + 1
  <2>1. \A i \in fits : i \in Nat
    BY <1>6
  <2>2. \A i \in fits : (\A j \in fits : i <= j) => i = c + 1
    BY <1>3, <1>7, <2>1
  <2> QED BY <1>7, <2>2
<1> DEFINE b == PutFirst(m, a)
<1>9. b = [a EXCEPT ![c + 1] = m]
  <2>1. fits # {}
    BY <1>7
  <2> QED BY <1>8, <2>1 DEF PutFirst, fits
<1>10. b[c + 1] = m /\ \A i \in 1 .. n : i # c + 1 => b[i] = a[i]
  <2>1. c + 1 \in 1 .. n
    BY <1>1, <1>3
  <2> QED BY <1>5, <1>9, <2>1
<1> HIDE DEF b
<1>11. \A i \in 1 .. n : IF i <= c + 1 THEN b[i] \in S /\ b[i] < m + 1 ELSE b[i] = None
  <2> TAKE i \in 1 .. n
  <2>1. CASE i = c + 1
    BY <1>1, <1>3, <1>10, <2>1
  <2>2. CASE i <= c
    <3>1. i # c + 1 /\ i <= c + 1 /\ a[i] \in S /\ a[i] < m
      BY <1>3, <1>4, <2>2
    <3>2. a[i] \in Nat
      BY <1>1, <3>1
    <3>3. a[i] < m + 1
      BY <1>1, <3>1, <3>2
    <3> QED BY <1>10, <3>1, <3>3
  <2>3. CASE i > c + 1
    <3>1. i # c + 1 /\ ~ (i <= c + 1) /\ ~ (i <= c)
      BY <1>3, <2>3
    <3> QED BY <1>4, <1>10, <3>1
  <2> QED BY <1>3, <2>1, <2>2, <2>3
<1>12. \A x \in S : x < m + 1 => \E i \in 1 .. c + 1 : b[i] = x
  <2> SUFFICES ASSUME NEW x \in S, x < m + 1 PROVE \E i \in 1 .. c + 1 : b[i] = x
    OBVIOUS
  <2>1. CASE x = m
    BY <1>3, <1>10, <2>1
  <2>2. CASE x # m
    <3>1. x < m
      BY <1>1, <2>2
    <3>2. PICK i \in 1 .. c : a[i] = x
      BY <1>4, <3>1
    <3>3. i \in 1 .. n /\ i # c + 1 /\ i \in 1 .. c + 1
      BY <1>1, <1>3
    <3> QED BY <1>10, <3>2, <3>3
  <2> QED BY <2>1, <2>2
<1>13. \A i, j \in 1 .. c + 1 : b[i] = b[j] => i = j
  <2> SUFFICES ASSUME NEW i \in 1 .. c + 1, NEW j \in 1 .. c + 1, b[i] = b[j] PROVE i = j
    OBVIOUS
  <2>1. \A k \in 1 .. c + 1 : \/ k \in 1 .. c /\ b[k] = a[k] /\ a[k] < m /\ a[k] \in Nat
                              \/ k = c + 1 /\ b[k] = m
    <3> TAKE k \in 1 .. c + 1
    <3>1. k = c + 1 \/ (k \in 1 .. c /\ k \in 1 .. n /\ k # c + 1 /\ k <= c)
      BY <1>1, <1>3
    <3>2. CASE k = c + 1
      BY <1>10, <3>2
    <3>3. CASE k \in 1 .. c /\ k \in 1 .. n /\ k # c + 1 /\ k <= c
      <4>1. a[k] \in S /\ a[k] < m /\ b[k] = a[k]
        BY <1>4, <1>10, <3>3
      <4>2. a[k] \in Nat
        BY <1>1, <4>1
      <4> QED BY <3>3, <4>1, <4>2
    <3> QED BY <3>1, <3>2, <3>3
  <2> QED BY <1>1, <1>4, <2>1
<1>14. Cardinality({x \in S : x < m + 1}) = c + 1
  BY <1>3 DEF Lower
<1>15. Holds(b, S, n, m + 1)
  BY Zenon, <1>11, <1>12, <1>13, <1>14 DEF Holds
<1> QED BY Zenon, <1>15 DEF b

\* Elements that put themselves into an array for as many list themselves.
LEMMA PlacesListing ==
  ASSUME TreeOk, NEW S \in SUBSET Elements
  PROVE  IsListing(Places(S, Cardinality(S)), S)
<1> DEFINE n == Cardinality(S)
           N == Cardinality(Elements)
           f == Fills(S, n)
           I == {m \in Nat : m <= N => f[m] \in Arrays(n) /\ Holds(f[m], S, n, m)}
<1>1. /\ IsFiniteSet(S) /\ n \in Nat /\ N \in Nat /\ Elements = 0 .. N - 1
      /\ \A x \in S : x \in Nat /\ x < N
  BY ElementsAre, FS_Subset, FS_CardinalityType
<1>2. /\ f[0] = EmptyPlaces(n)
      /\ \A m \in Elements : f[m + 1] = IF m \in S THEN PutFirst(m, f[m]) ELSE f[m]
  <2>1. n \in Nat
    BY <1>1
  <2> HIDE DEF n
  <2>2. IsFilling(f, S, n)
    BY <2>1, FillsDefined
  <2> HIDE DEF f
  <2> QED BY <2>2 DEF IsFilling
<1> HIDE DEF f, N, n
<1>3. 0 \in I
  <2>1. f[0] \in Arrays(n) /\ \A i \in 1 .. n : f[0][i] = None
    <3>1. f[0] = [i \in 1 .. n |-> None]
      BY <1>2 DEF EmptyPlaces
    <3>2. f[0] \in [1 .. n -> Elements \cup {None}]
      BY <3>1
    <3>3. \A i \in 1 .. n : f[0][i] = None
      BY <3>1
    <3> QED BY <3>2, <3>3 DEF Arrays
  <2>2. {x \in S : x < 0} = {} /\ Cardinality({}) = 0
    <3>1. \A x \in S : ~ (x < 0)
      BY <1>1
    <3> QED BY <3>1, FS_EmptySet
  <2>3. Cardinality({x \in S : x < 0}) = 0
    BY <2>2
  <2>4. Holds(f[0], S, n, 0)
    <3> DEFINE a == f[0]
    <3>1. \A i \in 1 .. n : ~ (i <= 0) /\ a[i] = None
      BY <2>1
    <3>2. \A x \in S : ~ (x < 0)
      BY <1>1
    <3> HIDE DEF a
    <3> QED BY <2>3, <3>1, <3>2 DEF Holds, a
  <2> QED BY <2>1, <2>4
<1>4. ASSUME NEW m \in Nat, m \in I PROVE m + 1 \in I
  <2>1. SUFFICES ASSUME m + 1 <= N PROVE f[m + 1] \in Arrays(n) /\ Holds(f[m + 1], S, n, m + 1)
    OBVIOUS
  <2>2. m \in Elements /\ f[m] \in Arrays(n) /\ Holds(f[m], S, n, m)
    BY <1>1, <1>4, <2>1
  <2>3. CASE m \in S
    <3>1. f[m + 1] = PutFirst(m, f[m])
      BY <1>2, <2>2, <2>3
    <3>2. PutFirst(m, f[m]) \in Arrays(n)
      BY <1>1, <2>2, PutFirstArray
    <3>3. n = Cardinality(S)
      BY DEF n
    <3>4. Holds(PutFirst(m, f[m]), S, n, m + 1)
      BY <2>2, <2>3, <3>3, FilledOneMore
    <3> QED BY <3>1, <3>2, <3>4
  <2>4. CASE m \notin S
    <3>1. {x \in S : x < m + 1} = {x \in S : x < m} /\ \A x \in S : x < m + 1 <=> x < m
      <4>1. \A x \in S : x \in Nat /\ x # m
        BY <1>1, <2>4
      <4>2. \A x \in S : x < m + 1 <=> x < m
        BY <4>1
      <4> QED BY <4>2
    <3>2. f[m + 1] = f[m]
      BY <1>2, <2>2, <2>4
    <3>3. Holds(f[m], S, n, m + 1)
      <4> DEFINE a == f[m]
                 c == Cardinality({x \in S : x < m})
      <4>1. Holds(a, S, n, m) /\ Cardinality({x \in S : x < m + 1}) = c
        BY <2>2, <3>1
      <4>2. /\ \A i \in 1 .. n : IF i <= c THEN a[i] \in S /\ a[i] < m ELSE a[i] = None
            /\ \A x \in S : x < m => \E i \in 1 .. c : a[i] = x
            /\ \A i, j \in 1 .. c : a[i] = a[j] => i = j
        BY <4>1 DEF Holds
      <4> HIDE DEF a, c
      <4> QED BY <3>1, <4>1, <4>2 DEF Holds, a
    <3> QED BY <2>2, <3>2, <3>3
  <2> QED BY <2>3, <2>4
<1>5. \A m \in Nat : m \in I
  <2> HIDE DEF I
  <2> QED BY <1>3, <1>4, SetInduction
<1> DEFINE a == Places(S, n)
<1>6. a \in Arrays(n) /\ Holds(a, S, n, N)
  BY <1>1, <1>5, PlacesByFills DEF f, N
<1> HIDE DEF a
<1>7. {x \in S : x < N} = S
  BY <1>1
<1>8. /\ \A i \in 1 .. n : IF i <= n THEN a[i] \in S /\ a[i] < N ELSE a[i] = None
      /\ \A x \in S : x < N => \E i \in 1 .. n : a[i] = x
      /\ \A i, j \in 1 .. n : a[i] = a[j] => i = j
  BY <1>6, <1>7 DEF Holds, n
<1>9. \A i \in 1 .. n : a[i] \in S
  BY <1>8
<1>10. a = [i \in 1 .. n |-> a[i]]
  BY <1>6 DEF Arrays
<1>11. a \in Seq(S) /\ Len(a) = n
  BY <1>1, <1>9, <1>10
<1> QED BY <1>1, <1>8, <1>11 DEF IsListing, a, n
-----------------------------------------------------------------------------
(* What lies on an element, written down.                                  *)

LowersOk == \A e \in Elements : IsListing(lowers[e], Below(e))

\* Joined reads only the sequences of the members of s.
LEMMA JoinedAgree ==
  ASSUME NEW D, NEW s \in Seq(D), NEW S, NEW g, NEW h, SequencesOver(g, D, S), SequencesOver(h, D, S),
         \A x \in D : (\E i \in 1 .. Len(s) : s[i] = x) => g[x] = h[x]
  PROVE  Joined(g, s) = Joined(h, s)
<1> DEFINE n == Len(s)
           a == Joins(g, s)
           b == Joins(h, s)
           N == {i \in Nat : i <= n => a[i] = b[i]}
<1>1. IsJoin(a, g, s, S) /\ IsJoin(b, h, s, S)
  BY JoinsDefined
<1>2. n \in Nat /\ \A i \in 1 .. n : s[i] \in D
  BY LenProperties, ElementOfSeq
<1> HIDE DEF n, a, b
<1>3. a[0] = b[0] /\ \A i \in 1 .. n : a[i] = a[i - 1] \o g[s[i]] /\ b[i] = b[i - 1] \o h[s[i]]
  BY <1>1 DEF IsJoin, n
<1>4. \A i \in 1 .. n : g[s[i]] = h[s[i]]
  BY <1>2 DEF n
<1>5. 0 \in N
  BY <1>3
<1>6. ASSUME NEW i \in Nat, i \in N PROVE i + 1 \in N
  <2>1. SUFFICES ASSUME i + 1 <= n PROVE a[i + 1] = b[i + 1]
    OBVIOUS
  <2>2. i + 1 \in 1 .. n /\ (i + 1) - 1 = i /\ i <= n
    BY <1>2, <2>1
  <2>3. a[i] = b[i]
    BY <1>6, <2>2
  <2>4. a[i + 1] = a[i] \o g[s[i + 1]]
    BY <1>3, <2>2
  <2>5. b[i + 1] = b[i] \o h[s[i + 1]]
    BY <1>3, <2>2
  <2>6. g[s[i + 1]] = h[s[i + 1]]
    BY <1>4, <2>2
  <2> QED BY <2>3, <2>4, <2>5, <2>6, Zenon
<1>7. \A i \in Nat : i \in N
  <2> HIDE DEF N
  <2> QED BY <1>5, <1>6, SetInduction
<1>8. a[n] = b[n]
  BY <1>2, <1>7
<1> QED BY <1>8, JoinedByJoins DEF a, b, n

WriteStep(f) == [x \in Elements |-> <<x>> \o Joined(f, lowers[x])]
Writes == CHOOSE f : f = WriteStep(f)

LEMMA SubtreeByWrites == \A e : Subtree(e) = Writes[e]
BY DEF Subtree, Writes, WriteStep

LEMMA LowersAre ==
  ASSUME TreeOk, LowersOk, NEW x \in Elements
  PROVE  /\ IsListing(lowers[x], Below(x))
         /\ lowers[x] \in Seq(Elements) /\ Len(lowers[x]) \in Nat
         /\ DOMAIN lowers[x] = 1 .. Len(lowers[x])
         /\ \A i \in 1 .. Len(lowers[x]) : lowers[x][i] \in Below(x)
         /\ \A l \in Below(x) : l \in Elements /\ Depth(l) = Depth(x) + 1
<1>1. IsListing(lowers[x], Below(x))
  BY DEF LowersOk
<1>2. Below(x) \subseteq Elements /\ \A l \in Below(x) : l \in Elements /\ Depth(l) = Depth(x) + 1
  BY BelowIs
<1>3. lowers[x] \in Seq(Below(x))
  BY <1>1 DEF IsListing
<1>4. lowers[x] \in Seq(Elements)
  BY <1>2, <1>3, SeqMonotonic
<1> QED BY <1>1, <1>2, <1>4, ListingParts

LEMMA WritesDefined ==
  ASSUME TreeOk, LowersOk
  PROVE  \A x \in Elements : /\ Writes[x] = <<x>> \o Joined(Writes, lowers[x])
                             /\ SequencesOver(Writes, Below(x), Elements)
<1> DEFINE E == Elements
           Part == Seq(E)
           F == [E -> Part]
           step == [p \in F \X E |-> <<p[2]>> \o Joined(p[1], lowers[p[2]])]
           size == [x \in E |-> 6 - Depth(x)]
<1>1. \A f \in F : SequencesOver(f, E, E)
  BY DEF SequencesOver
<1>2. ASSUME NEW f \in F, NEW x \in E
      PROVE  step[<<f, x>>] = <<x>> \o Joined(f, lowers[x]) /\ step[<<f, x>>] \in Part
  <2>1. step[<<f, x>>] = <<x>> \o Joined(f, lowers[x])
    <3>1. <<f, x>> \in F \X E /\ <<f, x>>[1] = f /\ <<f, x>>[2] = x
      OBVIOUS
    <3> QED BY <3>1
  <2>2. lowers[x] \in Seq(E) /\ SequencesOver(f, E, E)
    BY <1>1, LowersAre
  <2>3. Joined(f, lowers[x]) \in Seq(E)
    <3> HIDE DEF E
    <3> QED BY <2>2, JoinedParts
  <2>4. <<x>> \in Seq(E)
    OBVIOUS
  <2> QED BY <2>1, <2>3, <2>4, ConcatProperties
<1>3. LooksDown(E, Part, size, 7, step)
  <2>1. ASSUME NEW g \in F, NEW h \in F, NEW x \in E, \A y \in E : size[y] < size[x] => g[y] = h[y]
        PROVE  step[<<g, x>>] = step[<<h, x>>]
    <3>1. lowers[x] \in Seq(E) /\ SequencesOver(g, E, E) /\ SequencesOver(h, E, E)
      BY <1>1, LowersAre
    <3>2. \A y \in E : (\E i \in 1 .. Len(lowers[x]) : lowers[x][i] = y) => g[y] = h[y]
      <4> SUFFICES ASSUME NEW y \in E, \E i \in 1 .. Len(lowers[x]) : lowers[x][i] = y PROVE g[y] = h[y]
        OBVIOUS
      <4>1. Depth(y) = Depth(x) + 1 /\ Depth(y) \in 0 .. 6 /\ Depth(x) \in 0 .. 6
        BY SMTT(30), LowersAre, Depths
      <4>2. size[y] < size[x]
        BY <4>1
      <4> QED BY <2>1, <4>2
    <3>3. Joined(g, lowers[x]) = Joined(h, lowers[x])
      <4> DEFINE s == lowers[x]
      <4>1. /\ s \in Seq(E) /\ SequencesOver(g, E, E) /\ SequencesOver(h, E, E)
            /\ \A y \in E : (\E i \in 1 .. Len(s) : s[i] = y) => g[y] = h[y]
        BY <3>1, <3>2
      <4> HIDE DEF E, F, s
      <4>2. Joined(g, s) = Joined(h, s)
        BY <4>1, JoinedAgree
      <4> QED BY <4>2 DEF s
    <3> HIDE DEF step
    <3> QED BY <1>2, <3>3
  <2>2. F # {}
    <3>1. [x \in E |-> <<>>] \in F
      BY EmptySeq
    <3> QED BY <3>1
  <2>3. size \in [E -> Nat] /\ \A x \in E : size[x] < 7
    <3>1. \A x \in E : 6 - Depth(x) \in Nat /\ 6 - Depth(x) < 7
      BY Depths
    <3> QED BY <3>1
  <2>4. \A g, h \in F, x \in E :
          (\A y \in E : size[y] < size[x] => g[y] = h[y]) => step[<<g, x>>] = step[<<h, x>>]
    <3> HIDE DEF F, E, size, step
    <3> QED BY <2>1
  <2> HIDE DEF step, size, E, Part
  <2> QED BY <1>2, <2>2, <2>3, <2>4 DEF LooksDown
<1> HIDE DEF step, size
<1>4. PICK f \in F : \A x \in E : f[x] = step[<<f, x>>]
  <2> HIDE DEF E, Part
  <2> QED BY <1>3, MeasuredRecursion
<1>5. f = WriteStep(f)
  <2>1. \A x \in E : f[x] = <<x>> \o Joined(f, lowers[x])
    BY <1>2, <1>4
  <2>2. f = [x \in E |-> f[x]]
    BY <1>4
  <2> QED BY <2>1, <2>2 DEF WriteStep
<1> DEFINE g == Writes
<1>6. g = WriteStep(g)
  BY <1>5 DEF Writes
<1> HIDE DEF g
<1>7. \A x \in E : g[x] = <<x>> \o Joined(g, lowers[x])
  BY <1>6 DEF WriteStep
<1> DEFINE S == {x \in E : g[x] \in Part}
<1>8. ASSUME NEW x \in E, Below(x) \subseteq S PROVE x \in S
  <2>1. SequencesOver(g, Below(x), E)
    BY <1>8 DEF SequencesOver
  <2>2. lowers[x] \in Seq(Below(x))
    BY LowersAre DEF IsListing
  <2>3. Joined(g, lowers[x]) \in Seq(E)
    <3> HIDE DEF E
    <3> QED BY <2>1, <2>2, JoinedParts
  <2>4. <<x>> \in Seq(E)
    OBVIOUS
  <2>5. <<x>> \o Joined(g, lowers[x]) \in Seq(E)
    <3> HIDE DEF E
    <3> QED BY <2>3, <2>4, ConcatProperties
  <2>6. g[x] \in Part
    BY <1>7, <2>5
  <2> QED BY <2>6
<1>9. \A x \in E : x \in S
  <2> HIDE DEF S
  <2> QED BY <1>8, UpTheTree
<1>10. \A x \in E : SequencesOver(g, Below(x), E)
  BY <1>9, LowersAre DEF SequencesOver
<1> QED BY <1>7, <1>10 DEF g

\* auxWrite lists what is on and below an element, each element once.
LEMMA SubtreeListing ==
  ASSUME TreeOk, LowersOk
  PROVE  \A e \in Elements : IsListing(Subtree(e), On(e))
<1> DEFINE S == {x \in Elements : IsListing(Writes[x], On(x))}
<1>1. ASSUME NEW x \in Elements, Below(x) \subseteq S PROVE x \in S
  <2> DEFINE Part == [l \in Elements |-> On(l)]
             J == Joined(Writes, lowers[x])
  <2>1. Below(x) \subseteq Elements /\ IsListing(lowers[x], Below(x))
    BY LowersAre
  <2>2. \A l \in Below(x) : IsListing(Writes[l], Part[l])
    BY <1>1, <2>1
  <2>3. \A l, m \in Below(x) : l # m => Part[l] \cap Part[m] = {}
    BY <2>1, OnSplits
  <2>4. IsListing(J, UNION {Part[l] : l \in Below(x)})
    <3> HIDE DEF Part
    <3> QED BY <2>1, <2>2, <2>3, JoinedListing
  <2>5. UNION {Part[l] : l \in Below(x)} = UNION {On(l) : l \in Below(x)}
    BY <2>1
  <2> DEFINE U == UNION {On(l) : l \in Below(x)}
  <2>6. IsListing(J, U)
    BY <2>4, <2>5
  <2>7. IsListing(<<x>>, {x}) /\ {x} \cap U = {} /\ On(x) = {x} \cup U
    BY ListingOne, OnSplits
  <2> HIDE DEF U, J
  <2>8. IsListing(<<x>> \o J, {x} \cup U)
    BY <2>6, <2>7, ListingConcat
  <2>9. Writes[x] = <<x>> \o J
    BY WritesDefined DEF J
  <2> QED BY <2>7, <2>8, <2>9
<1>2. \A x \in Elements : x \in S
  <2> HIDE DEF S
  <2> QED BY <1>1, UpTheTree
<1> QED BY <1>2, SubtreeByWrites

SizeStep(f) ==
  [x \in Elements |-> 1 + SumFunction([i \in DOMAIN lowers[x] |-> f[lowers[x][i]]])]
Sizes == CHOOSE f : f = SizeStep(f)

LEMMA SizesAre == \A e : SubtreeSize(e) = Sizes[e]
BY DEF SubtreeSize, Sizes, SizeStep

\* auxCreateLP counts as many elements as auxWrite lists.
LEMMA SubtreeCounted ==
  ASSUME TreeOk, LowersOk
  PROVE  \A e \in Elements : SubtreeSize(e) = Len(Subtree(e)) /\ Len(Subtree(e)) \in Nat
<1> DEFINE E == Elements
           Long(x) == Len(Writes[x])
           Total(f, x) == SumFunction([i \in DOMAIN lowers[x] |-> f[lowers[x][i]]])
<1>1. \A x \in E : Writes[x] \in Seq(E) /\ Long(x) \in Nat
  <2> SUFFICES ASSUME NEW x \in E PROVE Writes[x] \in Seq(E)
    BY LenProperties
  <2>1. IsListing(Writes[x], On(x)) /\ On(x) \subseteq E
    BY SubtreeListing, SubtreeByWrites DEF On
  <2> QED BY <2>1, SeqMonotonic DEF IsListing
<1>2. ASSUME NEW x \in E, NEW f, \A l \in Below(x) : f[l] = Long(l)
      PROVE  1 + Total(f, x) = Long(x)
  <2> DEFINE s == lowers[x]
             L == Lengths(Writes, s)
             h == [i \in DOMAIN s |-> f[s[i]]]
  <2>1. /\ s \in Seq(E) /\ Len(s) \in Nat /\ DOMAIN s = 1 .. Len(s)
        /\ \A i \in 1 .. Len(s) : s[i] \in Below(x)
    BY LowersAre
  <2>2. SequencesOver(Writes, E, E)
    BY <1>1 DEF SequencesOver
  <2>3. Joined(Writes, s) \in Seq(E) /\ Len(Joined(Writes, s)) = SumFunctionOnSet(L, 1 .. Len(s))
    <3> HIDE DEF E, s
    <3> QED BY <2>1, <2>2, JoinedParts DEF L
  <2>4. \A i \in 1 .. Len(s) : h[i] = L[i]
    BY <1>2, <2>1 DEF Lengths
  <2>5. h = L
    BY <2>1, <2>4 DEF Lengths
  <2>6. Total(f, x) = SumFunctionOnSet(L, 1 .. Len(s))
    <3>1. Total(f, x) = SumFunction(h)
      OBVIOUS
    <3>2. SumFunction(h) = SumFunctionOnSet(h, DOMAIN h)
      BY DEF SumFunction, SumFunctionOnSet, FoldFunction
    <3>3. DOMAIN h = 1 .. Len(s)
      BY <2>1
    <3> QED BY <2>5, <3>1, <3>2, <3>3, Zenon
  <2>7. Writes[x] = <<x>> \o Joined(Writes, s)
    BY WritesDefined
  <2>8. Long(x) = 1 + Len(Joined(Writes, s))
    <3> DEFINE j == Joined(Writes, s)
    <3>1. j \in Seq(E) /\ <<x>> \in Seq(E) /\ Len(<<x>>) = 1
      BY <2>3
    <3> HIDE DEF j, s
    <3>2. Len(<<x>> \o j) = Len(<<x>>) + Len(j)
      BY <3>1, ConcatProperties
    <3> QED BY <2>7, <3>1, <3>2 DEF j
  <2> QED BY <2>3, <2>6, <2>8
<1> DEFINE f == [x \in E |-> Long(x)]
<1>3. f = SizeStep(f)
  <2>1. \A x \in E : f[x] = 1 + Total(f, x)
    <3> SUFFICES ASSUME NEW x \in E PROVE f[x] = 1 + Total(f, x)
      OBVIOUS
    <3>1. \A l \in Below(x) : f[l] = Long(l)
      BY LowersAre
    <3> HIDE DEF f, Total
    <3>2. 1 + Total(f, x) = Long(x)
      BY <1>2, <3>1
    <3> QED BY <3>2 DEF f
  <2> QED BY <2>1 DEF SizeStep
<1> DEFINE g == Sizes
<1>4. g = SizeStep(g)
  <2> HIDE DEF f
  <2> QED BY <1>3 DEF Sizes
<1> HIDE DEF g
<1>5. \A x \in E : g[x] = 1 + Total(g, x)
  BY <1>4 DEF SizeStep
<1> DEFINE S == {x \in E : g[x] = Long(x)}
<1>6. ASSUME NEW x \in E, Below(x) \subseteq S PROVE x \in S
  <2>1. \A l \in Below(x) : g[l] = Long(l)
    BY <1>6
  <2> HIDE DEF Total, Long
  <2>2. 1 + Total(g, x) = Long(x)
    BY <1>2, <2>1
  <2> QED BY <1>5, <2>2
<1>7. \A x \in E : x \in S
  <2> HIDE DEF S
  <2> QED BY <1>6, UpTheTree
<1> QED BY <1>1, <1>7, SizesAre, SubtreeByWrites DEF g

-----------------------------------------------------------------------------
(* The way from an element above an actuator down to it.                   *)

ClimbStep(n, f) ==
  [last \in Elements |->
     IF tree.upper[last] = None THEN None
     ELSE IF tree.upper[last] = n THEN last
     ELSE f[tree.upper[last]]]
Climbs(n) == CHOOSE f : f = ClimbStep(n, f)

LEMMA NextHopByClimbs == \A n, a : NextHop(n, a) = Climbs(n)[a]
BY DEF NextHop, Climbs, ClimbStep

\* The next hop to what is below is the element directly below on the way; to
\* the rest there is none.
LEMMA NextHopIs ==
  ASSUME TreeOk, NEW n \in Elements, NEW a \in Elements
  PROVE  /\ n \in Above(a) => NextHop(n, a) \in Below(n) /\ a \in On(NextHop(n, a))
         /\ n \notin Above(a) => NextHop(n, a) = None
<1> DEFINE E == Elements
           u == tree.upper
           Hop(x) == CHOOSE y \in Below(n) : x \in On(y)
           f == [x \in E |-> IF n \in Above(x) THEN Hop(x) ELSE None]
<1>1. \A x \in E : n \in Above(x) => Hop(x) \in Below(n) /\ x \in On(Hop(x))
  <2> SUFFICES ASSUME NEW x \in E, n \in Above(x) PROVE \E y \in Below(n) : x \in On(y)
    OBVIOUS
  <2>1. x \in On(n) /\ x # n
    BY WayUp DEF On
  <2> QED BY <2>1, OnSplits
<1>2. \A x \in E, y \in Below(n) : x \in On(y) => n \in Above(x)
  <2> SUFFICES ASSUME NEW x \in E, NEW y \in Below(n), x \in On(y) PROVE n \in Above(x)
    OBVIOUS
  <2>1. n \in Above(y) /\ y \in Elements
    BY BelowIs
  <2>2. x = y \/ y \in Above(x)
    BY DEF On
  <2>3. y \in Above(x) => Above(y) \subseteq Above(x)
    BY WayUp
  <2> QED BY <2>1, <2>2, <2>3
<1>3. \A x \in E, y, z \in Below(n) : x \in On(y) /\ x \in On(z) => y = z
  BY OnSplits
<1>4. /\ u[0] = None /\ Above(0) = {} /\ 0 \in E
      /\ \A x \in E \ {0} : u[x] # None /\ u[x] \in E /\ Above(x) = {u[x]} \cup Above(u[x])
  BY TreeShape, ElementsAre, AboveUnfolds, Depths
<1>5. \A x \in E : f[x] = IF u[x] = None THEN None ELSE IF u[x] = n THEN x ELSE f[u[x]]
  <2> TAKE x \in E
  <2>1. CASE x = 0
    BY <1>4, <2>1
  <2>2. CASE x # 0 /\ u[x] = n
    <3>1. n \in Above(x) /\ x \in Below(n) /\ x \in On(x)
      BY <1>4, <2>2 DEF Below, On
    <3>2. Hop(x) = x
      <4> HIDE DEF Hop
      <4> QED BY <1>1, <1>3, <3>1
    <3> QED BY <1>4, <2>2, <3>1, <3>2
  <2>3. CASE x # 0 /\ u[x] # n
    <3>1. n \in Above(x) <=> n \in Above(u[x])
      BY <1>4, <2>3
    <3>2. n \in Above(x) => Hop(x) = Hop(u[x])
      <4> SUFFICES ASSUME n \in Above(x) PROVE Hop(x) = Hop(u[x])
        OBVIOUS
      <4>1. Hop(u[x]) \in Below(n) /\ u[x] \in On(Hop(u[x])) /\ u[x] \in E
        BY <1>1, <1>4, <2>3, <3>1
      <4> HIDE DEF Hop
      <4>2. x \in On(Hop(u[x]))
        BY <1>4, <2>3, <4>1 DEF On
      <4>3. Hop(x) \in Below(n) /\ x \in On(Hop(x))
        <5>1. n \in Above(x)
          OBVIOUS
        <5> QED BY <1>1, <5>1
      <4> QED BY <1>3, <4>1, <4>2, <4>3
    <3> HIDE DEF Hop
    <3> QED BY <1>4, <2>3, <3>1, <3>2
  <2> QED BY <2>1, <2>2, <2>3
<1> HIDE DEF f
<1>6. f = ClimbStep(n, f)
  <2>1. f = [x \in E |-> f[x]]
    BY DEF f
  <2> QED BY <1>5, <2>1 DEF ClimbStep
<1> DEFINE g == Climbs(n)
<1>7. g = ClimbStep(n, g)
  BY <1>6 DEF Climbs
<1> HIDE DEF g
<1>8. \A x \in E : g[x] = IF u[x] = None THEN None ELSE IF u[x] = n THEN x ELSE g[u[x]]
  BY <1>7 DEF ClimbStep
<1> DEFINE S == {x \in E : g[x] = f[x]}
<1>9. 0 \in S
  BY <1>4, <1>5, <1>8
<1>10. \A x \in E \ {0} : u[x] \in S => x \in S
  BY <1>4, <1>5, <1>8
<1>11. \A x \in E : x \in S
  <2> HIDE DEF S
  <2> QED BY <1>9, <1>10, DownTheTree
<1>12. NextHop(n, a) = IF n \in Above(a) THEN Hop(a) ELSE None
  BY <1>11, NextHopByClimbs DEF f, g
<1> HIDE DEF Hop
<1> QED BY <1>1, <1>12

-----------------------------------------------------------------------------
(* The maps that the passes create.                                        *)

\* A map by which each element finds its content, if that is valid.
LEMMA IdentityMap ==
  ASSUME TreeOk, NEW contents \in [Elements -> Int]
  PROVE  \A x \in Elements :
           IdmapSearch(CreateIdmap(Identity, contents), x) =
             IF contents[x] >= 0 THEN contents[x] ELSE IDMAP_CONTENT_NOT_FOUND
<1> DEFINE E == Elements
           ids == Identity
           map == CreateIdmap(ids, contents)
<1>1. E \in SUBSET Int /\ IsFiniteSet(E) /\ ids \in [E -> Int] /\ \A x \in E : ids[x] = x /\ ids[x] >= 0 /\ x \in Int
  BY ElementsAre DEF Identity
<1>2. Valid(ids) = E /\ Valid(contents) = {x \in E : contents[x] >= 0}
  BY <1>1 DEF Valid
<1>3. Kept(ids, contents) = {x \in E : contents[x] >= 0}
  BY <1>2 DEF Kept
<1> HIDE DEF ids, E
<1>4. AsIntended(ids, contents)
  <2>1. Valid(contents) \subseteq Valid(ids)
    BY <1>2
  <2>2. \A i, j \in Kept(ids, contents) : ids[i] = ids[j] => i = j
    BY <1>1, <1>3
  <2> QED BY <2>1, <2>2 DEF AsIntended
<1>5. /\ \A i \in Kept(ids, contents) : IdmapSearch(map, ids[i]) = contents[i]
      /\ \A x \in Int : (\A i \in Kept(ids, contents) : ids[i] # x) =>
                          IdmapSearch(map, x) = IDMAP_CONTENT_NOT_FOUND
  <2>1. contents \in [E -> Int]
    BY DEF E
  <2> QED BY <1>1, <1>4, <2>1, IdmapFindsWhatWasPutIn
<1> HIDE DEF map
<1>6. \A x \in E : IdmapSearch(map, x) = IF contents[x] >= 0 THEN contents[x] ELSE IDMAP_CONTENT_NOT_FOUND
  <2> TAKE x \in E
  <2>1. CASE contents[x] >= 0
    BY <1>1, <1>3, <1>5, <2>1
  <2>2. CASE ~ (contents[x] >= 0)
    <3>1. \A i \in Kept(ids, contents) : ids[i] # x
      BY <1>1, <1>3, <2>2
    <3> QED BY <1>1, <1>5, <2>2, <3>1
  <2> QED BY <2>1, <2>2
<1> QED BY <1>6 DEF E, ids, map

\* What reachableSetElement collects: the elements below and the one above.
Beside(e) == Below(e) \cup ({tree.upper[e]} \ {None})

LEMMA ReachableListing ==
  ASSUME TreeOk, LowersOk, NEW e \in Elements
  PROVE  IsListing(Reachable(e), Beside(e)) /\ Beside(e) \subseteq Elements
<1>1. IsListing(lowers[e], Below(e)) /\ Below(e) \subseteq Elements
  BY LowersAre
<1>2. CASE e = 0
  <2>1. tree.upper[e] = None
    BY <1>2, TreeShape
  <2>2. Reachable(e) = lowers[e] /\ Beside(e) = Below(e)
    BY <2>1 DEF Reachable, Beside
  <2> QED BY <1>1, <2>2
<1>3. CASE e # 0
  <2> DEFINE u == tree.upper[e]
  <2>1. u \in Elements /\ u # None /\ Depth(e) = Depth(u) + 1 /\ Depth(e) \in Nat /\ Depth(u) \in Nat
    BY <1>3, Depths, ElementsAre
  <2>2. u \notin Below(e)
    BY <2>1, LowersAre
  <2>3. Reachable(e) = <<u>> \o lowers[e] /\ Beside(e) = {u} \cup Below(e)
    BY <2>1 DEF Reachable, Beside
  <2> HIDE DEF u
  <2>4. IsListing(<<u>>, {u}) /\ {u} \cap Below(e) = {}
    BY <2>2, ListingOne
  <2>5. IsListing(<<u>> \o lowers[e], {u} \cup Below(e))
    BY <1>1, <2>4, ListingConcat
  <2> QED BY <1>1, <2>1, <2>3, <2>5
<1> QED BY <1>2, <1>3

\* In its own map an element finds what lp has for each of its neighbours.
LEMMA NeighbourMapAnswers ==
  ASSUME TreeOk, LowersOk, NEW e \in Elements,
         \A f \in Elements : IdmapSearch(element_to_lp, f) \in Nat
  PROVE  \A f \in Beside(e) : IdmapSearch(NeighbourMap(e), f) = IdmapSearch(element_to_lp, f)
<1> DEFINE s == Reachable(e)
           m == Len(s)
           D == 0 .. m - 1
           ids == FromZero(s)
           contents == [i \in D |-> IdmapSearch(element_to_lp, ids[i])]
           map == CreateIdmap(ids, contents)
<1>1. IsListing(s, Beside(e)) /\ Beside(e) \subseteq Elements
  BY ReachableListing
<1> HIDE DEF s
<1>2. /\ m \in Nat
      /\ \A i \in 1 .. m : s[i] \in Beside(e)
      /\ \A x \in Beside(e) : \E i \in 1 .. m : s[i] = x
      /\ \A i, j \in 1 .. m : s[i] = s[j] => i = j
  BY <1>1, ListingParts
<1> HIDE DEF m
<1>3. ids = [i \in D |-> s[i + 1]] /\ \A i \in D : i + 1 \in 1 .. m
  BY <1>2 DEF FromZero, m
<1>4. /\ \A i \in D : ids[i] \in Beside(e)
      /\ \A x \in Beside(e) : \E i \in D : ids[i] = x
      /\ \A i, j \in D : ids[i] = ids[j] => i = j
  <2>1. \A i \in D : ids[i] = s[i + 1] /\ i + 1 \in 1 .. m
    BY <1>3
  <2>2. \A i \in D : ids[i] \in Beside(e)
    BY <1>2, <2>1
  <2>3. \A i, j \in D : ids[i] = ids[j] => i = j
    <3> SUFFICES ASSUME NEW i \in D, NEW j \in D, ids[i] = ids[j] PROVE i = j
      OBVIOUS
    <3>1. i + 1 = j + 1
      BY <1>2, <2>1
    <3> QED BY <1>2, <3>1
  <2>4. \A x \in Beside(e) : \E i \in D : ids[i] = x
    <3> TAKE x \in Beside(e)
    <3>1. PICK i \in 1 .. m : s[i] = x
      BY <1>2
    <3>2. i - 1 \in D /\ (i - 1) + 1 = i
      BY <1>2
    <3> QED BY <2>1, <3>1, <3>2
  <2> QED BY <2>2, <2>3, <2>4
<1>5. D \in SUBSET Int /\ IsFiniteSet(D) /\ DOMAIN ids = D
  BY <1>2, <1>3, FS_Interval
<1>6. \A x \in Beside(e) : x \in Elements /\ x \in Int /\ x >= 0 /\ IdmapSearch(element_to_lp, x) \in Nat
  BY <1>1, ElementsAre
<1> HIDE DEF ids, D
<1>7. /\ ids \in [D -> Int]
      /\ contents \in [D -> Int]
      /\ \A i \in D : ids[i] >= 0 /\ contents[i] >= 0 /\ contents[i] = IdmapSearch(element_to_lp, ids[i])
  <2>1. \A i \in D : ids[i] \in Int /\ ids[i] >= 0 /\ IdmapSearch(element_to_lp, ids[i]) \in Nat
    BY <1>4, <1>6
  <2>2. ids \in [D -> Int]
    <3>1. ids = [i \in D |-> ids[i]]
      BY <1>3 DEF D, ids
    <3> QED BY <2>1, <3>1
  <2> QED BY <2>1, <2>2
<1> HIDE DEF contents
<1>8. Valid(ids) = D /\ Valid(contents) = D /\ Kept(ids, contents) = D
  BY <1>7 DEF Valid, Kept
<1>9. AsIntended(ids, contents)
  BY <1>4, <1>8 DEF AsIntended
<1>10. \A i \in Kept(ids, contents) : IdmapSearch(map, ids[i]) = contents[i]
  <2> HIDE DEF map
  <2> QED BY <1>5, <1>7, <1>9, IdmapFindsWhatWasPutIn DEF map
<1>11. NeighbourMap(e) = map
  BY <1>5 DEF NeighbourMap, ids, s, contents
<1> HIDE DEF map
<1> QED BY <1>4, <1>7, <1>8, <1>10, <1>11

-----------------------------------------------------------------------------
(* What holds once a pass is over.                                         *)

\* The devices of type t below n.
OfType(k, n, t) == {d \in Kind(k) : tree.device_type[d] = t /\ n \in Above(d)}

TypesOk ==
  \A k \in {SENSOR, ACTUATOR}, n \in Elements : \A t \in Types(k) :
    types_below[k][n][t] = Cardinality(OfType(k, n, t))

ListsOk ==
  \A k \in {SENSOR, ACTUATOR}, n \in Elements \ Devices : \A t \in Types(k) :
    IsListing(ListByType(k, n, t), OfType(k, n, t))

PathsOk ==
  \A n \in Elements, a \in Kind(ACTUATOR) :
    LET hop == IdmapSearch(actuatorPaths[n], a)
    IN  IF n \in Above(a) THEN hop \in Below(n) /\ a \in On(hop)
        ELSE hop = IDMAP_CONTENT_NOT_FOUND

WansOk ==
  \A n \in Nodes(CENTRAL) \cup Nodes(REGIONAL) : wan_down[n] \in Kind(WAN) /\ tree.upper[wan_down[n]] = n

\* n lines with correct counts list each of E in one place.
Partition(lines, n, E) ==
  /\ lines \in Seq([amount : Nat, elements : Seq(E)]) /\ Len(lines) = n
  /\ \A l \in 1 .. n : lines[l].amount = Len(lines[l].elements)
  /\ \A e \in E : \E l \in 1 .. n : \E i \in 1 .. Len(lines[l].elements) :
       /\ lines[l].elements[i] = e
       /\ \A k \in 1 .. n : \A j \in 1 .. Len(lines[k].elements) :
            lines[k].elements[j] = e => k = l /\ j = i

LinesOk == Partition(lp_lines, numLP, Elements)

LpsOk ==
  \A e \in Elements :
    LET lp == IdmapSearch(element_to_lp, e)
    IN  /\ lp \in 0 .. numLP - 1
        /\ \E i \in DOMAIN lp_lines[lp + 1].elements : lp_lines[lp + 1].elements[i] = e

NeighboursOk ==
  \A e \in Elements : \A f \in Beside(e) :
    LET lp == IdmapSearch(neighbour_lp[e], f)
    IN  /\ lp \in 0 .. numLP - 1
        /\ \E i \in DOMAIN lp_lines[lp + 1].elements : lp_lines[lp + 1].elements[i] = f

InOrder ==
  /\ "lists" \in done => "types" \in done
  /\ "paths" \in done => "lists" \in done
  /\ "lowers" \in done => "paths" \in done
  /\ "lp file" \in done => "lowers" \in done
  /\ "lps" \in done => "lp file" \in done
  /\ "neighbours" \in done => "lps" \in done

TopoInv ==
  /\ TreeOk /\ criteria \in Criteria /\ InOrder
  /\ "types" \in done => TypesOk
  /\ "lists" \in done => ListsOk
  /\ "paths" \in done => PathsOk
  /\ "lowers" \in done => LowersOk /\ WansOk
  /\ "lp file" \in done => LinesOk
  /\ "lps" \in done => LpsOk
  /\ "neighbours" \in done => NeighboursOk

-----------------------------------------------------------------------------
(* A step of another pass.                                                 *)

LEMMA SameTree ==
  ASSUME UNCHANGED tree
  PROVE  /\ TreeOk' = TreeOk /\ Elements' = Elements /\ Devices' = Devices
         /\ \A k : Kind(k)' = Kind(k) /\ Types(k)' = Types(k)
         /\ \A t : Nodes(t)' = Nodes(t)
         /\ \A x : Above(x)' = Above(x) /\ On(x)' = On(x) /\ Below(x)' = Below(x) /\ Beside(x)' = Beside(x)
         /\ \A k, n, t : OfType(k, n, t)' = OfType(k, n, t)
<1>1. tree' = tree
  OBVIOUS
<1>2. TreeOk' = TreeOk
  BY <1>1 DEF TreeOk
<1>3. Elements' = Elements
  BY <1>1 DEF Elements
<1>4. \A k : Kind(k)' = Kind(k) /\ Types(k)' = Types(k)
  BY <1>1, <1>3 DEF Kind, Types
<1>5. Devices' = Devices /\ \A t : Nodes(t)' = Nodes(t)
  BY <1>1, <1>4 DEF Devices, Nodes
<1>6. \A x : Above(x)' = Above(x)
  BY <1>1 DEF Above
<1>7. \A x : On(x)' = On(x) /\ Below(x)' = Below(x)
  BY <1>1, <1>3, <1>6 DEF On, Below
<1>8. \A x : Beside(x)' = Beside(x)
  BY <1>1, <1>7 DEF Beside
<1>9. \A k, n, t : OfType(k, n, t)' = OfType(k, n, t)
  BY <1>1, <1>4, <1>6 DEF OfType
<1> QED BY <1>2, <1>3, <1>4, <1>5, <1>6, <1>7, <1>8, <1>9

LEMMA TypesKept == ASSUME TypesOk, UNCHANGED <<tree, types_below>> PROVE TypesOk'
BY SameTree DEF TypesOk

LEMMA ListsKept == ASSUME ListsOk, UNCHANGED <<tree, types_below, lists>> PROVE ListsOk'
<1>1. \A k, n, t : ListByType(k, n, t)' = ListByType(k, n, t)
  <2> TAKE k, n, t
  <2>1. Types(k)' = Types(k) /\ types_below' = types_below /\ lists' = lists
    BY SameTree
  <2> QED BY <2>1 DEF ListByType
<1> QED BY <1>1, SameTree DEF ListsOk

LEMMA PathsKept == ASSUME PathsOk, UNCHANGED <<tree, actuatorPaths>> PROVE PathsOk'
BY SameTree DEF PathsOk

LEMMA LowersKept == ASSUME LowersOk, UNCHANGED <<tree, lowers>> PROVE LowersOk'
BY SameTree DEF LowersOk

LEMMA WansKept == ASSUME WansOk, UNCHANGED <<tree, wan_down>> PROVE WansOk'
BY SameTree DEF WansOk

LEMMA LinesKept == ASSUME LinesOk, UNCHANGED <<tree, lp_lines, numLP>> PROVE LinesOk'
BY SameTree DEF LinesOk

LEMMA LpsKept == ASSUME LpsOk, UNCHANGED <<tree, element_to_lp, lp_lines, numLP>> PROVE LpsOk'
BY SameTree DEF LpsOk

LEMMA NeighboursKept ==
  ASSUME NeighboursOk, UNCHANGED <<tree, neighbour_lp, lp_lines, numLP>> PROVE NeighboursOk'
BY SameTree DEF NeighboursOk

LEMMA ToposInitially == Init => TopoInv
BY DEF Init, TopoInv, InOrder, TreeOk

LEMMA ToposStutter == TopoInv /\ UNCHANGED vars => TopoInv'
<1> SUFFICES ASSUME TopoInv, UNCHANGED vars PROVE TopoInv'
  OBVIOUS
<1>1. UNCHANGED <<tree, criteria, done, types_below, lists, actuatorPaths, lowers,
                  wan_down, lp_lines, numLP, element_to_lp, neighbour_lp>>
  BY DEF vars
<1>2. TreeOk' /\ criteria' \in Criteria /\ InOrder'
  BY <1>1, SameTree DEF TopoInv, InOrder
<1> QED BY <1>1, <1>2, TypesKept, ListsKept, PathsKept, LowersKept, WansKept, LinesKept, LpsKept, NeighboursKept
        DEF TopoInv

-----------------------------------------------------------------------------
(* The passes.                                                             *)

LEMMA CountTypesStep == TopoInv /\ CountTypes => TopoInv'
<1> SUFFICES ASSUME TopoInv, CountTypes PROVE TopoInv'
  OBVIOUS
<1>1. /\ UNCHANGED <<tree, criteria, lists, actuatorPaths, lowers, wan_down,
                     lp_lines, numLP, element_to_lp, neighbour_lp>>
      /\ done' = done \cup {"types"} /\ "lists" \notin done
  BY DEF CountTypes, Pass, TopoInv, InOrder
<1>2. TypesOk'
  <2>1. types_below' =
          [k \in {SENSOR, ACTUATOR} |-> [n \in Elements |-> [t \in Types(k) |->
             Cardinality({d \in Kind(k) : tree.device_type[d] = t /\ CountsAt(d, n)})]]]
    BY DEF CountTypes
  <2>2. ASSUME NEW k \in {SENSOR, ACTUATOR}, NEW n \in Elements, NEW t \in Types(k)
        PROVE  types_below'[k][n][t] = Cardinality(OfType(k, n, t))
    <3>1. types_below'[k][n][t] = Cardinality({d \in Kind(k) : tree.device_type[d] = t /\ CountsAt(d, n)})
      BY <2>1
    <3> QED BY <3>1 DEF OfType, CountsAt
  <2> QED BY <1>1, <2>2, SameTree DEF TypesOk
<1>3. TreeOk' /\ criteria' \in Criteria /\ InOrder'
  BY <1>1, SameTree DEF TopoInv, InOrder
<1>4. "lists" \notin done'
  BY <1>1
<1> QED BY <1>1, <1>2, <1>3, <1>4, PathsKept, LowersKept, WansKept, LinesKept, LpsKept, NeighboursKept
        DEF TopoInv

LEMMA SearchActuatorPathsStep == TopoInv /\ SearchActuatorPaths => TopoInv'
<1> SUFFICES ASSUME TopoInv, SearchActuatorPaths PROVE TopoInv'
  OBVIOUS
<1>1. /\ UNCHANGED <<tree, criteria, types_below, lists, lowers, wan_down,
                     lp_lines, numLP, element_to_lp, neighbour_lp>>
      /\ done' = done \cup {"paths"} /\ "lists" \in done
  BY DEF SearchActuatorPaths, Pass
<1>2. PathsOk'
  <2>1. ASSUME NEW n \in Elements, NEW a \in Kind(ACTUATOR)
        PROVE  LET hop == IdmapSearch(actuatorPaths'[n], a)
               IN  IF n \in Above(a) THEN hop \in Below(n) /\ a \in On(hop)
                   ELSE hop = IDMAP_CONTENT_NOT_FOUND
    <3> DEFINE contents == [e \in Elements |-> IF e \in Kind(ACTUATOR) THEN NextHop(n, e) ELSE None]
    <3>1. actuatorPaths'[n] = CreateIdmap(Identity, contents)
      BY DEF SearchActuatorPaths
    <3>2. TreeOk
      BY DEF TopoInv
    <3>3. \A e \in Elements : NextHop(n, e) = None \/ NextHop(n, e) \in Elements
      BY <3>2, NextHopIs DEF Below
    <3>4. Elements \subseteq Nat /\ a \in Elements
      BY <3>2, ElementsAre DEF Kind
    <3>5. \A e \in Elements : NextHop(n, e) \in Int /\ None \in Int
      <4>1. None \in Int /\ Elements \subseteq Int
        BY <3>4 DEF None
      <4> QED BY <3>3, <4>1
    <3>6. contents \in [Elements -> Int]
      BY <3>5
    <3>7. contents[a] = NextHop(n, a)
      BY <3>4
    <3> HIDE DEF contents
    <3>8. IdmapSearch(actuatorPaths'[n], a) =
            IF contents[a] >= 0 THEN contents[a] ELSE IDMAP_CONTENT_NOT_FOUND
      BY <3>1, <3>2, <3>4, <3>6, IdentityMap
    <3>9. CASE n \in Above(a)
      <4>1. NextHop(n, a) \in Below(n) /\ a \in On(NextHop(n, a)) /\ NextHop(n, a) \in Nat
        BY <3>2, <3>4, <3>9, NextHopIs DEF Below
      <4> QED BY <3>7, <3>8, <3>9, <4>1
    <3>10. CASE n \notin Above(a)
      <4>1. NextHop(n, a) = -1
        BY <3>2, <3>4, <3>10, NextHopIs DEF None
      <4> QED BY <3>7, <3>8, <3>10, <4>1
    <3> QED BY <3>9, <3>10
  <2> QED BY <1>1, <2>1, SameTree DEF PathsOk
<1>3. TreeOk' /\ criteria' \in Criteria /\ InOrder'
  BY <1>1, SameTree DEF TopoInv, InOrder
<1> QED BY <1>1, <1>2, <1>3, TypesKept, ListsKept, LowersKept, WansKept, LinesKept, LpsKept, NeighboursKept
        DEF TopoInv

LEMMA CollectLowersStep == TopoInv /\ CollectLowers => TopoInv'
<1> SUFFICES ASSUME TopoInv, CollectLowers PROVE TopoInv'
  OBVIOUS
<1>1. /\ UNCHANGED <<tree, criteria, types_below, lists, actuatorPaths,
                     lp_lines, numLP, element_to_lp, neighbour_lp>>
      /\ done' = done \cup {"lowers"} /\ "paths" \in done /\ TreeOk
  BY DEF CollectLowers, Pass, TopoInv
<1>2. \A e \in Elements : IsListing(Places(Below(e), Cardinality(Below(e))), Below(e))
  <2> SUFFICES ASSUME NEW e \in Elements
               PROVE  IsListing(Places(Below(e), Cardinality(Below(e))), Below(e))
    OBVIOUS
  <2>1. Below(e) \in SUBSET Elements
    BY DEF Below
  <2> QED BY <1>1, <2>1, PlacesListing
<1>3. LowersOk'
  <2>1. \A e \in Elements : lowers'[e] = Places(Below(e), Cardinality(Below(e)))
    BY DEF CollectLowers
  <2> QED BY <1>1, <1>2, <2>1, SameTree DEF LowersOk
<1>4. WansOk'
  <2>1. ASSUME NEW n \in Nodes(CENTRAL) \cup Nodes(REGIONAL)
        PROVE  wan_down'[n] \in Kind(WAN) /\ tree.upper[wan_down'[n]] = n
    <3> DEFINE a == Places(Below(n), Cardinality(Below(n)))
               wans == {i \in DOMAIN a : tree.kind[a[i]] = WAN}
    <3>1. n \in Kind(NODE) /\ n \in Elements /\ n \in {0} \cup Nodes(REGIONAL)
      BY <1>1, KindsApart, TreeShape
    <3>2. wan_down'[n] = WanDown(a)
      BY <3>1 DEF CollectLowers
    <3>3. IsListing(a, Below(n))
      BY <1>2, <3>1
    <3> HIDE DEF a
    <3>4. PICK w \in Kind(WAN) : tree.upper[w] = n
      BY <1>1, <3>1, TreeShape
    <3>5. /\ Len(a) \in Nat /\ DOMAIN a = 1 .. Len(a)
          /\ \A i \in 1 .. Len(a) : a[i] \in Below(n)
          /\ \E i \in 1 .. Len(a) : a[i] = w
      <4>1. w \in Below(n)
        BY <3>4, KindsApart DEF Below
      <4> QED BY <3>3, <4>1, ListingParts
    <3>6. wans # {} /\ wans \subseteq 1 .. Len(a)
      BY <3>4, <3>5 DEF Kind
    <3>7. \E i \in wans : \A j \in wans : i >= j
      <4> DEFINE R == {Len(a) - i : i \in wans}
      <4>1. R # {} /\ R \subseteq Nat
        BY <3>5, <3>6
      <4> HIDE DEF R
      <4>2. PICK r \in R : \A q \in R : r <= q
        BY <4>1, SmallestExists
      <4>3. PICK i \in wans : r = Len(a) - i
        BY <4>2 DEF R
      <4>4. \A j \in wans : Len(a) - j \in R /\ r <= Len(a) - j
        BY <4>2 DEF R
      <4>5. \A j \in wans : j \in Int
        BY <3>6
      <4> QED BY <3>5, <4>3, <4>4, <4>5
    <3> DEFINE last == CHOOSE i \in wans : \A j \in wans : i >= j
    <3>8. last \in wans
      BY <3>7
    <3>9. WanDown(a) = a[last]
      BY <3>6 DEF WanDown
    <3> HIDE DEF last
    <3>10. a[last] \in Below(n) /\ tree.kind[a[last]] = WAN
      BY <3>5, <3>8
    <3> QED BY <3>2, <3>9, <3>10 DEF Below, Kind
  <2> QED BY <1>1, <2>1, SameTree DEF WansOk
<1>5. TreeOk' /\ criteria' \in Criteria /\ InOrder'
  BY <1>1, SameTree DEF TopoInv, InOrder
<1> QED BY <1>1, <1>3, <1>4, <1>5, TypesKept, ListsKept, PathsKept, LinesKept, LpsKept, NeighboursKept
        DEF TopoInv

LEMMA ReadLpFileStep == TopoInv /\ ReadLpFile => TopoInv'
<1> SUFFICES ASSUME TopoInv, ReadLpFile PROVE TopoInv'
  OBVIOUS
<1>1. /\ UNCHANGED <<tree, criteria, types_below, lists, actuatorPaths, lowers,
                     wan_down, lp_lines, numLP, neighbour_lp>>
      /\ done' = done \cup {"lps"} /\ TreeOk /\ LinesOk
  BY DEF ReadLpFile, Pass, TopoInv
<1> DEFINE n == numLP
           Here(l, e) == \E i \in DOMAIN lp_lines[l].elements : lp_lines[l].elements[i] = e
<1>2. n \in Nat /\ DOMAIN lp_lines = 1 .. n /\ \A l \in 1 .. n : DOMAIN lp_lines[l].elements = 1 .. Len(lp_lines[l].elements)
  <2>1. lp_lines \in Seq([amount : Nat, elements : Seq(Elements)]) /\ Len(lp_lines) = n
    BY <1>1 DEF LinesOk, Partition
  <2>2. n \in Nat /\ DOMAIN lp_lines = 1 .. n
    BY <2>1, LenProperties
  <2>3. \A l \in 1 .. n : lp_lines[l] \in [amount : Nat, elements : Seq(Elements)]
    BY <2>1, ElementOfSeq
  <2>4. \A l \in 1 .. n : lp_lines[l].elements \in Seq(Elements)
    BY <2>3
  <2> QED BY <2>2, <2>4, LenProperties
<1>3. ASSUME NEW e \in Elements PROVE LpRead(e) \in 0 .. n - 1 /\ Here(LpRead(e) + 1, e)
  <2>1. PICK l \in 1 .. n : \E i \in 1 .. Len(lp_lines[l].elements) :
                /\ lp_lines[l].elements[i] = e
                /\ \A k \in 1 .. n : \A j \in 1 .. Len(lp_lines[k].elements) :
                     lp_lines[k].elements[j] = e => k = l /\ j = i
    BY <1>1 DEF LinesOk, Partition
  <2>2. Here(l, e) /\ \A k \in 1 .. n : Here(k, e) => k = l
    BY <1>2, <2>1
  <2> DEFINE listing == {k \in DOMAIN lp_lines : Here(k, e)}
  <2>3. listing = {l} /\ l \in Nat
    BY <1>2, <2>2
  <2>4. LpRead(e) = (CHOOSE m \in listing : \A k \in listing : k <= m) - 1
    BY DEF LpRead
  <2> HIDE DEF listing
  <2>5. LpRead(e) = l - 1
    BY <2>3, <2>4
  <2> HIDE DEF Here
  <2>6. l - 1 \in 0 .. n - 1 /\ (l - 1) + 1 = l
    BY <1>2
  <2> QED BY <2>2, <2>5, <2>6
<1>4. \A e \in Elements : IdmapSearch(element_to_lp', e) = LpRead(e)
  <2> DEFINE contents == [e \in Elements |-> LpRead(e)]
  <2>1. element_to_lp' = CreateIdmap(Identity, contents)
    BY DEF ReadLpFile
  <2>2. \A e \in Elements : contents[e] = LpRead(e) /\ LpRead(e) \in Nat
    BY <1>2, <1>3
  <2>3. contents \in [Elements -> Int]
    BY <2>2
  <2> HIDE DEF contents
  <2>4. \A x \in Elements :
          IdmapSearch(element_to_lp', x) = IF contents[x] >= 0 THEN contents[x] ELSE IDMAP_CONTENT_NOT_FOUND
    BY <1>1, <2>1, <2>3, IdentityMap
  <2> QED BY <2>2, <2>4
<1>5. LpsOk'
  <2>1. \A e \in Elements : LET lp == IdmapSearch(element_to_lp', e)
                            IN  lp \in 0 .. n - 1 /\ Here(lp + 1, e)
    BY <1>3, <1>4
  <2> QED BY <1>1, <2>1, SameTree DEF LpsOk
<1>6. TreeOk' /\ criteria' \in Criteria /\ InOrder'
  BY <1>1, SameTree DEF TopoInv, InOrder, ReadLpFile, Pass
<1> QED BY <1>1, <1>5, <1>6, TypesKept, ListsKept, PathsKept, LowersKept, WansKept, LinesKept, NeighboursKept
        DEF TopoInv

LEMMA MapNeighboursStep == TopoInv /\ MapNeighbours => TopoInv'
<1> SUFFICES ASSUME TopoInv, MapNeighbours PROVE TopoInv'
  OBVIOUS
<1>1. /\ UNCHANGED <<tree, criteria, types_below, lists, actuatorPaths, lowers,
                     wan_down, lp_lines, numLP, element_to_lp>>
      /\ done' = done \cup {"neighbours"} /\ TreeOk /\ LowersOk /\ LpsOk
  BY DEF MapNeighbours, Pass, TopoInv, InOrder
<1>2. \A f \in Elements : IdmapSearch(element_to_lp, f) \in Nat
  BY <1>1 DEF LpsOk
<1>3. NeighboursOk'
  <2>1. ASSUME NEW e \in Elements, NEW f \in Beside(e)
        PROVE  LET lp == IdmapSearch(neighbour_lp'[e], f)
               IN  /\ lp \in 0 .. numLP - 1
                   /\ \E i \in DOMAIN lp_lines[lp + 1].elements : lp_lines[lp + 1].elements[i] = f
    <3>1. neighbour_lp'[e] = NeighbourMap(e)
      BY DEF MapNeighbours
    <3>2. f \in Elements
      BY <1>1, ReachableListing
    <3>3. IdmapSearch(neighbour_lp'[e], f) = IdmapSearch(element_to_lp, f)
      BY <1>1, <1>2, <3>1, NeighbourMapAnswers
    <3> QED BY <1>1, <3>2, <3>3 DEF LpsOk
  <2> QED BY <1>1, <2>1, SameTree DEF NeighboursOk
<1>4. TreeOk' /\ criteria' \in Criteria /\ InOrder'
  BY <1>1, SameTree DEF TopoInv, InOrder, MapNeighbours, Pass
<1> QED BY <1>1, <1>3, <1>4, TypesKept, ListsKept, PathsKept, LowersKept, WansKept, LinesKept, LpsKept
        DEF TopoInv

-----------------------------------------------------------------------------
(* The lists of devices.                                                   *)

LEMMA LastTypeIs ==
  ASSUME TreeOk, NEW k \in {SENSOR, ACTUATOR}
  PROVE  /\ IsFiniteSet(Kind(k)) /\ Kind(k) \subseteq Elements
         /\ Types(k) \subseteq Nat
         /\ LastType(k) \in Int /\ LastType(k) + 1 \in Nat
         /\ \A t \in Types(k) : t <= LastType(k)
<1>1. IsFiniteSet(Kind(k)) /\ Kind(k) \subseteq Elements
  BY ElementsAre, FS_Subset DEF Kind
<1>2. Types(k) \subseteq Nat
  <2>1. IsTopology(tree)
    BY TopologyAssumption DEF TreeOk
  <2>2. \A d \in Kind(k) : tree.device_type[d] \in Nat
    BY <2>1 DEF IsTopology, Kind, Elements
  <2> QED BY <2>2 DEF Types
<1> DEFINE Type(d) == tree.device_type[d]
           Last(D, m) == (m \in {Type(d) : d \in D} \/ m = -1) /\ \A d \in D : Type(d) <= m
           G == {D \in SUBSET Kind(k) : \E m : Last(D, m)}
<1>3. {} \in G
  <2>1. Last({}, -1)
    OBVIOUS
  <2> QED BY <2>1
<1>4. \A d \in Kind(k) : Type(d) \in Nat
  BY <1>2 DEF Types
<1>5. ASSUME NEW D \in SUBSET Kind(k), D # {}, \A x \in D : D \ {x} \in G PROVE D \in G
  <2>1. PICK x \in D : TRUE
    BY <1>5
  <2>2. PICK m : Last(D \ {x}, m)
    BY <1>5
  <2>3. m \in Int /\ Type(x) \in Nat /\ \A d \in D : Type(d) \in Nat
    BY <1>4, <2>2
  <2> HIDE DEF Type
  <2>4. CASE Type(x) <= m
    <3>1. Last(D, m)
      BY <2>2, <2>4
    <3> QED BY <3>1
  <2>5. CASE ~ (Type(x) <= m)
    <3>1. Last(D, Type(x))
      BY <2>2, <2>3, <2>5
    <3> QED BY <3>1
  <2> QED BY <2>4, <2>5
<1>6. Kind(k) \in G
  <2> DEFINE K == Kind(k)
  <2>1. \A D \in SUBSET K : D # {} /\ (\A x \in D : D \ {x} \in G) => D \in G
    BY <1>5
  <2>2. IsFiniteSet(K) /\ {} \in G
    BY <1>1, <1>3
  <2> HIDE DEF G, K
  <2>3. \A D \in SUBSET K : D \in G
    BY <2>1, <2>2, FiniteInduction
  <2> QED BY <2>3 DEF K
<1>7. PICK m : Last(Kind(k), m)
  BY <1>6
<1>8. m \in Types(k) \cup {-1} /\ \A t \in Types(k) : t <= m
  BY <1>7 DEF Types
<1>9. LastType(k) \in Types(k) \cup {-1} /\ \A t \in Types(k) : t <= LastType(k)
  BY <1>8 DEF LastType
<1>10. LastType(k) \in Int /\ LastType(k) + 1 \in Nat
  BY <1>2, <1>9
<1> QED BY <1>1, <1>2, <1>9, <1>10

\* In the flattened array the list of a type begins after those of the types before.
Start(number, k, type) == SumFunctionOnSet(number, {u \in Types(k) : u < type})
Fit(arrays, number, k, S) == \A t \in Types(k) : arrays[t] \in Seq(S) /\ number[t] = Len(arrays[t])

LEMMA FlattenedParts ==
  ASSUME TreeOk, NEW k \in {SENSOR, ACTUATOR}, NEW arrays, NEW number, NEW S, Fit(arrays, number, k, S),
         NEW type \in Types(k)
  PROVE  SubSeq(Flattened(k, arrays), Start(number, k, type) + 1, Start(number, k, type) + number[type])
           = arrays[type]
<1> DEFINE last == LastType(k)
           D == 0 .. last
           w == [t \in D |-> IF t \in Types(k) THEN arrays[t] ELSE <<>>]
           s == Numbers(last + 1)
           L == Lengths(w, s)
<1>1. Types(k) \subseteq Nat /\ last \in Int /\ last + 1 \in Nat /\ \A t \in Types(k) : t <= last
  BY LastTypeIs
<1> HIDE DEF last
<1>2. /\ s \in Seq(D) /\ Len(s) = last + 1
      /\ \A i \in 1 .. last + 1 : s[i] = i - 1 /\ i - 1 \in D
  <2>1. (last + 1) - 1 = last
    BY <1>1
  <2>2. IsListing(s, D) /\ Len(s) = last + 1
    BY <1>1, <2>1, ListingNumbers
  <2>3. s = [i \in 1 .. last + 1 |-> i - 1]
    BY DEF Numbers
  <2>4. \A i \in 1 .. last + 1 : s[i] = i - 1
    BY <2>3
  <2>5. \A i \in 1 .. last + 1 : i - 1 \in D
    BY <1>1
  <2> QED BY <2>2, <2>4, <2>5 DEF IsListing
<1>3. \A t \in D : w[t] = IF t \in Types(k) THEN arrays[t] ELSE <<>>
  OBVIOUS
<1>4. \A t \in Types(k) : t \in D /\ w[t] = arrays[t] /\ arrays[t] \in Seq(S) /\ number[t] = Len(arrays[t])
  BY <1>1, <1>3 DEF Fit
<1>5. SequencesOver(w, D, S)
  <2> SUFFICES ASSUME NEW t \in D PROVE w[t] \in Seq(S)
    BY DEF SequencesOver
  <2>1. CASE t \in Types(k)
    BY <1>4, <2>1
  <2>2. CASE t \notin Types(k)
    BY <1>3, <2>2, EmptySeq
  <2> QED BY <2>1, <2>2
<1>6. Flattened(k, arrays) = Joined(w, s)
  BY DEF Flattened, last
<1> HIDE DEF w, s, D
<1>7. \A i \in 1 .. last + 1 :
        SubSeq(Joined(w, s), SumFunctionOnSet(L, 1 .. i - 1) + 1, SumFunctionOnSet(L, 1 .. i - 1) + Len(w[s[i]])) = w[s[i]]
  BY <1>2, <1>5, JoinedParts
<1>8. \A i \in 1 .. last + 1 : L[i] = Len(w[i - 1])
  BY <1>2 DEF Lengths
<1> HIDE DEF L
<1>9. ASSUME NEW t \in Types(k)
      PROVE  SumFunctionOnSet(L, 1 .. t) = SumFunctionOnSet(number, {u \in Types(k) : u < t})
  <2> DEFINE I == 1 .. t
             h == [i \in I |-> i - 1]
             g == [u \in 0 .. t - 1 |-> Len(w[u])]
             R == {u \in Types(k) : u < t}
  <2>1. t \in Nat /\ t <= last /\ \A i \in I : i \in 1 .. last + 1 /\ i - 1 \in 0 .. t - 1
    BY <1>1
  <2>2. \A u \in 0 .. t - 1 : u \in D /\ g[u] = Len(w[u]) /\ g[u] \in Nat
    <3>1. \A u \in 0 .. t - 1 : u \in D
      BY <1>1, <2>1 DEF D
    <3> QED BY <1>5, <3>1, LenProperties DEF SequencesOver
  <2>3. \A i \in I : h[i] = i - 1 /\ L[i] \in Int /\ g[h[i]] = L[i]
    <3> SUFFICES ASSUME NEW i \in I PROVE h[i] = i - 1 /\ L[i] \in Int /\ g[h[i]] = L[i]
      OBVIOUS
    <3>1. h[i] = i - 1 /\ L[i] = Len(w[i - 1]) /\ i - 1 \in 0 .. t - 1
      BY <1>8, <2>1
    <3> HIDE DEF g, h
    <3> QED BY <2>2, <3>1
  <2>4. {h[i] : i \in I} = 0 .. t - 1
    <3>1. \A u \in 0 .. t - 1 : u + 1 \in I /\ h[u + 1] = u
      BY <2>1
    <3> QED BY <2>1, <3>1
  <2>5. \A i, j \in I : h[i] = h[j] => i = j
    BY <2>1
  <2>6. IsFiniteSet(I) /\ IsFiniteSet(0 .. t - 1)
    BY <2>1, FS_Interval
  <2> HIDE DEF I, h, g, R
  <2>7. SumFunctionOnSet(L, I) = SumFunctionOnSet(g, {h[i] : i \in I})
    <3>1. (\A i \in I : L[i] \in Int /\ g[h[i]] = L[i]) /\ \A i, j \in I : h[i] = h[j] => i = j
      BY <2>3, <2>5
    <3> QED BY ONLY <2>6, <3>1, SumRenamed
  <2>8. SumFunctionOnSet(g, 0 .. t - 1) = SumFunctionOnSet(number, R)
    <3>1. R \in SUBSET (0 .. t - 1) /\ \A u : u \in R <=> u \in Types(k) /\ u < t
      BY <1>1, <2>1 DEF R
    <3>2. \A u \in R : number[u] \in Int /\ g[u] = number[u]
      <4> SUFFICES ASSUME NEW u \in R PROVE number[u] \in Int /\ g[u] = number[u]
        OBVIOUS
      <4>1. u \in Types(k) /\ u \in 0 .. t - 1
        BY <3>1
      <4> QED BY <1>4, <2>2, <4>1
    <3>3. \A u \in (0 .. t - 1) \ R : g[u] = 0
      <4> SUFFICES ASSUME NEW u \in (0 .. t - 1) \ R PROVE g[u] = 0
        OBVIOUS
      <4>1. u \notin Types(k) /\ u \in 0 .. t - 1
        BY <2>1, <3>1
      <4>2. w[u] = <<>>
        BY <1>3, <2>2, <4>1
      <4> QED BY <2>2, <4>1, <4>2
    <3> DEFINE B == 0 .. t - 1
    <3>4. /\ IsFiniteSet(B) /\ R \in SUBSET B
          /\ \A u \in R : number[u] \in Int /\ g[u] = number[u]
          /\ \A u \in B \ R : g[u] = 0
      BY <2>6, <3>1, <3>2, <3>3
    <3> HIDE DEF R, B
    <3>5. SumFunctionOnSet(g, B) = SumFunctionOnSet(number, R)
      BY <3>4, SumPadded
    <3> QED BY <3>5 DEF B
  <2> QED BY <2>4, <2>7, <2>8 DEF I, R
<1> DEFINE start == Start(number, k, type)
           i == type + 1
<1>10. i \in 1 .. last + 1 /\ i - 1 = type
  BY <1>1
<1>11. s[i] = type /\ w[type] = arrays[type] /\ number[type] = Len(arrays[type])
  BY <1>2, <1>4, <1>10
<1>12. SumFunctionOnSet(L, 1 .. i - 1) = start
  BY <1>9, <1>10 DEF Start
<1> HIDE DEF i, start
<1>13. SubSeq(Joined(w, s), start + 1, start + number[type]) = arrays[type]
  BY <1>7, <1>10, <1>11, <1>12
<1> QED BY <1>6, <1>13 DEF start

LEMMA FillListsStep == TopoInv /\ FillLists => TopoInv'
<1> SUFFICES ASSUME TopoInv, FillLists PROVE TopoInv'
  OBVIOUS
<1>1. /\ UNCHANGED <<tree, criteria, types_below, actuatorPaths, lowers, wan_down,
                     lp_lines, numLP, element_to_lp, neighbour_lp>>
      /\ done' = done \cup {"lists"} /\ "types" \in done /\ TreeOk /\ TypesOk
  BY DEF FillLists, Pass, TopoInv
<1>2. ListsOk'
  <2>1. ASSUME NEW k \in {SENSOR, ACTUATOR}, NEW n \in Elements \ Devices, NEW t \in Types(k)
        PROVE  IsListing(ListByType(k, n, t)', OfType(k, n, t))
    <3> DEFINE arrays == [u \in Types(k) |->
                 Places({d \in Kind(k) : tree.device_type[d] = u /\ n \in Above(d)}, types_below[k][n][u])]
               number == types_below[k][n]
    <3>1. lists'[k][n] = Flattened(k, arrays)
      BY DEF FillLists
    <3>2. \A u \in Types(k) : arrays[u] = Places(OfType(k, n, u), number[u])
      BY DEF OfType
    <3> HIDE DEF arrays, number
    <3>3. \A u \in Types(k) : IsListing(arrays[u], OfType(k, n, u)) /\ number[u] = Len(arrays[u])
      <4> SUFFICES ASSUME NEW u \in Types(k)
                   PROVE  IsListing(arrays[u], OfType(k, n, u)) /\ number[u] = Len(arrays[u])
        OBVIOUS
      <4>1. number[u] = Cardinality(OfType(k, n, u))
        BY <1>1 DEF TypesOk, number
      <4>2. OfType(k, n, u) \in SUBSET Elements
        BY DEF OfType, Kind
      <4>3. IsListing(Places(OfType(k, n, u), Cardinality(OfType(k, n, u))), OfType(k, n, u))
        BY <1>1, <4>2, PlacesListing
      <4>4. IsListing(arrays[u], OfType(k, n, u))
        BY <3>2, <4>1, <4>3
      <4> QED BY <4>1, <4>4, ListingLength
    <3>4. Fit(arrays, number, k, Elements)
      <4>1. \A u : OfType(k, n, u) \subseteq Elements
        BY DEF OfType, Kind
      <4> QED BY <3>3, <4>1, SeqMonotonic DEF IsListing, Fit
    <3> DEFINE start == Start(number, k, t)
    <3>5. SubSeq(Flattened(k, arrays), start + 1, start + number[t]) = arrays[t]
      BY <1>1, <3>4, FlattenedParts
    <3>6. ListByType(k, n, t)' = SubSeq(lists'[k][n], start + 1, start + number[t])
      <4>1. Types(k)' = Types(k) /\ types_below' = types_below
        BY <1>1, SameTree
      <4> QED BY <4>1 DEF ListByType, Start, number
    <3> QED BY <3>1, <3>3, <3>5, <3>6
  <2> QED BY <1>1, <2>1, SameTree DEF ListsOk
<1>3. TreeOk' /\ criteria' \in Criteria /\ InOrder'
  BY <1>1, SameTree DEF TopoInv, InOrder
<1> QED BY <1>1, <1>2, <1>3, TypesKept, PathsKept, LowersKept, WansKept, LinesKept, LpsKept, NeighboursKept
        DEF TopoInv

-----------------------------------------------------------------------------
(* The LP file: each element belongs to the line of one of them.           *)

Owners(own) == {e \in Elements : own[e] = e}
Owned(own, e) == {x \in Elements : own[x] = e}

IsLineOf(line, own, e) ==
  /\ IsListing(line.elements, Owned(own, e))
  /\ line = Line(Len(line.elements), line.elements)

\* The lines of the owners, one each, and none of the rest.
Owning(own) ==
  /\ own \in [Elements -> Elements]
  /\ \A x \in Elements : own[own[x]] = own[x]
  /\ \A e \in Elements : own[e] # e => LinesOf(e) = <<>>
  /\ \A e \in Owners(own) : \E line : LinesOf(e) = <<line>> /\ IsLineOf(line, own, e)

LEMMA OneLineEach ==
  ASSUME TreeOk, NEW own, Owning(own)
  PROVE  Partition(LpLines, Cardinality(Owners(own)), Elements)
<1> DEFINE E == Elements
           N == Cardinality(E)
           s == Numbers(N)
           w == [e \in E |-> LinesOf(e)]
           line(e) == w[e][1]
           O == Owners(own)
           Part == [e \in E |-> IF own[e] = e THEN {line(e)} ELSE {}]
           U == UNION {Part[e] : e \in E}
           lines == LpLines
           R == [amount : Nat, elements : Seq(E)]
<1>1. N \in Nat /\ IsListing(s, E) /\ IsFiniteSet(O)
  <2>1. IsFiniteSet(E) /\ E = 0 .. N - 1 /\ N \in Nat
    BY ElementsAre
  <2>2. IsListing(s, 0 .. N - 1)
    BY <2>1, ListingNumbers
  <2>3. O \in SUBSET E
    BY DEF Owners
  <2> HIDE DEF E, N, O
  <2> QED BY <2>1, <2>2, <2>3, FS_Subset
<1>2. /\ own \in [E -> E] /\ \A x \in E : own[x] \in O
      /\ \A e \in O : e \in E /\ own[e] = e
  BY DEF Owning, Owners
<1>3. /\ \A e \in E : own[e] # e => w[e] = <<>>
      /\ \A e \in O : w[e] = <<line(e)>> /\ IsLineOf(line(e), own, e)
  <2>1. \A e \in E : w[e] = LinesOf(e)
    OBVIOUS
  <2> HIDE DEF w, E
  <2>2. \A e \in O : w[e] = <<w[e][1]>> /\ IsLineOf(w[e][1], own, e)
    <3> SUFFICES ASSUME NEW e \in O PROVE w[e] = <<w[e][1]>> /\ IsLineOf(w[e][1], own, e)
      OBVIOUS
    <3>1. PICK l : w[e] = <<l>> /\ IsLineOf(l, own, e)
      BY <1>2, <2>1 DEF Owning
    <3>2. w[e][1] = l
      BY <3>1
    <3> QED BY <3>1, <3>2
  <2>3. \A e \in E : own[e] # e => w[e] = <<>>
    BY <2>1 DEF Owning, E
  <2> QED BY <2>2, <2>3
<1>4. LpLines = Joined(w, s)
  BY DEF LpLines
<1> HIDE DEF lines, w, s, N
\* What a line lists.
<1>5. ASSUME NEW e \in O
      PROVE  LET p == line(e).elements
             IN  /\ line(e).amount = Len(p) /\ line(e) \in R /\ p \in Seq(E)
                 /\ \A i \in 1 .. Len(p) : p[i] \in E /\ own[p[i]] = e
                 /\ \A x \in E : own[x] = e => \E i \in 1 .. Len(p) : p[i] = x
                 /\ \A i, j \in 1 .. Len(p) : p[i] = p[j] => i = j
  <2> DEFINE l == line(e)
             p == l.elements
  <2>1. IsListing(p, Owned(own, e)) /\ l = Line(Len(p), p)
    BY <1>3 DEF IsLineOf
  <2> HIDE DEF l, line
  <2>2. Owned(own, e) \subseteq E /\ \A x : x \in Owned(own, e) <=> x \in E /\ own[x] = e
    BY DEF Owned
  <2>3. /\ Len(p) \in Nat
        /\ \A i \in 1 .. Len(p) : p[i] \in Owned(own, e)
        /\ \A x \in Owned(own, e) : \E i \in 1 .. Len(p) : p[i] = x
        /\ \A i, j \in 1 .. Len(p) : p[i] = p[j] => i = j
    BY <2>1, ListingParts
  <2>4. p \in Seq(E)
    <3>1. p \in Seq(Owned(own, e))
      BY <2>1 DEF IsListing
    <3> QED BY <2>2, <3>1, SeqMonotonic
  <2>5. l.amount = Len(p) /\ l \in R
    <3> DEFINE m == Len(p)
               q == p
    <3>1. l = [amount |-> m, elements |-> q] /\ m \in Nat /\ q \in Seq(E)
      BY <2>1, <2>3, <2>4 DEF Line
    <3> HIDE DEF m, q, E
    <3>2. l.amount = m /\ l \in R
      BY <3>1
    <3> QED BY <3>2 DEF m
  <2> QED BY <2>2, <2>3, <2>4, <2>5 DEF l
<1> HIDE DEF R, O
<1>6. \A e, f \in O : line(e) = line(f) => e = f
  <2> SUFFICES ASSUME NEW e \in O, NEW f \in O, line(e) = line(f) PROVE e = f
    OBVIOUS
  <2> DEFINE p == line(e).elements
  <2>1. p = line(f).elements
    OBVIOUS
  <2> HIDE DEF p, line
  <2>2. PICK i \in 1 .. Len(p) : p[i] = e
    BY <1>2, <1>5 DEF p
  <2>3. own[p[i]] = f
    BY <1>5, <2>1, <2>2
  <2> QED BY <1>2, <2>2, <2>3
<1>7. \A e \in E : (e \in O => Part[e] = {line(e)}) /\ (e \notin O => Part[e] = {})
  BY DEF O, Owners
<1>8. \A e \in E : IsListing(w[e], Part[e])
  <2> SUFFICES ASSUME NEW e \in E PROVE IsListing(w[e], Part[e])
    OBVIOUS
  <2>1. CASE e \in O
    <3> DEFINE l == line(e)
    <3>1. w[e] = <<l>> /\ Part[e] = {l}
      BY <1>3, <1>7, <2>1
    <3> HIDE DEF l
    <3> QED BY <3>1, ListingOne
  <2>2. CASE e \notin O
    <3>1. w[e] = <<>> /\ Part[e] = {}
      BY <1>3, <1>7, <2>2 DEF O, Owners
    <3> QED BY <3>1, ListingEmpty
  <2> QED BY <2>1, <2>2
<1> HIDE DEF line, Part
<1>9. \A e, f \in E : e # f => Part[e] \cap Part[f] = {}
  BY <1>6, <1>7
<1> HIDE DEF E
<1>10. IsListing(lines, U)
  BY <1>1, <1>4, <1>8, <1>9, JoinedListing DEF lines
<1>11. U = {line(e) : e \in O}
  <2>1. \A e \in O : line(e) \in Part[e] /\ e \in E
    BY <1>2, <1>7
  <2>2. \A e \in E : \A l \in Part[e] : e \in O /\ l = line(e)
    BY <1>7
  <2> QED BY <2>1, <2>2
<1> HIDE DEF U
<1>12. Len(lines) = Cardinality(O)
  <2> DEFINE f == [e \in O |-> line(e)]
  <2>1. f \in [O -> U]
    BY <1>11
  <2>2. \A e, g \in O : f[e] = f[g] => e = g
    BY <1>6
  <2>3. \A l \in U : \E e \in O : f[e] = l
    BY <1>11
  <2> HIDE DEF f
  <2>4. f \in Bijection(O, U)
    BY <2>1, <2>2, <2>3 DEF Bijection, Injection, Surjection, IsInjective
  <2>5. ExistsBijection(O, U)
    BY <2>4 DEF ExistsBijection
  <2>6. Cardinality(U) = Cardinality(O)
    BY <1>1, <2>5, FS_Bijection
  <2>7. Cardinality(U) = Len(lines)
    BY <1>10, ListingLength
  <2> QED BY <2>6, <2>7
<1> DEFINE n == Cardinality(O)
<1>13. /\ Len(lines) = n /\ n \in Nat
       /\ \A l \in 1 .. n : lines[l] \in U
       /\ \A x \in U : \E l \in 1 .. n : lines[l] = x
       /\ \A l, k \in 1 .. n : lines[l] = lines[k] => l = k
  BY <1>10, <1>12, ListingParts
<1> HIDE DEF n
<1>14. lines \in Seq(R)
  <2>1. U \subseteq R
    BY <1>5, <1>11
  <2>2. lines \in Seq(U)
    BY <1>10 DEF IsListing
  <2> QED BY <2>1, <2>2, SeqMonotonic
<1>15. \A l \in 1 .. n : lines[l].amount = Len(lines[l].elements)
  <2> TAKE l \in 1 .. n
  <2>1. PICK e \in O : lines[l] = line(e)
    BY <1>11, <1>13
  <2> QED BY <1>5, <2>1
<1>16. ASSUME NEW x \in E
       PROVE  \E l \in 1 .. n : \E i \in 1 .. Len(lines[l].elements) :
                /\ lines[l].elements[i] = x
                /\ \A k \in 1 .. n : \A j \in 1 .. Len(lines[k].elements) :
                     lines[k].elements[j] = x => k = l /\ j = i
  <2> DEFINE e == own[x]
  <2>1. e \in O
    BY <1>2
  <2> HIDE DEF e
  <2>2. PICK l \in 1 .. n : lines[l] = line(e)
    BY <1>11, <1>13, <2>1
  <2> DEFINE p == line(e).elements
  <2>3. PICK i \in 1 .. Len(p) : p[i] = x
    BY <1>5, <2>1 DEF e
  <2>4. ASSUME NEW k \in 1 .. n, NEW j \in 1 .. Len(lines[k].elements), lines[k].elements[j] = x
        PROVE  k = l /\ j = i
    <3>1. PICK f \in O : lines[k] = line(f)
      BY <1>11, <1>13
    <3>2. own[lines[k].elements[j]] = f
      BY <1>5, <3>1
    <3>3. f = e
      BY <2>4, <3>2 DEF e
    <3>4. k = l
      BY <1>13, <2>2, <3>1, <3>3
    <3>5. j \in 1 .. Len(p) /\ p[j] = x
      BY <2>4, <3>1, <3>3
    <3> QED BY <1>5, <2>1, <2>3, <3>4, <3>5
  <2> QED BY <2>2, <2>3, <2>4
<1> QED BY <1>13, <1>14, <1>15, <1>16 DEF Partition, lines, n, O, E, R

\* The element of depth d on the way up from x.
Ancestor(x, d) == CHOOSE y \in {x} \cup Above(x) : Depth(y) = d

LEMMA AncestorIs ==
  ASSUME TreeOk, NEW x \in Elements, NEW d \in 0 .. Depth(x)
  PROVE  /\ Ancestor(x, d) \in Elements /\ Depth(Ancestor(x, d)) = d /\ x \in On(Ancestor(x, d))
         /\ \A y \in Elements : Depth(y) = d /\ x \in On(y) => y = Ancestor(x, d)
         /\ d = Depth(x) => Ancestor(x, d) = x
<1> DEFINE y == Ancestor(x, d)
<1>1. y \in {x} \cup Above(x) /\ Depth(y) = d
  <2>1. \E z \in {x} \cup Above(x) : Depth(z) = d
    BY WayUp
  <2> QED BY <2>1 DEF Ancestor
<1> HIDE DEF y
<1>2. y \in Elements /\ x \in On(y)
  BY <1>1, WayUp DEF On
<1>3. ASSUME NEW z \in Elements, Depth(z) = d, x \in On(z) PROVE z = y
  <2>1. z \in {x} \cup Above(x)
    BY <1>3 DEF On
  <2> QED BY <1>1, <1>3, <2>1, WayUp
<1>4. x \in On(x)
  BY DEF On
<1> QED BY <1>1, <1>2, <1>3, <1>4 DEF y

\* What is on an element of depth d is what has that element for ancestor.
LEMMA OnIsOwned ==
  ASSUME TreeOk, NEW e \in Elements, NEW x \in Elements
  PROVE  x \in On(e) <=> Depth(x) >= Depth(e) /\ Ancestor(x, Depth(e)) = e
<1>1. Depth(e) \in 0 .. 6 /\ Depth(x) \in 0 .. 6
  BY Depths
<1>2. x \in On(e) => Depth(x) >= Depth(e)
  <2>1. e \in Above(x) => Depth(e) < Depth(x)
    BY WayUp
  <2> QED BY <1>1, <2>1 DEF On
<1>3. CASE Depth(x) >= Depth(e)
  <2>1. Depth(e) \in 0 .. Depth(x)
    BY <1>1, <1>3
  <2> QED BY <1>2, <1>3, <2>1, AncestorIs
<1> QED BY <1>1, <1>2, <1>3

\* Below the central node or a region's lies one WAN.
LEMMA WanBelow ==
  ASSUME TreeOk, LowersOk, NEW n \in {0} \cup Nodes(REGIONAL)
  PROVE  /\ Below(n) = {lowers[n][1]} /\ n # lowers[n][1]
         /\ lowers[n][1] \in Kind(WAN) /\ tree.upper[lowers[n][1]] = n
<1>1. n \in Elements /\ Depth(n) \in {0, 2}
  BY KindsApart, ElementsAre, Depths
<1>2. PICK v \in Kind(WAN) : \A u \in Kind(WAN) : tree.upper[u] = n <=> u = v
  BY TreeShape
<1>3. Below(n) = {v}
  <2>1. v \in Below(n)
    BY <1>2, KindsApart DEF Below
  <2>2. \A l \in Below(n) : l \in Kind(WAN) /\ tree.upper[l] = n
    <3> SUFFICES ASSUME NEW l \in Below(n) PROVE l \in Kind(WAN) /\ tree.upper[l] = n
      OBVIOUS
    <3>1. l \in Elements /\ tree.upper[l] = n /\ Depth(l) \in {1, 3}
      BY <1>1, BelowIs
    <3> QED BY <3>1, Depths
  <2> QED BY <1>2, <2>1, <2>2
<1>4. IsListing(lowers[n], Below(n))
  BY <1>1 DEF LowersOk
<1>5. Len(lowers[n]) = 1
  BY <1>3, <1>4, ListingLength, FS_Singleton
<1>6. lowers[n][1] \in Below(n)
  BY <1>4, <1>5, ListingParts
<1> QED BY <1>2, <1>3, <1>6, KindsApart, Depths, <1>1

LEMMA FirstRegionIs ==
  ASSUME TreeOk, LowersOk
  PROVE  FirstRegion(0) \in Nodes(REGIONAL)
<1> DEFINE v == lowers[0][1]
<1>1. Below(0) = {v} /\ v \in Kind(WAN) /\ tree.upper[v] = 0 /\ v \in Elements
  BY WanBelow, KindsApart
<1>2. \A r \in Nodes(REGIONAL) : r \in Below(v)
  <2> SUFFICES ASSUME NEW r \in Nodes(REGIONAL) PROVE r \in Below(v)
    OBVIOUS
  <2>1. r \in Elements /\ Depth(r) = 2 /\ r # 0
    BY KindsApart, Depths
  <2>2. tree.upper[r] \in Elements /\ Depth(tree.upper[r]) = 1
    BY <2>1, Depths
  <2>3. tree.upper[r] \in Below(0)
    BY <2>2, Depths DEF Below
  <2> QED BY <1>1, <2>1, <2>3 DEF Below
<1> HIDE DEF v
<1>3. IsListing(lowers[v], Below(v)) /\ Below(v) # {}
  BY <1>1, <1>2, TreeShape DEF LowersOk
<1>4. lowers[v][1] \in Below(v)
  <2>1. PICK x \in Below(v) : TRUE
    BY <1>3
  <2>2. \E i \in 1 .. Len(lowers[v]) : lowers[v][i] = x
    BY <1>3, ListingParts
  <2>3. Len(lowers[v]) \in Nat /\ \A i \in 1 .. Len(lowers[v]) : lowers[v][i] \in Below(v)
    BY <1>3, ListingParts
  <2>4. 1 \in 1 .. Len(lowers[v])
    BY <2>2, <2>3
  <2> QED BY <2>3, <2>4
<1>5. Depth(v) = 1
  BY <1>1, Depths
<1>6. lowers[v][1] \in Elements /\ Depth(lowers[v][1]) = 2
  BY <1>1, <1>4, <1>5, BelowIs
<1>7. FirstRegion(0) = lowers[v][1]
  BY DEF FirstRegion, v
<1> QED BY <1>6, <1>7, Depths

LEMMA SubtreeLineIs ==
  ASSUME TreeOk, LowersOk, NEW e \in Elements
  PROVE  LET line == Line(SubtreeSize(e), Subtree(e))
         IN  /\ SubtreeLine(e) = <<line>> /\ IsListing(line.elements, On(e))
             /\ line = Line(Len(line.elements), line.elements)
<1> DEFINE p == Subtree(e)
<1>1. IsListing(p, On(e)) /\ SubtreeSize(e) = Len(p)
  BY SubtreeListing, SubtreeCounted
<1>2. SubtreeLine(e) = <<Line(SubtreeSize(e), p)>>
  BY DEF SubtreeLine
<1> HIDE DEF p
<1>3. Line(SubtreeSize(e), p).elements = p
  BY DEF Line
<1> QED BY <1>1, <1>2, <1>3 DEF p

LEMMA NodeAndWanIs ==
  ASSUME TreeOk, LowersOk, NEW n \in {0} \cup Nodes(REGIONAL)
  PROVE  LET line == Line(2, <<n, lowers[n][1]>>)
         IN  /\ NodeAndWan(n) = <<line>> /\ IsListing(line.elements, {n, lowers[n][1]})
             /\ line = Line(Len(line.elements), line.elements)
<1> DEFINE v == lowers[n][1]
<1>1. n # v
  BY WanBelow
<1> HIDE DEF v
<1>2. IsListing(<<n, v>>, {n, v})
  BY <1>1, ListingTwo
<1>3. Line(2, <<n, v>>).elements = <<n, v>> /\ Len(<<n, v>>) = 2
  BY DEF Line
<1> QED BY <1>2, <1>3 DEF NodeAndWan, v

\* The nodes by their depths.
LEMMA NodesAre ==
  ASSUME TreeOk
  PROVE  /\ Kind(NODE) = {0} \cup Nodes(REGIONAL) \cup Nodes(LOCAL_NODE)
         /\ Nodes(CENTRAL) = {0}
         /\ \A x \in Kind(NODE) : x \in Nodes(LOCAL_NODE) <=> x \notin {0} \cup Nodes(REGIONAL)
         /\ IsFiniteSet(Nodes(REGIONAL)) /\ IsFiniteSet(Nodes(LOCAL_NODE)) /\ IsFiniteSet(Kind(LAN))
         /\ Cardinality(Kind(NODE)) = Cardinality(Nodes(REGIONAL)) + 1 + Cardinality(Nodes(LOCAL_NODE))
         /\ Cardinality(Kind(NODE) \cup Kind(LAN)) =
              Cardinality(Nodes(REGIONAL)) + 1 + Cardinality(Nodes(LOCAL_NODE)) + Cardinality(Kind(LAN))
<1> DEFINE R == Nodes(REGIONAL)
           L == Nodes(LOCAL_NODE)
           A == Kind(LAN)
           K == Kind(NODE)
<1>1. /\ R \subseteq K /\ L \subseteq K /\ 0 \in K /\ Nodes(CENTRAL) = {0}
      /\ \A x \in K : x \notin Kind(WAN) /\ x \notin A /\ x \notin Devices /\ x \in Elements
      /\ \A x \in R : x \notin L /\ x # 0
      /\ 0 \notin L
  BY KindsApart, TreeShape
<1>2. K = {0} \cup R \cup L
  BY <1>1, TreeShape
<1>3. IsFiniteSet(R) /\ IsFiniteSet(L) /\ IsFiniteSet(A) /\ IsFiniteSet(K)
  <2>1. R \subseteq Elements /\ L \subseteq Elements /\ A \subseteq Elements /\ K \subseteq Elements
    BY KindsApart
  <2> QED BY <2>1, ElementsAre, FS_Subset
<1> HIDE DEF R, L, A, K
<1>4. Cardinality(R \cup {0}) = Cardinality(R) + 1 /\ IsFiniteSet(R \cup {0})
  BY <1>1, <1>3, FS_AddElement
<1>5. (R \cup {0}) \cap L = {} /\ K \cap A = {} /\ K = (R \cup {0}) \cup L
  BY <1>1, <1>2
<1>6. /\ Cardinality(R) \in Nat /\ Cardinality(L) \in Nat /\ Cardinality(A) \in Nat
      /\ Cardinality((R \cup {0}) \cup L) = Cardinality(R \cup {0}) + Cardinality(L) - 0
  BY SMTT(30), <1>3, <1>4, <1>5, FS_Union, FS_EmptySet, FS_CardinalityType
<1>7. Cardinality(K) = Cardinality(R) + 1 + Cardinality(L)
  BY <1>4, <1>5, <1>6
<1>8. Cardinality(K \cup A) = Cardinality(K) + Cardinality(A) - 0
  BY <1>3, <1>5, FS_Union, FS_EmptySet
<1>9. Cardinality(K \cup A) = Cardinality(R) + 1 + Cardinality(L) + Cardinality(A)
  BY <1>6, <1>7, <1>8
<1> QED BY <1>1, <1>2, <1>3, <1>7, <1>9 DEF R, L, A, K

LEMMA Headers ==
  /\ criteria = BY_CENTRAL => HeaderLps = 1
  /\ criteria = BY_REGION => HeaderLps = Cardinality(Nodes(REGIONAL))
  /\ criteria = BY_LOCAL => HeaderLps = Cardinality(Nodes(REGIONAL)) + 1 + Cardinality(Nodes(LOCAL_NODE))
  /\ criteria = BY_LAN =>
       HeaderLps = Cardinality(Nodes(REGIONAL)) + 1 + Cardinality(Nodes(LOCAL_NODE)) + Cardinality(Kind(LAN))
<1> DEFINE R == Cardinality(Nodes(REGIONAL))
           L == Cardinality(Nodes(LOCAL_NODE))
           A == Cardinality(Kind(LAN))
<1>1. HeaderLps = CASE criteria = BY_CENTRAL -> 1
                    [] criteria = BY_REGION  -> R
                    [] criteria = BY_LOCAL   -> R + 1 + L
                    [] criteria = BY_LAN     -> R + 1 + L + A
  BY DEF HeaderLps
<1> HIDE DEF R, L, A
<1>2. /\ criteria = BY_CENTRAL => HeaderLps = 1
      /\ criteria = BY_REGION => HeaderLps = R
      /\ criteria = BY_LOCAL => HeaderLps = R + 1 + L
      /\ criteria = BY_LAN => HeaderLps = R + 1 + L + A
  BY <1>1 DEF BY_CENTRAL, BY_REGION, BY_LOCAL, BY_LAN, CENTRAL, REGIONAL, LOCAL_NODE, LAN
<1> QED BY <1>2 DEF R, L, A

LEMMA ByCentral ==
  ASSUME TreeOk, LowersOk, criteria = BY_CENTRAL
  PROVE  Partition(LpLines, HeaderLps, Elements)
<1> DEFINE E == Elements
           own == [x \in E |-> 0]
           p == Subtree(0)
           line == Line(Len(p), p)
<1>1. 0 \in E /\ Nodes(CENTRAL) = {0}
  BY ElementsAre, TreeShape
<1>2. On(0) = E
  <2>1. Depth(0) = 0 /\ \A x \in E : Depth(x) \in 0 .. 6
    BY <1>1, Depths
  <2>2. \A x \in E : Ancestor(x, 0) = 0
    <3> TAKE x \in E
    <3>1. 0 \in 0 .. Depth(x)
      BY <2>1
    <3> QED BY <3>1, AncestorIs, Depths
  <2> QED BY <1>1, <2>1, <2>2, OnIsOwned DEF On
<1>3. IsListing(p, E)
  BY <1>1, <1>2, SubtreeListing
<1>4. Cardinality(E) = Len(p)
  BY <1>3, ListingLength
<1>5. \A e \in E : LinesOf(e) = IF e = 0 THEN <<line>> ELSE <<>>
  <2>1. \A e \in E : LinesOf(e) = CentralLines(e)
    BY DEF LinesOf, BY_CENTRAL, BY_REGION, BY_LOCAL, BY_LAN, CENTRAL, REGIONAL, LOCAL_NODE, LAN
  <2>2. \A e \in E : CentralLines(e) = IF e = 0 THEN <<line>> ELSE <<>>
    BY <1>1, <1>4 DEF CentralLines
  <2> QED BY <2>1, <2>2
<1> HIDE DEF p
<1>6. line.elements = p
  BY DEF Line
<1> HIDE DEF line
<1>7. own \in [E -> E] /\ (\A x \in E : own[x] = 0) /\ Owners(own) = {0} /\ Owned(own, 0) = E
  BY <1>1 DEF Owners, Owned
<1> HIDE DEF own
<1>8. Owning(own)
  <2>1. IsLineOf(line, own, 0)
    BY <1>3, <1>6, <1>7 DEF IsLineOf, line
  <2>2. \A x \in E : own[own[x]] = own[x] /\ (own[x] # x => x # 0)
    BY <1>1, <1>7
  <2>3. \A e \in Owners(own) : \E l : LinesOf(e) = <<l>> /\ IsLineOf(l, own, e)
    BY <1>1, <1>5, <1>7, <2>1
  <2>4. \A e \in E : own[e] # e => LinesOf(e) = <<>>
    BY <1>5, <2>2
  <2> QED BY <1>7, <2>2, <2>3, <2>4 DEF Owning
<1>9. HeaderLps = 1
  BY Headers
<1>10. Cardinality(Owners(own)) = 1
  BY <1>7, FS_Singleton
<1> QED BY <1>8, <1>9, <1>10, OneLineEach

LEMMA ByRegion ==
  ASSUME TreeOk, LowersOk, criteria = BY_REGION
  PROVE  Partition(LpLines, HeaderLps, Elements)
<1> DEFINE E == Elements
           R == Nodes(REGIONAL)
           r == FirstRegion(0)
           v == lowers[0][1]
           own == [x \in E |-> IF Depth(x) < 2 \/ Ancestor(x, 2) = r THEN 0 ELSE Ancestor(x, 2)]
           p == <<0, v>> \o Subtree(r)
           first == Line(Len(p), p)
<1>1. /\ 0 \in E /\ Nodes(CENTRAL) = {0} /\ r \in R /\ r \in E /\ v \in E
      /\ Depth(0) = 0 /\ Depth(r) = 2 /\ Depth(v) = 1 /\ v # 0 /\ r # 0
      /\ Below(0) = {v}
  BY SMTT(30), ElementsAre, TreeShape, FirstRegionIs, WanBelow, KindsApart, Depths
<1>2. \A x \in E : /\ Depth(x) \in 0 .. 6
                   /\ Depth(x) = 0 <=> x = 0
                   /\ Depth(x) = 1 <=> x = v
                   /\ Depth(x) = 2 <=> x \in R
  BY <1>1, Depths DEF Below
<1>3. \A x \in E : Depth(x) >= 2 => Ancestor(x, 2) \in R /\ (Depth(x) = 2 => Ancestor(x, 2) = x)
  <2> SUFFICES ASSUME NEW x \in E, Depth(x) >= 2
               PROVE  Ancestor(x, 2) \in R /\ (Depth(x) = 2 => Ancestor(x, 2) = x)
    OBVIOUS
  <2>1. 2 \in 0 .. Depth(x)
    BY <1>2
  <2> QED BY <1>2, <2>1, AncestorIs
<1>4. \A e \in R, x \in E : x \in On(e) <=> Depth(x) >= 2 /\ Ancestor(x, 2) = e
  <2>1. \A e \in R : e \in E /\ Depth(e) = 2
    BY <1>2, KindsApart
  <2> QED BY <2>1, OnIsOwned
<1>5. R \subseteq E /\ 0 \notin R
  BY <1>1, <1>2, KindsApart
<1>6. Owners(own) = {0} \cup (R \ {r})
  <2>1. ASSUME NEW x \in E PROVE own[x] = x <=> x = 0 \/ (x \in R /\ x # r)
    <3>1. CASE Depth(x) < 2
      <4>1. own[x] = 0 /\ x \notin R
        BY <1>2, <3>1
      <4> QED BY <4>1
    <3>2. CASE ~ (Depth(x) < 2)
      <4>1. Depth(x) >= 2 /\ x # 0
        BY <1>2, <3>2
      <4>2. own[x] = IF Ancestor(x, 2) = r THEN 0 ELSE Ancestor(x, 2)
        BY <3>2
      <4>3. Ancestor(x, 2) \in R /\ (x \in R => Ancestor(x, 2) = x)
        BY <1>2, <1>3, <4>1
      <4> HIDE DEF own
      <4> QED BY <1>1, <1>5, <4>1, <4>2, <4>3
    <3> QED BY <3>1, <3>2
  <2> HIDE DEF own
  <2> QED BY <1>1, <1>5, <2>1 DEF Owners
<1>7. own \in [E -> E] /\ \A x \in E : own[own[x]] = own[x]
  <2>1. \A x \in E : own[x] \in {0} \cup (R \ {r})
    <3> SUFFICES ASSUME NEW x \in E PROVE own[x] \in {0} \cup (R \ {r})
      OBVIOUS
    <3>1. Depth(x) >= 2 \/ Depth(x) < 2
      BY <1>2
    <3> QED BY <1>3, <3>1
  <2>2. own \in [E -> E]
    BY <1>1, <1>5, <2>1
  <2> HIDE DEF own
  <2> QED BY <1>6, <2>1, <2>2 DEF Owners
<1>8. Owned(own, 0) = {0, v} \cup On(r) /\ \A e \in R \ {r} : Owned(own, e) = On(e)
  <2>1. ASSUME NEW x \in E, NEW e \in {0} \cup (R \ {r})
        PROVE  own[x] = e <=> IF e = 0 THEN x \in {0, v} \cup On(r) ELSE x \in On(e)
    <3>1. CASE Depth(x) < 2
      <4>1. own[x] = 0 /\ x \in {0, v} /\ \A f \in R : x \notin On(f)
        BY <1>2, <1>4, <3>1
      <4> HIDE DEF own
      <4> QED BY <1>1, <1>5, <4>1
    <3>2. CASE ~ (Depth(x) < 2)
      <4>1. Depth(x) >= 2 /\ x \notin {0, v}
        BY <1>2, <3>2
      <4>2. own[x] = IF Ancestor(x, 2) = r THEN 0 ELSE Ancestor(x, 2)
        BY <3>2
      <4>3. Ancestor(x, 2) \in R /\ \A f \in R : x \in On(f) <=> Ancestor(x, 2) = f
        BY <1>3, <1>4, <4>1
      <4> HIDE DEF own
      <4> QED BY <1>1, <1>5, <4>1, <4>2, <4>3
    <3> QED BY <3>1, <3>2
  <2>2. \A e : On(e) \subseteq E
    BY DEF On
  <2> HIDE DEF own
  <2>3. Owned(own, 0) = {0, v} \cup On(r)
    BY <1>1, <2>1, <2>2 DEF Owned
  <2>4. ASSUME NEW e \in R \ {r} PROVE Owned(own, e) = On(e)
    <3>1. e # 0 /\ e \in {0} \cup (R \ {r})
      BY <1>5
    <3>2. \A x \in E : own[x] = e <=> x \in On(e)
      BY <2>1, <3>1
    <3>3. On(e) \subseteq E
      BY <2>2
    <3> QED BY <3>2, <3>3 DEF Owned
  <2> QED BY <2>3, <2>4
<1> HIDE DEF own
<1>9. IsListing(p, {0, v} \cup On(r)) /\ Len(p) = 2 + SubtreeSize(r)
  <2> DEFINE q == Subtree(r)
             h == <<0, v>>
  <2>1. IsListing(h, {0, v})
    BY <1>1, ListingTwo
  <2>2. IsListing(q, On(r)) /\ SubtreeSize(r) = Len(q)
    BY <1>1, SubtreeListing, SubtreeCounted
  <2>3. {0, v} \cap On(r) = {}
    <3>1. ~ (Depth(0) >= 2) /\ ~ (Depth(v) >= 2)
      BY <1>1
    <3>2. 0 \notin On(r) /\ v \notin On(r)
      BY <1>1, <1>4, <3>1
    <3> QED BY <3>2
  <2>4. Len(h) = 2 /\ h \in Seq(E)
    BY <1>1
  <2>5. q \in Seq(E)
    <3>1. On(r) \subseteq E
      BY DEF On
    <3> QED BY <2>2, <3>1, SeqMonotonic DEF IsListing
  <2> HIDE DEF q, h, E, r, v
  <2>6. IsListing(h \o q, {0, v} \cup On(r))
    BY <2>1, <2>2, <2>3, ListingConcat
  <2>7. Len(h \o q) = Len(h) + Len(q)
    BY <2>4, <2>5, ConcatProperties
  <2> QED BY <2>2, <2>4, <2>6, <2>7 DEF h, q, r, v
<1>10. \A e \in E : LinesOf(e) = RegionLines(e)
  BY DEF LinesOf, BY_CENTRAL, BY_REGION, BY_LOCAL, BY_LAN, CENTRAL, REGIONAL, LOCAL_NODE, LAN
<1>11. LinesOf(0) = <<first>>
  <2>1. RegionLines(0) = <<Line(2 + SubtreeSize(r), p)>>
    BY <1>1 DEF RegionLines
  <2> QED BY <1>1, <1>9, <1>10, <2>1
<1> HIDE DEF p
<1>12. first.elements = p
  BY DEF Line
<1>13. \A e \in E \ {0} : LinesOf(e) = IF e \in R /\ e # r THEN SubtreeLine(e) ELSE <<>>
  <2> SUFFICES ASSUME NEW e \in E \ {0}
               PROVE  RegionLines(e) = IF e \in R /\ e # r THEN SubtreeLine(e) ELSE <<>>
    BY <1>10
  <2>1. e \notin Nodes(CENTRAL) /\ 0 < e
    BY <1>1, ElementsAre
  <2>2. (\A c \in Nodes(CENTRAL) : c < e => e # FirstRegion(c)) <=> e # r
    BY <1>1, <2>1
  <2> HIDE DEF r
  <2> QED BY <2>1, <2>2 DEF RegionLines
<1> HIDE DEF first
<1>14. Owning(own)
  <2>1. IsLineOf(first, own, 0)
    BY <1>8, <1>9, <1>12 DEF IsLineOf, first
  <2>2. ASSUME NEW e \in R \ {r} PROVE \E l : LinesOf(e) = <<l>> /\ IsLineOf(l, own, e)
    <3> DEFINE l == Line(SubtreeSize(e), Subtree(e))
    <3>1. LinesOf(e) = SubtreeLine(e) /\ e \in E
      BY <1>5, <1>13, <2>2
    <3>2. SubtreeLine(e) = <<l>> /\ IsListing(l.elements, On(e)) /\ l = Line(Len(l.elements), l.elements)
      BY <3>1, SubtreeLineIs
    <3> HIDE DEF l
    <3> QED BY <1>8, <3>1, <3>2 DEF IsLineOf
  <2>3. \A e \in Owners(own) : \E l : LinesOf(e) = <<l>> /\ IsLineOf(l, own, e)
    BY <1>6, <1>11, <2>1, <2>2
  <2>4. \A e \in E : own[e] # e => LinesOf(e) = <<>>
    <3> SUFFICES ASSUME NEW e \in E, own[e] # e PROVE LinesOf(e) = <<>>
      OBVIOUS
    <3>1. e \notin Owners(own)
      BY DEF Owners
    <3> QED BY <1>6, <1>13, <3>1
  <2> QED BY <1>7, <2>3, <2>4 DEF Owning
<1>15. Cardinality(Owners(own)) = HeaderLps
  <2>1. HeaderLps = Cardinality(R)
    BY Headers
  <2>2. IsFiniteSet(R)
    BY NodesAre
  <2> DEFINE Part == R \ {r}
  <2> HIDE DEF R, r
  <2>3. IsFiniteSet(Part) /\ Cardinality(Part) = Cardinality(R) - 1 /\ Cardinality(R) \in Nat
    BY <1>1, <2>2, FS_RemoveElement, FS_CardinalityType
  <2>4. 0 \notin Part
    BY <1>5
  <2>5. Owners(own) = Part \cup {0}
    BY <1>6
  <2> HIDE DEF Part
  <2>6. Cardinality(Part \cup {0}) = Cardinality(Part) + 1
    BY <2>3, <2>4, FS_AddElement
  <2> QED BY <2>1, <2>3, <2>5, <2>6
<1> QED BY <1>14, <1>15, OneLineEach

\* The elements of depth d own what is on them, the nodes above the WAN below them.
Grouped(d) ==
  [x \in Elements |-> IF Depth(x) >= d THEN Ancestor(x, d)
                      ELSE IF Depth(x) \in {1, 3} THEN tree.upper[x] ELSE x]

LEMMA GroupedOwns ==
  ASSUME TreeOk, LowersOk, NEW d \in {4, 5}
  PROVE  LET own == Grouped(d)
         IN  /\ own \in [Elements -> Elements] /\ \A x \in Elements : own[own[x]] = own[x]
             /\ \A e \in Elements : own[e] = e <=> Depth(e) <= d /\ Depth(e) \notin {1, 3}
             /\ \A e \in Elements : Depth(e) = d => Owned(own, e) = On(e)
             /\ \A e \in Elements : Depth(e) = 4 /\ d = 5 => Owned(own, e) = {e}
             /\ \A e \in {0} \cup Nodes(REGIONAL) : Owned(own, e) = {e, lowers[e][1]}
<1> DEFINE E == Elements
           own == Grouped(d)
           u == tree.upper
<1>1. \A x \in E : own[x] = IF Depth(x) >= d THEN Ancestor(x, d)
                            ELSE IF Depth(x) \in {1, 3} THEN u[x] ELSE x
  BY DEF Grouped
<1>2. \A x \in E : Depth(x) \in 0 .. 6 /\ (x # 0 => u[x] \in E /\ Depth(x) = Depth(u[x]) + 1)
                   /\ (Depth(x) \in {1, 3} => x # 0)
  BY Depths
<1>3. \A x \in E : Depth(x) >= d => /\ Ancestor(x, d) \in E /\ Depth(Ancestor(x, d)) = d
                                    /\ (Depth(x) = d => Ancestor(x, d) = x)
  <2> SUFFICES ASSUME NEW x \in E, Depth(x) >= d
               PROVE  /\ Ancestor(x, d) \in E /\ Depth(Ancestor(x, d)) = d
                      /\ (Depth(x) = d => Ancestor(x, d) = x)
    OBVIOUS
  <2>1. d \in 0 .. Depth(x)
    BY <1>2
  <2> QED BY <2>1, AncestorIs
<1>4. \A x \in E : own[x] \in E /\ Depth(own[x]) <= d /\ Depth(own[x]) \notin {1, 3}
  <2> SUFFICES ASSUME NEW x \in E PROVE own[x] \in E /\ Depth(own[x]) <= d /\ Depth(own[x]) \notin {1, 3}
    OBVIOUS
  <2> HIDE DEF own
  <2>1. CASE Depth(x) >= d
    <3>1. own[x] = Ancestor(x, d) /\ Depth(own[x]) = d /\ own[x] \in E
      BY <1>1, <1>3, <2>1
    <3> QED BY <3>1
  <2>2. CASE ~ (Depth(x) >= d) /\ Depth(x) \in {1, 3}
    <3>1. own[x] = u[x] /\ u[x] \in E /\ Depth(x) = Depth(u[x]) + 1 /\ Depth(u[x]) \in 0 .. 6
      BY <1>1, <1>2, <2>2
    <3> QED BY <2>2, <3>1
  <2>3. CASE ~ (Depth(x) >= d) /\ Depth(x) \notin {1, 3}
    <3>1. own[x] = x /\ Depth(x) \in 0 .. 6
      BY <1>1, <1>2, <2>3
    <3> QED BY <2>3, <3>1
  <2> QED BY <2>1, <2>2, <2>3
<1>5. \A x \in E : Depth(x) <= d /\ Depth(x) \notin {1, 3} => own[x] = x
  <2> SUFFICES ASSUME NEW x \in E, Depth(x) <= d, Depth(x) \notin {1, 3} PROVE own[x] = x
    OBVIOUS
  <2> HIDE DEF own
  <2>1. Depth(x) = d \/ ~ (Depth(x) >= d)
    BY <1>2
  <2> QED BY <1>1, <1>3, <2>1
<1>6. own \in [E -> E]
  BY <1>4 DEF Grouped
<1>7. \A x \in E : own[own[x]] = own[x]
  BY <1>4, <1>5
<1>8. \A e \in E : own[e] = e <=> Depth(e) <= d /\ Depth(e) \notin {1, 3}
  <2> SUFFICES ASSUME NEW e \in E PROVE own[e] = e <=> Depth(e) <= d /\ Depth(e) \notin {1, 3}
    OBVIOUS
  <2> HIDE DEF own
  <2> QED BY <1>4, <1>5
<1> HIDE DEF own
<1>9. ASSUME NEW e \in E, Depth(e) = d PROVE Owned(own, e) = On(e)
  <2>1. ASSUME NEW x \in E PROVE own[x] = e <=> x \in On(e)
    <3>1. x \in On(e) <=> Depth(x) >= d /\ Ancestor(x, d) = e
      BY <1>9, OnIsOwned
    <3>2. CASE Depth(x) >= d
      BY <1>1, <3>1, <3>2
    <3>3. CASE ~ (Depth(x) >= d) /\ Depth(x) \in {1, 3}
      <4>1. own[x] = u[x] /\ Depth(x) = Depth(u[x]) + 1 /\ u[x] \in E /\ Depth(u[x]) \in 0 .. 6
        BY <1>1, <1>2, <3>3
      <4>2. u[x] # e
        BY <1>9, <3>3, <4>1
      <4> QED BY <3>1, <3>3, <4>1, <4>2
    <3>4. CASE ~ (Depth(x) >= d) /\ Depth(x) \notin {1, 3}
      <4>1. own[x] = x /\ Depth(x) # d
        BY <1>1, <1>2, <3>4
      <4> QED BY <1>9, <3>1, <3>4, <4>1
    <3> QED BY <3>2, <3>3, <3>4
  <2>2. On(e) \subseteq E
    BY DEF On
  <2> QED BY <2>1, <2>2 DEF Owned
<1>10. ASSUME NEW e \in E, Depth(e) = 4, d = 5 PROVE Owned(own, e) = {e}
  <2>1. ASSUME NEW x \in E, own[x] = e PROVE x = e
    <3>1. CASE Depth(x) >= d
      <4>1. Depth(own[x]) = 5
        BY <1>1, <1>3, <1>10, <3>1
      <4> QED BY <1>10, <2>1, <4>1
    <3>2. CASE ~ (Depth(x) >= d) /\ Depth(x) \in {1, 3}
      <4>1. Depth(x) = Depth(e) + 1
        BY <1>1, <1>2, <2>1, <3>2
      <4> QED BY <1>10, <3>2, <4>1
    <3>3. CASE ~ (Depth(x) >= d) /\ Depth(x) \notin {1, 3}
      BY <1>1, <2>1, <3>3
    <3> QED BY <3>1, <3>2, <3>3
  <2>2. own[e] = e
    BY <1>5, <1>10
  <2> QED BY <2>1, <2>2 DEF Owned
<1>11. ASSUME NEW e \in {0} \cup Nodes(REGIONAL) PROVE Owned(own, e) = {e, lowers[e][1]}
  <2> DEFINE v == lowers[e][1]
  <2>1. e \in E /\ Depth(e) \in {0, 2}
    BY KindsApart, ElementsAre, Depths
  <2>2. Below(e) = {v}
    BY WanBelow
  <2> HIDE DEF v
  <2>3. v \in E /\ Depth(v) = Depth(e) + 1 /\ u[v] = e
    BY <2>1, <2>2, BelowIs
  <2>4. own[e] = e /\ own[v] = e
    <3>1. own[e] = e
      BY <1>5, <2>1
    <3>2. Depth(v) \in {1, 3} /\ ~ (Depth(v) >= d)
      BY <2>1, <2>3
    <3> QED BY <1>1, <2>3, <3>1, <3>2
  <2>5. ASSUME NEW x \in E, own[x] = e PROVE x \in {e, v}
    <3>1. CASE Depth(x) >= d
      <4>1. Depth(own[x]) = d
        BY <1>1, <1>3, <3>1
      <4> QED BY <2>1, <2>5, <4>1
    <3>2. CASE ~ (Depth(x) >= d) /\ Depth(x) \in {1, 3}
      <4>1. u[x] = e
        BY <1>1, <2>5, <3>2
      <4> QED BY <2>2, <4>1 DEF Below
    <3>3. CASE ~ (Depth(x) >= d) /\ Depth(x) \notin {1, 3}
      BY <1>1, <2>5, <3>3
    <3> QED BY <3>1, <3>2, <3>3
  <2> QED BY <2>1, <2>3, <2>4, <2>5 DEF Owned, v
<1> QED BY <1>6, <1>7, <1>8, <1>9, <1>10, <1>11 DEF own

\* The line of an owner, of whichever form.
LEMMA SubtreeOwned ==
  ASSUME TreeOk, LowersOk, NEW e \in Elements, NEW own, Owned(own, e) = On(e), LinesOf(e) = SubtreeLine(e)
  PROVE  \E line : LinesOf(e) = <<line>> /\ IsLineOf(line, own, e)
<1> DEFINE line == Line(SubtreeSize(e), Subtree(e))
<1>1. SubtreeLine(e) = <<line>> /\ IsListing(line.elements, On(e)) /\ line = Line(Len(line.elements), line.elements)
  BY SubtreeLineIs
<1> HIDE DEF line
<1>2. IsLineOf(line, own, e)
  BY <1>1 DEF IsLineOf
<1> QED BY <1>1, <1>2

LEMMA NodeAndWanOwned ==
  ASSUME TreeOk, LowersOk, NEW e \in {0} \cup Nodes(REGIONAL), NEW own,
         Owned(own, e) = {e, lowers[e][1]}, LinesOf(e) = NodeAndWan(e)
  PROVE  \E line : LinesOf(e) = <<line>> /\ IsLineOf(line, own, e)
<1> DEFINE line == Line(2, <<e, lowers[e][1]>>)
<1>1. /\ NodeAndWan(e) = <<line>> /\ IsListing(line.elements, {e, lowers[e][1]})
      /\ line = Line(Len(line.elements), line.elements)
  BY NodeAndWanIs
<1> HIDE DEF line
<1>2. IsLineOf(line, own, e)
  BY <1>1 DEF IsLineOf
<1> QED BY <1>1, <1>2

LEMMA ByLocal ==
  ASSUME TreeOk, LowersOk, criteria = BY_LOCAL
  PROVE  Partition(LpLines, HeaderLps, Elements)
<1> DEFINE E == Elements
           own == Grouped(4)
<1>1. /\ own \in [E -> E] /\ \A x \in E : own[own[x]] = own[x]
      /\ \A e \in E : own[e] = e <=> Depth(e) <= 4 /\ Depth(e) \notin {1, 3}
      /\ \A e \in E : Depth(e) = 4 => Owned(own, e) = On(e)
      /\ \A e \in {0} \cup Nodes(REGIONAL) : Owned(own, e) = {e, lowers[e][1]}
  BY GroupedOwns
<1> HIDE DEF own
<1>2. \A e \in E : /\ Depth(e) \in 0 .. 6
                   /\ e \in Nodes(LOCAL_NODE) <=> Depth(e) = 4
                   /\ e \in Nodes(REGIONAL) <=> Depth(e) = 2
                   /\ e = 0 <=> Depth(e) = 0
  BY Depths
<1>3. \A e \in E : e \in Kind(NODE) <=> own[e] = e
  <2> SUFFICES ASSUME NEW e \in E PROVE e \in Kind(NODE) <=> own[e] = e
    OBVIOUS
  <2>1. e \in Kind(NODE) <=> Depth(e) \in {0, 2, 4}
    BY <1>2, NodesAre
  <2>2. own[e] = e <=> Depth(e) <= 4 /\ Depth(e) \notin {1, 3}
    BY <1>1
  <2> QED BY <1>2, <2>1, <2>2
<1>4. Kind(NODE) = Owners(own)
  BY <1>3, KindsApart DEF Owners
<1>5. \A e \in E : LinesOf(e) = LocalLines(e)
  BY DEF LinesOf, BY_CENTRAL, BY_REGION, BY_LOCAL, BY_LAN, CENTRAL, REGIONAL, LOCAL_NODE, LAN
<1>6. \A e \in E : own[e] # e => LinesOf(e) = <<>>
  <2> SUFFICES ASSUME NEW e \in E, own[e] # e PROVE LinesOf(e) = <<>>
    OBVIOUS
  <2>1. e \notin Kind(NODE) /\ e \notin Nodes(LOCAL_NODE)
    BY <1>3, KindsApart
  <2> QED BY <1>5, <2>1 DEF LocalLines
<1>7. ASSUME NEW e \in Owners(own)
      PROVE  \E line : LinesOf(e) = <<line>> /\ IsLineOf(line, own, e)
  <2>1. e \in E /\ e \in Kind(NODE)
    BY <1>4, KindsApart
  <2>2. CASE e \in Nodes(LOCAL_NODE)
    <3>1. LinesOf(e) = SubtreeLine(e) /\ Owned(own, e) = On(e)
      BY <1>1, <1>2, <1>5, <2>1, <2>2 DEF LocalLines
    <3> QED BY <2>1, <3>1, SubtreeOwned
  <2>3. CASE e \notin Nodes(LOCAL_NODE)
    <3>1. e \in {0} \cup Nodes(REGIONAL)
      BY <2>1, <2>3, NodesAre
    <3>2. LinesOf(e) = NodeAndWan(e) /\ Owned(own, e) = {e, lowers[e][1]}
      BY <1>1, <1>5, <2>1, <2>3, <3>1 DEF LocalLines
    <3> QED BY <3>1, <3>2, NodeAndWanOwned
  <2> QED BY <2>2, <2>3
<1>8. Owning(own)
  BY <1>1, <1>6, <1>7 DEF Owning
<1>9. Cardinality(Owners(own)) = HeaderLps
  BY <1>4, NodesAre, Headers
<1> QED BY <1>8, <1>9, OneLineEach

LEMMA ByLan ==
  ASSUME TreeOk, LowersOk, criteria = BY_LAN
  PROVE  Partition(LpLines, HeaderLps, Elements)
<1> DEFINE E == Elements
           own == Grouped(5)
<1>1. /\ own \in [E -> E] /\ \A x \in E : own[own[x]] = own[x]
      /\ \A e \in E : own[e] = e <=> Depth(e) <= 5 /\ Depth(e) \notin {1, 3}
      /\ \A e \in E : Depth(e) = 5 => Owned(own, e) = On(e)
      /\ \A e \in E : Depth(e) = 4 => Owned(own, e) = {e}
      /\ \A e \in {0} \cup Nodes(REGIONAL) : Owned(own, e) = {e, lowers[e][1]}
  BY GroupedOwns
<1> HIDE DEF own
<1>2. \A e \in E : /\ Depth(e) \in 0 .. 6
                   /\ e \in Nodes(LOCAL_NODE) <=> Depth(e) = 4
                   /\ e \in Nodes(REGIONAL) <=> Depth(e) = 2
                   /\ e \in Kind(LAN) <=> Depth(e) = 5
                   /\ e = 0 <=> Depth(e) = 0
  BY Depths
<1>3. \A e \in E : e \in Kind(NODE) \cup Kind(LAN) <=> own[e] = e
  <2> SUFFICES ASSUME NEW e \in E PROVE e \in Kind(NODE) \cup Kind(LAN) <=> own[e] = e
    OBVIOUS
  <2>1. e \in Kind(NODE) \cup Kind(LAN) <=> Depth(e) \in {0, 2, 4, 5}
    BY <1>2, NodesAre
  <2>2. own[e] = e <=> Depth(e) <= 5 /\ Depth(e) \notin {1, 3}
    BY <1>1
  <2> QED BY <1>2, <2>1, <2>2
<1>4. Kind(NODE) \cup Kind(LAN) = Owners(own)
  BY <1>3, KindsApart DEF Owners
<1>5. \A e \in E : LinesOf(e) = LanLines(e)
  BY DEF LinesOf, BY_CENTRAL, BY_REGION, BY_LOCAL, BY_LAN, CENTRAL, REGIONAL, LOCAL_NODE, LAN
<1>6. \A e \in E : own[e] # e => LinesOf(e) = <<>>
  <2> SUFFICES ASSUME NEW e \in E, own[e] # e PROVE LinesOf(e) = <<>>
    OBVIOUS
  <2>1. e \notin Kind(NODE) /\ e \notin Kind(LAN) /\ e \notin Nodes(LOCAL_NODE)
    BY <1>3, KindsApart
  <2> QED BY <1>5, <2>1 DEF LanLines
<1>7. ASSUME NEW e \in Owners(own)
      PROVE  \E line : LinesOf(e) = <<line>> /\ IsLineOf(line, own, e)
  <2>1. e \in E /\ e \in Kind(NODE) \cup Kind(LAN)
    BY <1>4, KindsApart
  <2>2. CASE e \in Kind(LAN)
    <3>1. LinesOf(e) = SubtreeLine(e) /\ Owned(own, e) = On(e)
      BY <1>1, <1>2, <1>5, <2>1, <2>2 DEF LanLines
    <3> QED BY <2>1, <3>1, SubtreeOwned
  <2>3. CASE e \in Nodes(LOCAL_NODE)
    <3> DEFINE line == Line(1, <<e>>)
    <3>1. LinesOf(e) = <<line>> /\ Owned(own, e) = {e}
      BY <1>1, <1>2, <1>5, <2>1, <2>3, KindsApart DEF LanLines
    <3>2. line.elements = <<e>> /\ Len(<<e>>) = 1 /\ IsListing(<<e>>, {e})
      BY ListingOne DEF Line
    <3>3. IsLineOf(line, own, e)
      BY <3>1, <3>2 DEF IsLineOf
    <3> QED BY <3>1, <3>3
  <2>4. CASE e \notin Kind(LAN) /\ e \notin Nodes(LOCAL_NODE)
    <3>1. e \in {0} \cup Nodes(REGIONAL) /\ e \in Kind(NODE)
      BY <2>1, <2>4, NodesAre
    <3>2. LinesOf(e) = NodeAndWan(e) /\ Owned(own, e) = {e, lowers[e][1]}
      BY <1>1, <1>5, <2>1, <2>4, <3>1 DEF LanLines
    <3> QED BY <3>1, <3>2, NodeAndWanOwned
  <2> QED BY <2>2, <2>3, <2>4
<1>8. Owning(own)
  BY <1>1, <1>6, <1>7 DEF Owning
<1>9. Cardinality(Owners(own)) = HeaderLps
  BY <1>4, NodesAre, Headers
<1> QED BY <1>8, <1>9, OneLineEach

LEMMA CreateLpFileStep == TopoInv /\ CreateLpFile => TopoInv'
<1> SUFFICES ASSUME TopoInv, CreateLpFile PROVE TopoInv'
  OBVIOUS
<1>1. /\ UNCHANGED <<tree, criteria, types_below, lists, actuatorPaths, lowers,
                     wan_down, element_to_lp, neighbour_lp>>
      /\ done' = done \cup {"lp file"} /\ lp_lines' = LpLines /\ numLP' = HeaderLps
      /\ "lps" \notin done /\ "neighbours" \notin done /\ TreeOk /\ LowersOk
  BY DEF CreateLpFile, Pass, TopoInv, InOrder
<1>2. criteria \in {BY_CENTRAL, BY_REGION, BY_LOCAL, BY_LAN}
  BY TopologyAssumption DEF TopoInv
<1>3. Partition(LpLines, HeaderLps, Elements)
  BY <1>1, <1>2, ByCentral, ByRegion, ByLocal, ByLan
<1>4. LinesOk'
  BY <1>1, <1>3, SameTree DEF LinesOk
<1>5. TreeOk' /\ criteria' \in Criteria /\ InOrder'
  BY <1>1, SameTree DEF TopoInv, InOrder, CreateLpFile, Pass
<1>6. "lps" \notin done' /\ "neighbours" \notin done'
  BY <1>1
<1> QED BY <1>1, <1>4, <1>5, <1>6, TypesKept, ListsKept, PathsKept, LowersKept, WansKept
        DEF TopoInv

-----------------------------------------------------------------------------
(* The theorems.                                                           *)

LEMMA ToposKept == TopoInv /\ [Next]_vars => TopoInv'
<1> SUFFICES ASSUME TopoInv, [Next]_vars PROVE TopoInv'
  OBVIOUS
<1>1. CASE UNCHANGED vars
  BY <1>1, ToposStutter
<1>2. CASE CountTypes
  BY <1>2, CountTypesStep
<1>3. CASE FillLists
  BY <1>3, FillListsStep
<1>4. CASE SearchActuatorPaths
  BY <1>4, SearchActuatorPathsStep
<1>5. CASE CollectLowers
  BY <1>5, CollectLowersStep
<1>6. CASE CreateLpFile
  BY <1>6, CreateLpFileStep
<1>7. CASE ReadLpFile
  BY <1>7, ReadLpFileStep
<1>8. CASE MapNeighbours
  BY <1>8, MapNeighboursStep
<1>9. CASE Returned
  BY <1>9, ToposStutter DEF Returned
<1> QED BY <1>1, <1>2, <1>3, <1>4, <1>5, <1>6, <1>7, <1>8, <1>9 DEF Next

\* What each pass of getTopology leaves behind stays true of the tree until it returns.
THEOREM TopologyInvariant == Spec => []TopoInv
BY ToposInitially, ToposKept, PTL DEF Spec

LEMMA DownIsOn ==
  ASSUME TreeOk, LowersOk, NEW e \in Elements
  PROVE  Down(e) = On(e)
<1> DEFINE p == Subtree(e)
<1>1. IsListing(p, On(e))
  BY SubtreeListing
<1> HIDE DEF p
<1>2. On(e) = {p[i] : i \in DOMAIN p}
  BY <1>1, ListingParts
<1> QED BY <1>2 DEF Down, p

\* The upward visits list at each element, type by type, exactly the devices that a
\* downward visit finds on it, each once: in every tree, for every number of types.
THEOREM ListsAlwaysMatchSubtree == Spec => []ListsMatchSubtree
<1>1. TopoInv => ListsMatchSubtree
  <2> SUFFICES ASSUME TopoInv, {"lists", "lowers"} \subseteq done,
                      NEW k \in {SENSOR, ACTUATOR}, NEW n \in Elements \ Devices, NEW t \in Types(k)
               PROVE  LET list == ListByType(k, n, t)
                      IN  /\ {list[i] : i \in DOMAIN list} = {d \in Down(n) \cap Kind(k) : tree.device_type[d] = t}
                          /\ \A i, j \in DOMAIN list : list[i] = list[j] => i = j
    BY DEF ListsMatchSubtree
  <2> DEFINE list == ListByType(k, n, t)
  <2>1. TreeOk /\ LowersOk /\ IsListing(list, OfType(k, n, t))
    BY DEF TopoInv, ListsOk
  <2>2. Down(n) = On(n)
    BY <2>1, DownIsOn
  <2>3. OfType(k, n, t) = {d \in Down(n) \cap Kind(k) : tree.device_type[d] = t}
    <3>1. \A d \in Kind(k) : d \in Devices /\ d \in Elements /\ d # n
      BY DEF Kind, Devices, Elements
    <3>2. \A d \in Kind(k) : n \in Above(d) <=> d \in On(n)
      BY <3>1 DEF On
    <3> QED BY <2>2, <3>2 DEF OfType
  <2> HIDE DEF list
  <2>4. /\ OfType(k, n, t) = {list[i] : i \in DOMAIN list} /\ DOMAIN list = 1 .. Len(list)
        /\ \A i, j \in 1 .. Len(list) : list[i] = list[j] => i = j
    BY <2>1, ListingParts
  <2> QED BY <2>3, <2>4 DEF list
<1> QED BY <1>1, TopologyInvariant, PTL

\* In every tree a COMMAND is led down along the tree from any element to any actuator
\* below it, above the local nodes through the WAN known as id_WAN_down, and no
\* element has a next hop to an actuator that is not below it.
THEOREM PathsAlwaysLeadDown == Spec => []PathsLeadDown
<1>1. TopoInv => PathsLeadDown
  <2> SUFFICES ASSUME TopoInv, {"paths", "lowers"} \subseteq done,
                      NEW n \in Elements, NEW a \in Kind(ACTUATOR)
               PROVE  LET hop == IdmapSearch(actuatorPaths[n], a)
                      IN  IF a \in Down(n) \ {n}
                          THEN /\ hop \in Below(n) /\ a \in Down(hop)
                               /\ n \in Nodes(CENTRAL) \cup Nodes(REGIONAL) => hop = wan_down[n]
                          ELSE hop = IDMAP_CONTENT_NOT_FOUND
    BY DEF PathsLeadDown
  <2> DEFINE hop == IdmapSearch(actuatorPaths[n], a)
  <2>1. TreeOk /\ LowersOk /\ WansOk /\ a \in Elements
    BY DEF TopoInv, Kind
  <2>2. /\ n \in Above(a) => hop \in Below(n) /\ a \in On(hop)
        /\ n \notin Above(a) => hop = IDMAP_CONTENT_NOT_FOUND
    BY DEF TopoInv, PathsOk
  <2> HIDE DEF hop
  <2>3. a \in Down(n) \ {n} <=> n \in Above(a)
    <3>1. Down(n) = On(n) /\ a \notin Above(a)
      BY <2>1, DownIsOn, WayUp
    <3> QED BY <2>1, <3>1 DEF On
  <2>4. ASSUME n \in Above(a) PROVE a \in Down(hop)
    <3>1. hop \in Elements
      BY <2>2, <2>4 DEF Below
    <3> QED BY <2>1, <2>2, <2>4, <3>1, DownIsOn
  <2>5. ASSUME n \in Above(a), n \in Nodes(CENTRAL) \cup Nodes(REGIONAL) PROVE hop = wan_down[n]
    <3>1. n \in {0} \cup Nodes(REGIONAL)
      BY <2>1, <2>5, TreeShape
    <3>2. Below(n) = {lowers[n][1]}
      BY <2>1, <3>1, WanBelow
    <3>3. wan_down[n] \in Below(n)
      BY <2>1, <2>5, KindsApart DEF WansOk, Below
    <3> QED BY <2>2, <2>5, <3>2, <3>3
  <2> QED BY <2>2, <2>3, <2>4, <2>5 DEF hop
<1> QED BY <1>1, TopologyInvariant, PTL

\* Whatever the tree and the criterion, the LP file lists every element in one place,
\* and its header and its lines count what they list.
THEOREM LpsAlwaysPartition == Spec => []LpsPartition
<1>1. TopoInv => LpsPartition
  <2> SUFFICES ASSUME TopoInv, "lp file" \in done
               PROVE  /\ Len(lp_lines) = numLP
                      /\ \A l \in DOMAIN lp_lines : lp_lines[l].amount = Len(lp_lines[l].elements)
                      /\ \A e \in Elements : Cardinality(Listings(e)) = 1
    BY DEF LpsPartition
  <2> DEFINE n == numLP
  <2>1. Partition(lp_lines, n, Elements)
    BY DEF TopoInv, LinesOk
  <2> HIDE DEF n
  <2>2. lp_lines \in Seq([amount : Nat, elements : Seq(Elements)]) /\ Len(lp_lines) = n
    BY <2>1 DEF Partition
  <2>3. n \in Nat /\ DOMAIN lp_lines = 1 .. n
    BY <2>2, LenProperties
  <2>4. \A l \in 1 .. n : DOMAIN lp_lines[l].elements = 1 .. Len(lp_lines[l].elements)
    <3>1. \A l \in 1 .. n : lp_lines[l] \in [amount : Nat, elements : Seq(Elements)]
      BY <2>2, ElementOfSeq
    <3>2. \A l \in 1 .. n : lp_lines[l].elements \in Seq(Elements)
      BY <3>1
    <3> QED BY <3>2, LenProperties
  <2>5. ASSUME NEW e \in Elements PROVE Cardinality(Listings(e)) = 1
    <3> DEFINE Only(l, i) ==
                 /\ lp_lines[l].elements[i] = e
                 /\ \A k \in 1 .. n : \A j \in 1 .. Len(lp_lines[k].elements) :
                      lp_lines[k].elements[j] = e => k = l /\ j = i
    <3>1. PICK l \in 1 .. n : \E i \in 1 .. Len(lp_lines[l].elements) : Only(l, i)
      BY <2>1 DEF Partition
    <3>2. PICK i \in 1 .. Len(lp_lines[l].elements) : Only(l, i)
      BY <3>1
    <3> DEFINE At(k) == {p \in DOMAIN lp_lines[k].elements : lp_lines[k].elements[p] = e}
               Pairs(k) == {<<k, j>> : j \in At(k)}
    <3>3. \A k \in 1 .. n : At(k) = IF k = l THEN {i} ELSE {}
      BY <2>4, <3>2
    <3>4. Listings(e) = UNION {Pairs(k) : k \in 1 .. n}
      BY <2>3 DEF Listings
    <3> HIDE DEF At
    <3>5. \A k \in 1 .. n : Pairs(k) = IF k = l THEN {<<l, i>>} ELSE {}
      BY <3>3
    <3> HIDE DEF Pairs
    <3>6. Listings(e) = {<<l, i>>}
      BY <3>4, <3>5
    <3> QED BY <3>6, FS_Singleton
  <2>6. \A l \in 1 .. n : lp_lines[l].amount = Len(lp_lines[l].elements)
    BY <2>1 DEF Partition
  <2> QED BY <2>2, <2>3, <2>5, <2>6 DEF n
<1> QED BY <1>1, TopologyInvariant, PTL

\* Every element finds in its own map the LP of the element above and of each element
\* below, and it is the LP whose line lists that neighbour.
THEOREM NeighboursAlwaysKnown == Spec => []NeighboursKnown
<1>1. TopoInv => NeighboursKnown
  BY DEF TopoInv, NeighboursOk, NeighboursKnown, Beside
<1> QED BY <1>1, TopologyInvariant, PTL

-----------------------------------------------------------------------------
(* The visits of the tree.                                                 *)

OnStack(s) == {s[i].element : i \in 1 .. Len(s)}
Calls      == [element : Elements, visited : Nat]

\* The calls of graph_visit lead down from the central node, and F are the elements
\* that the visit has left: whole subtrees, of each element under way the first of
\* its lower elements.
Walk(s, F) ==
  /\ s \in Seq(Calls) /\ F \in SUBSET Elements
  /\ \A i \in 1 .. Len(s) : Depth(s[i].element) = i - 1
  /\ \A i \in 1 .. Len(s) - 1 :
       /\ s[i].visited \in 1 .. Len(lowers[s[i].element])
       /\ s[i + 1].element = lowers[s[i].element][s[i].visited]
  /\ F \cap OnStack(s) = {}
  /\ \A x \in F : Below(x) \subseteq F
  /\ \A x \in F \ {0} : tree.upper[x] \in F \cup OnStack(s)
  /\ \A i \in 1 .. Len(s) : \A k \in 1 .. Len(lowers[s[i].element]) :
       lowers[s[i].element][k] \in F <=> k <= IF i = Len(s) THEN s[i].visited ELSE s[i].visited - 1
  /\ s = <<>> => F = Elements

LEMMA LowersListed ==
  ASSUME LowersOk, TreeOk, NEW e \in Elements
  PROVE  /\ Len(lowers[e]) \in Nat /\ DOMAIN lowers[e] = 1 .. Len(lowers[e])
         /\ \A k \in 1 .. Len(lowers[e]) : lowers[e][k] \in Below(e)
         /\ \A x \in Below(e) : \E k \in 1 .. Len(lowers[e]) : lowers[e][k] = x
         /\ \A k, l \in 1 .. Len(lowers[e]) : lowers[e][k] = lowers[e][l] => k = l
         /\ Range(lowers[e]) = Below(e)
<1>1. IsListing(lowers[e], Below(e))
  BY DEF LowersOk
<1>2. Below(e) = {lowers[e][i] : i \in DOMAIN lowers[e]}
  BY <1>1, ListingParts
<1> QED BY <1>1, <1>2, ListingParts DEF Range

\* No LAN is visited that is not a lower element.
LEMMA VisitsAreLowers ==
  ASSUME LowersOk, TreeOk, NEW e \in Elements
  PROVE  NodesToVisit(e) = lowers[e]
<1> DEFINE others == Lans(e) \ Range(lowers[e])
           p == Places(others, Cardinality(others))
<1>1. others = {}
  BY DEF Lans
<1>2. IsListing(p, {})
  BY <1>1, PlacesListing
<1>3. IsListing(lowers[e], Below(e))
  BY DEF LowersOk
<1> HIDE DEF p
<1>4. p = <<>>
  BY <1>2 DEF IsListing
<1>5. lowers[e] \in Seq(Below(e))
  BY <1>3 DEF IsListing
<1>6. lowers[e] \o <<>> = lowers[e]
  BY <1>5, ConcatEmptySeq
<1> QED BY <1>4, <1>6 DEF NodesToVisit, p

LEMMA WalkStarts ==
  ASSUME TreeOk, LowersOk
  PROVE  Walk(<<Call(0)>>, {}) /\ OnStack(<<Call(0)>>) = {0}
<1> DEFINE s == <<Call(0)>>
<1>1. Len(s) = 1 /\ s[1] = [element |-> 0, visited |-> 0] /\ s # <<>>
  BY DEF Call
<1>2. s \in Seq(Calls)
  <2>1. Call(0) \in Calls
    BY ElementsAre DEF Call, Calls
  <2> QED BY <2>1
<1>3. Depth(0) = 0
  BY ElementsAre, Depths
<1>4. OnStack(s) = {0}
  BY <1>1 DEF OnStack
<1>5. Len(lowers[0]) \in Nat
  BY ElementsAre, LowersListed
<1> HIDE DEF s
<1>6. \A i \in 1 .. Len(s) : i = 1 /\ s[i].element = 0 /\ s[i].visited = 0
  BY <1>1
<1>7. 1 .. Len(s) - 1 = {}
  BY <1>1
<1>8. \A k \in 1 .. Len(lowers[0]) : ~ (k <= 0)
  BY <1>5
<1>9. \A i \in 1 .. Len(s) : Depth(s[i].element) = i - 1
  BY <1>3, <1>6
<1>10. \A i \in 1 .. Len(s) : \A k \in 1 .. Len(lowers[s[i].element]) :
         lowers[s[i].element][k] \in {} <=> k <= IF i = Len(s) THEN s[i].visited ELSE s[i].visited - 1
  BY <1>1, <1>6, <1>8
<1>11. \A i \in 1 .. Len(s) - 1 :
         /\ s[i].visited \in 1 .. Len(lowers[s[i].element])
         /\ s[i + 1].element = lowers[s[i].element][s[i].visited]
  BY <1>7
<1>12. s # <<>> /\ {} \in SUBSET Elements /\ {} \cap OnStack(s) = {}
  BY <1>1
<1>13. Walk(s, {})
  BY <1>2, <1>9, <1>10, <1>11, <1>12 DEF Walk
<1> QED BY <1>4, <1>13 DEF s

Pushed(s, child) == Append([s EXCEPT ![Len(s)].visited = @ + 1], Call(child))

\* Facts about the elements under way.
LEMMA WalkParts ==
  ASSUME TreeOk, LowersOk, NEW s, NEW F, Walk(s, F)
  PROVE  /\ Len(s) \in Nat /\ DOMAIN s = 1 .. Len(s) /\ F \in SUBSET Elements
         /\ \A i \in 1 .. Len(s) : /\ s[i].element \in Elements /\ s[i].visited \in Nat
                                   /\ s[i] = [element |-> s[i].element, visited |-> s[i].visited]
                                   /\ Depth(s[i].element) = i - 1
         /\ \A i, j \in 1 .. Len(s) : s[i].element = s[j].element => i = j
         /\ \A i \in 2 .. Len(s) : tree.upper[s[i].element] = s[i - 1].element
         /\ Len(s) > 0 => s[1].element = 0
         /\ OnStack(s) \subseteq Elements
<1>1. Len(s) \in Nat /\ DOMAIN s = 1 .. Len(s) /\ F \in SUBSET Elements
  BY DEF Walk
<1>2. \A i \in 1 .. Len(s) : s[i] \in Calls /\ Depth(s[i].element) = i - 1
  BY ElementOfSeq DEF Walk
<1>3. \A i \in 1 .. Len(s) : s[i].element \in Elements /\ s[i].visited \in Nat
                             /\ s[i] = [element |-> s[i].element, visited |-> s[i].visited]
  BY <1>2 DEF Calls
<1>4. \A i, j \in 1 .. Len(s) : s[i].element = s[j].element => i = j
  BY <1>1, <1>2
<1>5. \A i \in 2 .. Len(s) : tree.upper[s[i].element] = s[i - 1].element
  <2> TAKE i \in 2 .. Len(s)
  <2>1. i - 1 \in 1 .. Len(s) - 1 /\ i - 1 \in 1 .. Len(s) /\ (i - 1) + 1 = i
    BY <1>1
  <2>2. s[i].element = lowers[s[i - 1].element][s[i - 1].visited]
        /\ s[i - 1].visited \in 1 .. Len(lowers[s[i - 1].element])
    BY <2>1 DEF Walk
  <2>3. s[i].element \in Below(s[i - 1].element)
    <3>1. s[i - 1].element \in Elements
      BY <1>3, <2>1
    <3>2. \A k \in 1 .. Len(lowers[s[i - 1].element]) : lowers[s[i - 1].element][k] \in Below(s[i - 1].element)
      BY <3>1, LowersListed
    <3> QED BY <2>2, <3>2
  <2> QED BY <2>3 DEF Below
<1>6. Len(s) > 0 => s[1].element = 0
  <2> SUFFICES ASSUME Len(s) > 0 PROVE s[1].element = 0
    OBVIOUS
  <2>1. 1 \in 1 .. Len(s) /\ 1 - 1 = 0
    BY <1>1
  <2> QED BY <1>2, <1>3, <2>1, Depths
<1>7. OnStack(s) \subseteq Elements
  BY <1>3 DEF OnStack
<1>8. \A i \in 1 .. Len(s) : Depth(s[i].element) = i - 1
  BY <1>2
<1> QED BY <1>1, <1>3, <1>4, <1>5, <1>6, <1>7, <1>8

LEMMA WalkDescends ==
  ASSUME TreeOk, LowersOk, NEW s, NEW F, Walk(s, F), Len(s) > 0,
         s[Len(s)].visited < Len(lowers[s[Len(s)].element])
  PROVE  LET child == lowers[s[Len(s)].element][s[Len(s)].visited + 1]
             t     == Pushed(s, child)
         IN  /\ Walk(t, F)
             /\ OnStack(t) = OnStack(s) \cup {child}
             /\ child \in Elements /\ child # 0 /\ tree.upper[child] \in OnStack(s)
             /\ child \notin F \cup OnStack(s)
             /\ Below(child) \cap (F \cup OnStack(t)) = {}
<1> DEFINE n == Len(s)
           p == s[n].element
           v == s[n].visited
           child == lowers[p][v + 1]
           t == Pushed(s, child)
<1>1. /\ n \in Nat /\ n > 0 /\ DOMAIN s = 1 .. n /\ F \in SUBSET Elements
      /\ \A i \in 1 .. n : /\ s[i].element \in Elements /\ s[i].visited \in Nat
                           /\ s[i] = [element |-> s[i].element, visited |-> s[i].visited]
                           /\ Depth(s[i].element) = i - 1
      /\ \A i, j \in 1 .. n : s[i].element = s[j].element => i = j
      /\ \A i \in 2 .. n : tree.upper[s[i].element] = s[i - 1].element
      /\ s[1].element = 0
      /\ OnStack(s) \subseteq Elements
  BY WalkParts
<1>0. n \in Nat /\ n > 0
  BY <1>1
<1>2. n \in 1 .. n /\ p \in Elements /\ v \in Nat /\ v < Len(lowers[p]) /\ Depth(p) = n - 1 /\ p \in OnStack(s)
  BY <1>1 DEF OnStack
<1>3. v + 1 \in 1 .. Len(lowers[p])
  BY <1>2, LowersListed
<1>4. child \in Below(p)
  BY <1>2, <1>3, LowersListed
<1>5. child \in Elements /\ child # 0 /\ tree.upper[child] = p /\ Depth(child) = n
  BY <1>1, <1>2, <1>4, BelowIs
<1>6. child \notin F
  <2>1. child \in F <=> v + 1 <= v
    BY <1>2, <1>3 DEF Walk
  <2> QED BY <1>2, <2>1
<1>7. child \notin OnStack(s)
  <2> SUFFICES ASSUME NEW i \in 1 .. n, s[i].element = child PROVE FALSE
    BY DEF OnStack
  <2> QED BY <1>1, <1>5
<1>8. /\ Len(t) = n + 1
      /\ t \in Seq(Calls)
      /\ \A i \in 1 .. n - 1 : t[i] = s[i]
      /\ t[n] = [element |-> p, visited |-> v + 1]
      /\ t[n + 1] = [element |-> child, visited |-> 0]
  <2> DEFINE r == [s EXCEPT ![n].visited = @ + 1]
  <2>1. s \in Seq(Calls) /\ s[n] = [element |-> p, visited |-> v]
    BY <1>1, <1>2 DEF Walk
  <2>2. r = [i \in 1 .. n |-> IF i = n THEN [s[n] EXCEPT !.visited = v + 1] ELSE s[i]]
    BY <1>1
  <2>3. [s[n] EXCEPT !.visited = v + 1] = [element |-> p, visited |-> v + 1]
    BY <2>1
  <2>4. \A i \in 1 .. n : r[i] = IF i = n THEN [element |-> p, visited |-> v + 1] ELSE s[i]
    BY <2>2, <2>3
  <2>5. \A i \in 1 .. n : r[i] \in Calls
    BY <1>1, <1>2, <2>4 DEF Calls
  <2>6. r \in [1 .. n -> Calls]
    BY <2>2, <2>5
  <2>7. r \in Seq(Calls) /\ Len(r) = n
    <3> HIDE DEF r, n
    <3> QED BY <1>0, <2>6
  <2>8. Call(child) \in Calls /\ Call(child) = [element |-> child, visited |-> 0]
    BY <1>5 DEF Call, Calls
  <2>9. t = Append(r, Call(child))
    BY DEF Pushed
  <2> HIDE DEF r, t, child
  <2>10. t \in Seq(Calls) /\ Len(t) = n + 1 /\ t[n + 1] = Call(child) /\ \A i \in 1 .. n : t[i] = r[i]
    BY <1>1, <2>7, <2>8, <2>9, AppendProperties
  <2>11. \A i \in 1 .. n - 1 : i \in 1 .. n /\ i # n
    BY <1>1
  <2>12. t[n] = [element |-> p, visited |-> v + 1]
    BY <1>2, <2>4, <2>10
  <2>13. \A i \in 1 .. n - 1 : t[i] = s[i]
    BY <2>4, <2>10, <2>11
  <2> HIDE DEF n
  <2> QED BY <2>8, <2>10, <2>12, <2>13
<1> HIDE DEF t, child
<1>9. /\ \A i \in 1 .. n : t[i].element = s[i].element
      /\ \A i \in 1 .. n + 1 : i \in 1 .. n \/ i = n + 1
      /\ t[n + 1].element = child
  <2>1. \A i \in 1 .. n : i \in 1 .. n - 1 \/ i = n
    BY <1>1
  <2>2. \A i \in 1 .. n : t[i].element = s[i].element
    BY <1>8, <2>1
  <2> QED BY <1>1, <1>8, <2>2
<1>10. OnStack(t) = OnStack(s) \cup {child}
  <2>0. Len(t) = n + 1 /\ \A i \in 1 .. n : i \in 1 .. n + 1
    BY <1>0, <1>8
  <2>1. OnStack(t) \subseteq OnStack(s) \cup {child}
    BY <1>9, <2>0 DEF OnStack
  <2>2. \A i \in 1 .. n : s[i].element \in OnStack(t)
    BY <1>9, <2>0 DEF OnStack
  <2>3. child \in OnStack(t)
    <3>1. n + 1 \in 1 .. Len(t)
      BY <1>1, <1>8
    <3> QED BY <1>9, <3>1 DEF OnStack
  <2> QED BY <2>1, <2>2, <2>3 DEF OnStack
<1>11. \A i \in 1 .. n + 1 : Depth(t[i].element) = i - 1
  BY <1>1, <1>5, <1>9
<1>12. \A i \in 1 .. n : /\ t[i].visited \in 1 .. Len(lowers[t[i].element])
                         /\ t[i + 1].element = lowers[t[i].element][t[i].visited]
  <2> TAKE i \in 1 .. n
  <2>1. CASE i = n
    BY <1>3, <1>8, <1>9, <2>1 DEF child
  <2>2. CASE i # n
    <3>1. i \in 1 .. n - 1 /\ i + 1 \in 1 .. n
      BY <1>0, <2>2
    <3>2. t[i] = s[i] /\ t[i + 1].element = s[i + 1].element
      BY <1>8, <1>9, <3>1
    <3>3. s[i].visited \in 1 .. Len(lowers[s[i].element]) /\ s[i + 1].element = lowers[s[i].element][s[i].visited]
      BY <3>1 DEF Walk
    <3> QED BY <3>2, <3>3
  <2> QED BY <2>1, <2>2
<1>13. Below(child) \cap (F \cup OnStack(t)) = {}
  <2> SUFFICES ASSUME NEW l \in Below(child), l \in F \cup OnStack(t) PROVE FALSE
    OBVIOUS
  <2>1. l # 0 /\ tree.upper[l] = child /\ Depth(l) = n + 1
    BY <1>5, BelowIs
  <2>2. CASE l \in F
    BY <1>6, <1>7, <2>1, <2>2 DEF Walk
  <2>3. CASE l \in OnStack(t)
    <3>1. PICK i \in 1 .. n + 1 : t[i].element = l
      BY <1>8, <2>3 DEF OnStack
    <3>2. Depth(l) = i - 1
      BY <1>11, <3>1
    <3> QED BY <1>0, <2>1, <3>2
  <2> QED BY <2>2, <2>3
<1>14. ASSUME NEW i \in 1 .. n + 1, NEW k \in 1 .. Len(lowers[t[i].element])
       PROVE  lowers[t[i].element][k] \in F <=> k <= IF i = n + 1 THEN t[i].visited ELSE t[i].visited - 1
  <2>1. CASE i = n + 1
    <3>1. Len(lowers[child]) \in Nat /\ t[i].element = child /\ t[i].visited = 0
      BY <1>5, <1>8, <2>1, LowersListed
    <3>2. lowers[child][k] \in Below(child)
      BY <1>5, <1>14, <3>1, LowersListed
    <3>3. ~ (k <= 0)
      BY <1>14, <3>1
    <3> QED BY <1>13, <2>1, <3>1, <3>2, <3>3
  <2>2. CASE i = n
    <3>1. t[i].element = p /\ t[i].visited - 1 = v /\ i # n + 1
      <4>1. t[i].element = p /\ t[i].visited = v + 1
        BY <1>8, <2>2
      <4> HIDE DEF p, v
      <4> QED BY <1>0, <1>2, <2>2, <4>1
    <3>2. lowers[p][k] \in F <=> k <= v
      BY <1>2, <1>14, <3>1 DEF Walk
    <3> QED BY <3>1, <3>2
  <2>3. CASE i \in 1 .. n - 1
    <3>1. i # n + 1 /\ i # n /\ i \in 1 .. n
      BY <1>0, <2>3
    <3>2. t[i] = s[i]
      BY <1>8, <2>3
    <3>3. k \in 1 .. Len(lowers[s[i].element])
      BY <1>14, <3>2
    <3>4. lowers[s[i].element][k] \in F <=> k <= s[i].visited - 1
      BY <3>1, <3>3 DEF Walk
    <3> QED BY <3>1, <3>2, <3>4
  <2>4. i = n + 1 \/ i = n \/ i \in 1 .. n - 1
    BY <1>0
  <2> QED BY <2>1, <2>2, <2>3, <2>4
<1>15. Walk(t, F)
  <2>1. t \in Seq(Calls) /\ F \in SUBSET Elements /\ Len(t) = n + 1 /\ (n + 1) - 1 = n /\ t # <<>>
    BY <1>1, <1>8
  <2>2. F \cap OnStack(t) = {}
    BY <1>6, <1>10 DEF Walk
  <2>3. \A x \in F : Below(x) \subseteq F
    BY DEF Walk
  <2>4. \A x \in F \ {0} : tree.upper[x] \in F \cup OnStack(t)
    BY <1>10 DEF Walk
  <2> HIDE DEF n
  <2> QED BY <1>11, <1>12, <1>14, <2>1, <2>2, <2>3, <2>4 DEF Walk
<1> QED BY <1>2, <1>5, <1>6, <1>7, <1>10, <1>13, <1>15 DEF t, child

LEMMA WalkReturns ==
  ASSUME TreeOk, LowersOk, NEW s, NEW F, Walk(s, F), Len(s) > 0,
         s[Len(s)].visited = Len(lowers[s[Len(s)].element])
  PROVE  LET e == s[Len(s)].element
             t == SubSeq(s, 1, Len(s) - 1)
         IN  /\ Walk(t, F \cup {e})
             /\ e \in Elements /\ e \in OnStack(s) /\ e \notin F /\ Below(e) \subseteq F
             /\ (F \cup {e}) \cup OnStack(t) = F \cup OnStack(s)
             /\ Above(e) \cap F = {}
<1> DEFINE n == Len(s)
           e == s[n].element
           t == SubSeq(s, 1, n - 1)
           G == F \cup {e}
<1>1. /\ n \in Nat /\ n > 0 /\ DOMAIN s = 1 .. n /\ F \in SUBSET Elements
      /\ \A i \in 1 .. n : /\ s[i].element \in Elements /\ s[i].visited \in Nat
                           /\ Depth(s[i].element) = i - 1
      /\ \A i, j \in 1 .. n : s[i].element = s[j].element => i = j
      /\ \A i \in 2 .. n : tree.upper[s[i].element] = s[i - 1].element
      /\ s[1].element = 0
      /\ OnStack(s) \subseteq Elements
  BY WalkParts
<1>0. n \in Nat /\ n > 0 /\ n \in 1 .. n
  BY <1>1
<1>2. e \in Elements /\ e \in OnStack(s) /\ Depth(e) = n - 1
  BY <1>0, <1>1 DEF OnStack
<1>3. e \notin F
  BY <1>2 DEF Walk
<1>4. Below(e) \subseteq F
  <2> SUFFICES ASSUME NEW l \in Below(e) PROVE l \in F
    OBVIOUS
  <2>1. PICK k \in 1 .. Len(lowers[e]) : lowers[e][k] = l
    BY <1>2, LowersListed
  <2>2. lowers[e][k] \in F <=> k <= Len(lowers[e])
    BY <1>0 DEF Walk
  <2>3. Len(lowers[e]) \in Nat
    BY <1>2, LowersListed
  <2> QED BY <2>1, <2>2, <2>3
<1>5. Above(e) \cap F = {}
  <2> SUFFICES ASSUME NEW y \in Above(e), y \in F PROVE FALSE
    OBVIOUS
  <2> DEFINE S == {x \in Elements : y \in Above(x) => x \in F}
  <2>1. 0 \in S
    BY AboveUnfolds, ElementsAre
  <2>2. \A x \in Elements \ {0} : tree.upper[x] \in S => x \in S
    <3> SUFFICES ASSUME NEW x \in Elements \ {0}, tree.upper[x] \in S, y \in Above(x) PROVE x \in F
      OBVIOUS
    <3>1. Above(x) = {tree.upper[x]} \cup Above(tree.upper[x])
      BY AboveUnfolds
    <3>2. tree.upper[x] \in F
      BY <3>1
    <3>3. x \in Below(tree.upper[x])
      BY DEF Below
    <3> QED BY <3>2, <3>3 DEF Walk
  <2>3. \A x \in Elements : x \in S
    <3> HIDE DEF S
    <3> QED BY <2>1, <2>2, DownTheTree
  <2> QED BY <1>2, <1>3, <2>3
<1>6. /\ t \in Seq(Calls) /\ Len(t) = n - 1
      /\ \A i \in 1 .. n - 1 : t[i] = s[i]
  <2>1. s \in Seq(Calls)
    BY DEF Walk
  <2>2. 1 \in Int /\ n - 1 \in Int /\ \A i \in 1 .. n - 1 : i \in 1 .. n
    BY <1>0
  <2>3. \A i \in 1 .. n - 1 : s[i] \in Calls
    BY <2>1, <2>2, ElementOfSeq
  <2>4. /\ t \in Seq(Calls)
        /\ Len(t) = IF 1 <= n - 1 THEN (n - 1) - 1 + 1 ELSE 0
        /\ \A i \in 1 .. (n - 1) - 1 + 1 : t[i] = s[1 + i - 1]
    <3> HIDE DEF n
    <3> QED BY <2>2, <2>3, SubSeqProperties
  <2> HIDE DEF t, e, G, n
  <2>5. Len(t) = n - 1 /\ (n - 1) - 1 + 1 = n - 1 /\ \A i \in 1 .. n - 1 : 1 + i - 1 = i
    BY <1>0, <2>4
  <2> QED BY <2>4, <2>5
<1> HIDE DEF t
<1>7. OnStack(s) = OnStack(t) \cup {e}
  <2>1. \A i \in 1 .. n : i \in 1 .. n - 1 \/ i = n
    BY <1>0
  <2>2. \A i \in 1 .. n - 1 : i \in 1 .. n
    BY <1>0
  <2>3. OnStack(t) = {s[i].element : i \in 1 .. n - 1}
    BY <1>6 DEF OnStack
  <2> QED BY <1>0, <2>1, <2>2, <2>3 DEF OnStack
<1>8. e \notin OnStack(t)
  <2> SUFFICES ASSUME NEW i \in 1 .. n - 1, t[i].element = e PROVE FALSE
    BY <1>6 DEF OnStack
  <2>1. i \in 1 .. n /\ i # n
    BY <1>0
  <2>2. s[i].element = e
    BY <1>6
  <2> QED BY <1>0, <1>1, <2>1, <2>2
<1>9. G \cap OnStack(t) = {}
  <2>1. F \cap OnStack(s) = {}
    BY DEF Walk
  <2> QED BY <1>7, <1>8, <2>1
<1>10. \A x \in G : Below(x) \subseteq G
  BY <1>4 DEF Walk
<1>11. \A x \in G \ {0} : tree.upper[x] \in G \cup OnStack(t)
  <2> SUFFICES ASSUME NEW x \in G \ {0} PROVE tree.upper[x] \in G \cup OnStack(t)
    OBVIOUS
  <2>1. CASE x \in F
    <3>1. tree.upper[x] \in F \cup OnStack(s)
      BY <2>1 DEF Walk
    <3> QED BY <1>7, <3>1
  <2>2. CASE x = e
    <3>1. n # 1
      <4>1. s[1].element = 0 /\ x # 0
        BY <1>1
      <4> QED BY <2>2, <4>1
    <3>2. n \in 2 .. n /\ n - 1 \in 1 .. n - 1 /\ n - 1 \in 1 .. n
      <4> HIDE DEF n
      <4> QED BY <1>0, <3>1
    <3>3. tree.upper[x] = s[n - 1].element
      BY <1>1, <2>2, <3>2
    <3>4. t[n - 1] = s[n - 1] /\ n - 1 \in 1 .. Len(t)
      BY <1>6, <3>2
    <3> QED BY <3>3, <3>4 DEF OnStack
  <2> QED BY <2>1, <2>2
<1>12. t = <<>> => G = Elements
  <2> SUFFICES ASSUME t = <<>> PROVE G = Elements
    OBVIOUS
  <2>1. n = 1
    BY <1>0, <1>6
  <2>2. 0 \in G
    BY <1>1, <2>1
  <2>3. \A x \in Elements \ {0} : tree.upper[x] \in G => x \in G
    BY <1>10 DEF Below
  <2> HIDE DEF G
  <2>4. \A x \in Elements : x \in G
    BY <2>2, <2>3, DownTheTree
  <2> QED BY <1>1, <1>2, <2>4 DEF G
<1>13. \A i \in 1 .. Len(t) - 1 :
         /\ t[i].visited \in 1 .. Len(lowers[t[i].element])
         /\ t[i + 1].element = lowers[t[i].element][t[i].visited]
  <2> SUFFICES ASSUME NEW i \in 1 .. n - 2
               PROVE  /\ t[i].visited \in 1 .. Len(lowers[t[i].element])
                      /\ t[i + 1].element = lowers[t[i].element][t[i].visited]
    <3>1. Len(t) - 1 = n - 2
      BY <1>0, <1>6
    <3> QED BY <3>1
  <2>1. i \in 1 .. n - 1 /\ i + 1 \in 1 .. n - 1
    BY <1>0
  <2>2. t[i] = s[i] /\ t[i + 1] = s[i + 1]
    BY <1>6, <2>1
  <2>3. /\ s[i].visited \in 1 .. Len(lowers[s[i].element])
        /\ s[i + 1].element = lowers[s[i].element][s[i].visited]
    BY <2>1 DEF Walk
  <2> QED BY <2>2, <2>3
<1>14. ASSUME NEW i \in 1 .. n - 1, NEW k \in 1 .. Len(lowers[t[i].element])
       PROVE  lowers[t[i].element][k] \in G <=> k <= IF i = n - 1 THEN t[i].visited ELSE t[i].visited - 1
  <2> DEFINE x == s[i].element
             v == s[i].visited
  <2>1. t[i] = s[i] /\ i \in 1 .. n /\ i # n /\ i + 1 \in 1 .. n /\ i + 1 \in 2 .. n /\ (i + 1) - 1 = i
    BY <1>0, <1>6
  <2>2. x \in Elements /\ v \in Nat /\ k \in 1 .. Len(lowers[x]) /\ Len(lowers[x]) \in Nat
    BY <1>1, <1>14, <2>1, LowersListed
  <2>3. lowers[x][k] \in F <=> k <= v - 1
    BY <2>1, <2>2 DEF Walk
  <2>4. v \in 1 .. Len(lowers[x]) /\ lowers[x][v] = s[i + 1].element
    BY <2>1 DEF Walk
  <2>5. CASE i = n - 1
    <3>1. i + 1 = n
      BY <1>0, <2>5
    <3>2. lowers[x][v] = e
      BY <2>4, <3>1
    <3>3. \A l \in 1 .. Len(lowers[x]) : lowers[x][l] = lowers[x][v] => l = v
      BY <2>2, <2>4, LowersListed
    <3>4. lowers[x][k] = e <=> k = v
      BY <2>2, <3>2, <3>3
    <3>5. lowers[x][k] \in G <=> k <= v - 1 \/ k = v
      BY <2>3, <3>4
    <3> HIDE DEF x, v, G
    <3>6. lowers[x][k] \in G <=> k <= v
      BY <2>2, <3>5
    <3> QED BY <2>1, <2>5, <3>6 DEF x, v
  <2>6. CASE i # n - 1
    <3>1. lowers[x][k] # e
      <4>1. lowers[x][k] \in Below(x)
        BY <2>2, LowersListed
      <4>2. Depth(lowers[x][k]) = Depth(x) + 1
        BY <2>2, <4>1, BelowIs
      <4>3. Depth(x) = i - 1
        BY <1>1, <2>1
      <4>4. i \in Int /\ i + 1 # n
        BY <1>0, <2>6
      <4> HIDE DEF x, n
      <4>5. Depth(lowers[x][k]) = i
        BY <4>2, <4>3, <4>4
      <4>6. i # n - 1
        BY <1>0, <4>4
      <4> HIDE DEF e
      <4> QED BY <1>2, <4>5, <4>6
    <3> QED BY <2>1, <2>3, <2>6, <3>1
  <2> QED BY <2>5, <2>6
<1>15. Walk(t, G)
  <2>1. G \in SUBSET Elements
    BY <1>1, <1>2
  <2>2. \A i \in 1 .. Len(t) : Depth(t[i].element) = i - 1
    <3> TAKE i \in 1 .. Len(t)
    <3>1. i \in 1 .. n - 1 /\ i \in 1 .. n
      BY <1>0, <1>6
    <3> QED BY <1>1, <1>6, <3>1
  <2>3. \A i \in 1 .. Len(t) : \A k \in 1 .. Len(lowers[t[i].element]) :
          lowers[t[i].element][k] \in G <=> k <= IF i = Len(t) THEN t[i].visited ELSE t[i].visited - 1
    BY <1>6, <1>14
  <2> HIDE DEF G
  <2> QED BY <1>6, <1>9, <1>10, <1>11, <1>12, <1>13, <2>1, <2>2, <2>3 DEF Walk
<1>16. G \cup OnStack(t) = F \cup OnStack(s)
  BY <1>7
<1> QED BY <1>2, <1>3, <1>4, <1>5, <1>15, <1>16 DEF t

-----------------------------------------------------------------------------
(* The node_data.                                                          *)

IsData(x) ==
  x = [father |-> x.father, children |-> x.children, input_rates |-> x.input_rates,
       output_rates |-> x.output_rates, queues |-> x.queues]

\* y is x with other figures.
Refigured(x, y) == IsData(y) /\ y.father = x.father /\ y.children = x.children

DataOf(father, children, in, out, queues) ==
  [father |-> father, children |-> children, input_rates |-> in, output_rates |-> out, queues |-> queues]

\* The assignments of compute_data to a node_data.
WithChildren(x, v)   == [x EXCEPT !.children = v]
WithQueues(x, v)     == [x EXCEPT !.queues = v]
WithIn(x, v)         == [x EXCEPT !.input_rates = v]
WithOut(x, v)        == [x EXCEPT !.output_rates = v]
WithRates(x, v, w)   == [x EXCEPT !.input_rates = v, !.output_rates = w]
WithCommandIn(x, v)  == [x EXCEPT !.input_rates["COMMAND"] = v]
WithCommandOut(x, v) == [x EXCEPT !.output_rates["COMMAND"] = v]
WithCommands(x, v, w) == [x EXCEPT !.input_rates["COMMAND"] = v, !.output_rates["COMMAND"] = w]
Commanded(f, v)      == [f EXCEPT !["COMMAND"] = v]

LEMMA DataReplaced ==
  ASSUME NEW f, NEW k, NEW a, NEW b, NEW q, NEW x, x = DataOf(f, k, a, b, q), NEW v
  PROVE  /\ WithChildren(x, v) = DataOf(f, v, a, b, q)
         /\ WithQueues(x, v) = DataOf(f, k, a, b, v)
         /\ WithIn(x, v) = DataOf(f, k, v, b, q)
         /\ WithOut(x, v) = DataOf(f, k, a, v, q)
         /\ WithCommandIn(x, v) = DataOf(f, k, Commanded(a, v), b, q)
         /\ WithCommandOut(x, v) = DataOf(f, k, a, Commanded(b, v), q)
<1>1. WithChildren(x, v) = DataOf(f, v, a, b, q)
  BY DEF DataOf, WithChildren
<1>2. WithQueues(x, v) = DataOf(f, k, a, b, v)
  BY DEF DataOf, WithQueues
<1>3. WithIn(x, v) = DataOf(f, k, v, b, q)
  BY DEF DataOf, WithIn
<1>4. WithOut(x, v) = DataOf(f, k, a, v, q)
  BY DEF DataOf, WithOut
<1>5. WithCommandIn(x, v) = DataOf(f, k, Commanded(a, v), b, q)
  BY DEF DataOf, WithCommandIn, Commanded
<1>6. WithCommandOut(x, v) = DataOf(f, k, a, Commanded(b, v), q)
  BY DEF DataOf, WithCommandOut, Commanded
<1> QED BY <1>1, <1>2, <1>3, <1>4, <1>5, <1>6

LEMMA BothReplaced ==
  ASSUME NEW f, NEW k, NEW a, NEW b, NEW q, NEW x, x = DataOf(f, k, a, b, q), NEW v, NEW w
  PROVE  /\ WithRates(x, v, w) = DataOf(f, k, v, w, q)
         /\ WithCommands(x, v, w) = DataOf(f, k, Commanded(a, v), Commanded(b, w), q)
<1>1. WithRates(x, v, w) = WithOut(WithIn(x, v), w)
  BY DEF WithRates, WithOut, WithIn
<1>2. WithCommands(x, v, w) = WithCommandOut(WithCommandIn(x, v), w)
  BY DEF WithCommands, WithCommandOut, WithCommandIn
<1>3. WithOut(WithIn(x, v), w) = DataOf(f, k, v, w, q)
  BY DataReplaced
<1>4. WithCommandOut(WithCommandIn(x, v), w) = DataOf(f, k, Commanded(a, v), Commanded(b, w), q)
  BY DataReplaced
<1> QED BY <1>1, <1>2, <1>3, <1>4

LEMMA DataIs ==
  ASSUME NEW x
  PROVE  IsData(x) <=> x = DataOf(x.father, x.children, x.input_rates, x.output_rates, x.queues)
BY DEF IsData, DataOf

LEMMA DataParts ==
  ASSUME NEW f, NEW k, NEW a, NEW b, NEW q
  PROVE  LET x == DataOf(f, k, a, b, q)
         IN  IsData(x) /\ x.father = f /\ x.children = k /\ x.input_rates = a /\ x.output_rates = b /\ x.queues = q
BY DEF IsData, DataOf

\* ... and with the same queues.
SameQueues(x, y) == Refigured(x, y) /\ y.queues = x.queues

LEMMA DataRefigured ==
  ASSUME NEW x, IsData(x)
  PROVE  /\ SameQueues(x, x)
         /\ \A v : /\ Refigured(x, WithQueues(x, v))
                   /\ SameQueues(x, WithOut(x, v))
                   /\ SameQueues(x, WithCommandIn(x, v))
                   /\ SameQueues(x, WithCommandOut(x, v))
         /\ \A v, w : SameQueues(x, WithRates(x, v, w)) /\ SameQueues(x, WithCommands(x, v, w))
<1> DEFINE f == x.father
           k == x.children
           a == x.input_rates
           b == x.output_rates
           q == x.queues
<1>1. x = DataOf(f, k, a, b, q)
  BY DataIs
<1>2. \A in, out : SameQueues(x, DataOf(f, k, in, out, q))
  <2> TAKE in, out
  <2> QED BY DataParts DEF SameQueues, Refigured
<1>3. \A v : Refigured(x, DataOf(f, k, a, b, v))
  <2> TAKE v
  <2> QED BY DataParts DEF Refigured
<1> HIDE DEF f, k, a, b, q
<1>4. SameQueues(x, x)
  BY <1>1, <1>2
<1>5. \A v : Refigured(x, WithQueues(x, v)) /\ SameQueues(x, WithOut(x, v))
  BY <1>1, <1>2, <1>3, DataReplaced
<1>6. \A v : SameQueues(x, WithCommandIn(x, v)) /\ SameQueues(x, WithCommandOut(x, v))
  BY <1>1, <1>2, DataReplaced
<1>7. \A v, w : SameQueues(x, WithRates(x, v, w)) /\ SameQueues(x, WithCommands(x, v, w))
  BY <1>1, <1>2, BothReplaced
<1> QED BY <1>4, <1>5, <1>6, <1>7

\* Rates and CommandRates assign to the rates only.
LEMMA RatesAre ==
  ASSUME TreeOk, NEW e \in Elements, NEW d
  PROVE  /\ e \in Devices => Rates(d, e) = WithOut(d[e], OwnRates(e))
         /\ e \in Kind(LAN) => Rates(d, e) = WithOut(d[e], OfDevices(d, e))
         /\ e \in Kind(WAN) => Rates(d, e) = WithOut(d[e], FromChildren(d, e))
         /\ e \in Kind(NODE) =>
              LET in == Among(Upward, FromChildren(d, e))
              IN  Rates(d, e) = WithRates(d[e], in, SentUp(e, in))
<1>1. CASE e \in Devices
  <2>1. tree.kind[e] \in {SENSOR, ACTUATOR} /\ e \notin Kind(LAN) /\ e \notin Kind(WAN) /\ e \notin Kind(NODE)
    BY <1>1, KindsApart DEF Devices, Kind
  <2>2. tree.kind[e] # WAN /\ tree.kind[e] # LAN /\ tree.kind[e] # NODE
    BY <2>1 DEF LAN, WAN, NODE, SENSOR, ACTUATOR
  <2>3. Rates(d, e) = WithOut(d[e], OwnRates(e))
    BY <2>1, <2>2 DEF Rates, WithOut
  <2> QED BY <2>1, <2>3
<1>2. CASE e \in Kind(LAN)
  <2>1. tree.kind[e] = LAN /\ tree.kind[e] \notin {SENSOR, ACTUATOR} /\ e \notin Devices /\ e \notin Kind(WAN) /\ e \notin Kind(NODE)
    BY <1>2, KindsApart DEF Kind, LAN, SENSOR, ACTUATOR
  <2>2. tree.kind[e] # WAN /\ tree.kind[e] # NODE
    BY <2>1 DEF LAN, WAN, NODE
  <2>3. Rates(d, e) = WithOut(d[e], OfDevices(d, e))
    BY <2>1, <2>2 DEF Rates, WithOut
  <2> QED BY <2>1, <2>3
<1>3. CASE e \in Kind(WAN)
  <2>1. tree.kind[e] = WAN /\ tree.kind[e] \notin {SENSOR, ACTUATOR} /\ tree.kind[e] # LAN
        /\ e \notin Devices /\ e \notin Kind(LAN) /\ e \notin Kind(NODE)
    BY <1>3, KindsApart DEF Kind, LAN, WAN, SENSOR, ACTUATOR
  <2> QED BY <2>1 DEF Rates, WithOut
<1>4. CASE e \in Kind(NODE)
  <2>1. tree.kind[e] = NODE /\ tree.kind[e] \notin {SENSOR, ACTUATOR} /\ tree.kind[e] # LAN /\ tree.kind[e] # WAN
        /\ e \notin Devices /\ e \notin Kind(LAN) /\ e \notin Kind(WAN)
    BY <1>4, KindsApart DEF Kind, LAN, WAN, NODE, SENSOR, ACTUATOR
  <2> QED BY <2>1 DEF Rates, NodeRates, WithRates
<1>5. e \in Kind(NODE) \cup Kind(WAN) \cup Kind(LAN) \cup Devices
  BY TreeShape, KindsApart
<1> QED BY <1>1, <1>2, <1>3, <1>4, <1>5

LEMMA CommandsAre ==
  ASSUME NEW e, NEW d
  PROVE  \/ Is(e, CENTRAL) /\ CommandRates(d, e) = WithCommandOut(d[e], Generated(d, e))
         \/ /\ e \in Kind(NODE) \ Nodes(CENTRAL)
            /\ CommandRates(d, e) = WithCommands(d[e], Share(d, e), Share(d, e) ++ Generated(d, e))
         \/ tree.kind[e] \in {LAN, ACTUATOR} /\ CommandRates(d, e) = WithCommandIn(d[e], Share(d, e))
         \/ tree.kind[e] = WAN /\ CommandRates(d, e) = WithOut(d[e], FromChildren(d, e))
         \/ CommandRates(d, e) = d[e]
<1> DEFINE g == Generated(d, e)
           h == Share(d, e)
           k == FromChildren(d, e)
           s == h ++ g
<1>1. CommandRates(d, e) =
        CASE Is(e, CENTRAL) -> WithCommandOut(d[e], g)
          [] e \in Kind(NODE) \ Nodes(CENTRAL) -> WithCommands(d[e], h, s)
          [] tree.kind[e] \in {LAN, ACTUATOR} -> WithCommandIn(d[e], h)
          [] tree.kind[e] = WAN -> WithOut(d[e], k)
          [] OTHER -> d[e]
  BY DEF CommandRates, WithCommandOut, WithCommands, WithCommandIn, WithOut
<1> HIDE DEF g, h, k, s
<1>2. \/ Is(e, CENTRAL) /\ CommandRates(d, e) = WithCommandOut(d[e], g)
      \/ e \in Kind(NODE) \ Nodes(CENTRAL) /\ CommandRates(d, e) = WithCommands(d[e], h, s)
      \/ tree.kind[e] \in {LAN, ACTUATOR} /\ CommandRates(d, e) = WithCommandIn(d[e], h)
      \/ tree.kind[e] = WAN /\ CommandRates(d, e) = WithOut(d[e], k)
      \/ CommandRates(d, e) = d[e]
  BY <1>1
<1> QED BY <1>2 DEF g, h, k, s

LEMMA RatesRefigure ==
  ASSUME TreeOk, NEW e \in Elements, NEW d, IsData(d[e])
  PROVE  SameQueues(d[e], Rates(d, e))
<1>1. \/ \E v : Rates(d, e) = WithOut(d[e], v)
      \/ \E v, w : Rates(d, e) = WithRates(d[e], v, w)
  <2>1. e \in Kind(NODE) \cup Kind(WAN) \cup Kind(LAN) \cup Devices
    BY TreeShape, KindsApart
  <2> QED BY <2>1, RatesAre
<1> QED BY <1>1, DataRefigured

LEMMA CommandsRefigure ==
  ASSUME NEW e, NEW d, IsData(d[e])
  PROVE  SameQueues(d[e], CommandRates(d, e))
BY CommandsAre, DataRefigured

LEMMA SolvedRefigures == ASSUME NEW e, NEW x, IsData(x) PROVE Refigured(x, Solved(e, x))
<1>1. \E v : Solved(e, x) = WithQueues(x, v)
  BY DEF Solved, WithQueues
<1> QED BY <1>1, DataRefigured

LEMMA ComputeRefigures ==
  ASSUME TreeOk, NEW e \in Elements, NEW d, IsData(d[e]), e \in DOMAIN d, NEW v
  PROVE  /\ DOMAIN ComputeData(d, e, v) = DOMAIN d
         /\ Refigured(d[e], ComputeData(d, e, v)[e])
         /\ \A x \in DOMAIN d \ {e} : ComputeData(d, e, v)[x] = d[x]
<1> DEFINE r == Rates(d, e)
           c == Solved(e, CommandRates(d, e))
           y == IF v = "GRAPH_COMPUTE_RATES" THEN r ELSE c
<1>1. Refigured(d[e], r)
  BY RatesRefigure DEF SameQueues
<1>2. Refigured(d[e], c)
  <2>1. Refigured(d[e], CommandRates(d, e))
    BY CommandsRefigure DEF SameQueues
  <2>2. Refigured(CommandRates(d, e), c)
    BY <2>1, SolvedRefigures DEF Refigured
  <2> QED BY <2>1, <2>2 DEF Refigured
<1>3. ComputeData(d, e, v) = [d EXCEPT ![e] = y]
  BY DEF ComputeData
<1> HIDE DEF r, c
<1>4. Refigured(d[e], y)
  BY <1>1, <1>2
<1> HIDE DEF y
<1> QED BY <1>3, <1>4

\* The structure of x, with its place in the tree.
Linked(x, e, kids) == IsData(x) /\ x.father = tree.upper[e] /\ x.children = kids

LEMMA StillLinked ==
  ASSUME NEW x, NEW y, NEW e, NEW kids, Linked(x, e, kids), Refigured(x, y)
  PROVE  Linked(y, e, kids)
BY DEF Linked, Refigured

\* What is allocated when a visit has entered the elements E and left F.
DataOk(v, E, F, d) ==
  /\ v = "GRAPH_COMPUTE_RATES" =>
       /\ DOMAIN d = {x \in Elements : x = 0 \/ tree.upper[x] \in E}
       /\ \A x \in DOMAIN d : Linked(d[x], x, IF x \in E THEN lowers[x] ELSE <<>>)
  /\ v = "GRAPH_COMPUTE_COMMANDS" =>
       /\ DOMAIN d = Elements
       /\ \A x \in Elements : Linked(d[x], x, lowers[x])
  /\ v = "GRAPH_PRINT_DATA" =>
       /\ DOMAIN d = {x \in Elements : x = 0 \/ tree.upper[x] \notin F}
       /\ \A x \in DOMAIN d \ F : Linked(d[x], x, lowers[x])

Visits == {"GRAPH_COMPUTE_RATES", "GRAPH_COMPUTE_COMMANDS", "GRAPH_PRINT_DATA"}

LEMMA DataEntered ==
  ASSUME TreeOk, LowersOk, NEW v \in Visits, NEW E, NEW F, NEW d, DataOk(v, E, F, d),
         NEW e \in Elements, e = 0 \/ tree.upper[e] \in E, e \notin E, Below(e) \cap (E \cup {e}) = {}
  PROVE  DataOk(v, E \cup {e}, F, Entered(d, e, v))
<1> DEFINE G == E \cup {e}
<1>1. CASE v = "GRAPH_COMPUTE_RATES"
  <2> DEFINE c == Entered(d, e, v)
  <2>1. NodesToVisit(e) = lowers[e] /\ Range(NodesToVisit(e)) = Below(e)
    BY VisitsAreLowers, LowersListed
  <2>2. c = [x \in DOMAIN d \cup Below(e) |->
               IF x \in Below(e) THEN InitNodeData(x, e)
               ELSE IF x = e THEN [d[x] EXCEPT !.children = lowers[e]] ELSE d[x]]
    BY <1>1, <2>1 DEF Entered
  <2> HIDE DEF c
  <2>3. /\ DOMAIN d = {x \in Elements : x = 0 \/ tree.upper[x] \in E}
        /\ \A x \in DOMAIN d : Linked(d[x], x, IF x \in E THEN lowers[x] ELSE <<>>)
    BY <1>1 DEF DataOk
  <2>4. DOMAIN c = {x \in Elements : x = 0 \/ tree.upper[x] \in G}
    BY <2>2, <2>3 DEF Below
  <2>5. ASSUME NEW x \in DOMAIN c PROVE Linked(c[x], x, IF x \in G THEN lowers[x] ELSE <<>>)
    <3>1. CASE x \in Below(e)
      <4>1. x \notin G /\ tree.upper[x] = e
        BY <3>1 DEF Below
      <4>2. c[x] = InitNodeData(x, e)
        BY <2>2, <3>1
      <4>3. Linked(InitNodeData(x, e), x, <<>>)
        BY <4>1 DEF InitNodeData, Linked, IsData
      <4> QED BY <4>1, <4>2, <4>3
    <3>2. CASE x = e
      <4>1. x \notin Below(e) /\ x \in DOMAIN d /\ x \in G
        BY <2>3, <3>2
      <4>2. c[x] = [d[x] EXCEPT !.children = lowers[e]]
        BY <2>2, <3>2, <4>1
      <4>3. IsData(d[x]) /\ d[x].father = tree.upper[x]
        BY <2>3, <4>1 DEF Linked
      <4>4. Linked(c[x], x, lowers[x])
        BY <3>2, <4>2, <4>3 DEF Linked, IsData
      <4> QED BY <4>1, <4>4
    <3>3. CASE x \notin Below(e) /\ x # e
      <4>1. x \in DOMAIN d /\ c[x] = d[x] /\ (x \in G <=> x \in E)
        BY <2>2, <3>3
      <4> QED BY <2>3, <4>1
    <3> QED BY <3>1, <3>2, <3>3
  <2> QED BY <1>1, <2>4, <2>5 DEF DataOk, c
<1>2. CASE v = "GRAPH_COMPUTE_COMMANDS"
  <2> DEFINE c == ComputeData(d, e, v)
  <2>1. Entered(d, e, v) = c
    BY <1>2 DEF Entered
  <2>2. DOMAIN d = Elements /\ \A x \in Elements : Linked(d[x], x, lowers[x])
    BY <1>2 DEF DataOk
  <2>3. DOMAIN c = DOMAIN d /\ Refigured(d[e], c[e]) /\ \A x \in DOMAIN d \ {e} : c[x] = d[x]
    BY <2>2, ComputeRefigures DEF Linked
  <2> HIDE DEF c
  <2>4. \A x \in Elements : Linked(c[x], x, lowers[x])
    BY <2>2, <2>3, StillLinked
  <2> QED BY <1>2, <2>1, <2>2, <2>3, <2>4 DEF DataOk
<1>3. CASE v = "GRAPH_PRINT_DATA"
  <2>1. Entered(d, e, v) = d
    BY <1>3 DEF Entered
  <2> QED BY <1>3, <2>1 DEF DataOk
<1> QED BY <1>1, <1>2, <1>3 DEF Visits

LEMMA DataLeft ==
  ASSUME TreeOk, LowersOk, NEW v \in Visits, NEW E, NEW F, NEW d, DataOk(v, E, F, d),
         NEW e \in Elements, e = 0 \/ tree.upper[e] \in E \ F, e \in E \ F
  PROVE  DataOk(v, E, F \cup {e}, Left(d, e, v)) /\ Linked(d[e], e, lowers[e]) /\ e \in DOMAIN d
<1> DEFINE G == F \cup {e}
<1>1. CASE v = "GRAPH_COMPUTE_RATES"
  <2> DEFINE c == ComputeData(d, e, v)
  <2>1. Left(d, e, v) = c
    BY <1>1 DEF Left
  <2>2. /\ DOMAIN d = {x \in Elements : x = 0 \/ tree.upper[x] \in E}
        /\ \A x \in DOMAIN d : Linked(d[x], x, IF x \in E THEN lowers[x] ELSE <<>>)
    BY <1>1 DEF DataOk
  <2>3. e \in DOMAIN d /\ Linked(d[e], e, lowers[e])
    BY <2>2
  <2>4. DOMAIN c = DOMAIN d /\ Refigured(d[e], c[e]) /\ \A x \in DOMAIN d \ {e} : c[x] = d[x]
    BY <2>3, ComputeRefigures DEF Linked
  <2> HIDE DEF c
  <2>5. \A x \in DOMAIN c : Linked(c[x], x, IF x \in E THEN lowers[x] ELSE <<>>)
    BY <2>2, <2>4, StillLinked
  <2> QED BY <1>1, <2>1, <2>2, <2>3, <2>4, <2>5 DEF DataOk
<1>2. CASE v = "GRAPH_COMPUTE_COMMANDS"
  <2>1. Left(d, e, v) = d
    BY <1>2 DEF Left
  <2> QED BY <1>2, <2>1 DEF DataOk
<1>3. CASE v = "GRAPH_PRINT_DATA"
  <2> DEFINE c == FreeNodeData(d, e)
  <2>1. Left(d, e, v) = c
    BY <1>3 DEF Left
  <2>2. /\ DOMAIN d = {x \in Elements : x = 0 \/ tree.upper[x] \notin F}
        /\ \A x \in DOMAIN d \ F : Linked(d[x], x, lowers[x])
    BY <1>3 DEF DataOk
  <2>3. e \in DOMAIN d /\ Linked(d[e], e, lowers[e])
    BY <2>2
  <2>4. Children(d, e) = Below(e)
    BY <2>3, LowersListed DEF Children, Linked
  <2>5. c = [x \in DOMAIN d \ Below(e) |-> IF x = e THEN Freed ELSE d[x]]
    BY <2>4 DEF FreeNodeData
  <2> HIDE DEF c
  <2>6. DOMAIN c = {x \in Elements : x = 0 \/ tree.upper[x] \notin G}
    <3>1. 0 \notin Below(e)
      BY BelowIs
    <3> QED BY <2>2, <2>5, <3>1 DEF Below
  <2>7. \A x \in DOMAIN c \ G : x \in DOMAIN d \ F /\ c[x] = d[x]
    BY <2>5
  <2>8. \A x \in DOMAIN c \ G : Linked(c[x], x, lowers[x])
    BY <2>2, <2>7
  <2> HIDE DEF G
  <2>9. DataOk(v, E, G, c)
    BY <1>3, <2>6, <2>8 DEF DataOk
  <2> QED BY <2>1, <2>3, <2>9 DEF G
<1> QED BY <1>1, <1>2, <1>3 DEF Visits

-----------------------------------------------------------------------------
(* What has been written when the visit that prints has left F.            *)

Ids(j) == [i \in 1 .. Len(j) |-> j[i].id]
Printed(F) == {x \in F : IsPrinted(x)}

JsonOk(j, F) ==
  /\ j \in Seq(Range(j))
  /\ IsListing(Ids(j), Printed(F))
  /\ \A i \in 1 .. Len(j) : j[i].comma = (j[i].id # 0)
  /\ \A i, k \in 1 .. Len(j) : j[i].id \in Above(j[k].id) => k < i

LEMMA CentralIs == ASSUME TreeOk PROVE FindCentral = 0
<1>1. Nodes(CENTRAL) = {0}
  BY TreeShape
<1> QED BY <1>1 DEF FindCentral

LEMMA JsonEmpty == JsonOk(<<>>, {})
<1>1. Ids(<<>>) = <<>> /\ Printed({}) = {}
  BY DEF Ids, Printed
<1>2. IsListing(Ids(<<>>), Printed({}))
  BY <1>1, ListingEmpty
<1>3. <<>> \in Seq(Range(<<>>)) /\ 1 .. Len(<<>>) = {}
  OBVIOUS
<1> QED BY <1>2, <1>3 DEF JsonOk

LEMMA JsonGrows ==
  ASSUME TreeOk, NEW j, NEW F \in SUBSET Elements, JsonOk(j, F),
         NEW e \in Elements \ F, Above(e) \cap F = {}, IsPrinted(e), NEW x
  PROVE  JsonOk(Append(j, Entry(x, e)), F \cup {e})
<1> DEFINE n == Len(j)
           g == Append(j, Entry(x, e))
           G == F \cup {e}
<1>1. /\ j \in Seq(Range(j)) /\ n \in Nat /\ DOMAIN j = 1 .. n
      /\ IsListing(Ids(j), Printed(F))
      /\ \A i \in 1 .. n : j[i].comma = (j[i].id # 0)
      /\ \A i, k \in 1 .. n : j[i].id \in Above(j[k].id) => k < i
  BY LenProperties DEF JsonOk
<1>2. Entry(x, e).id = e /\ Entry(x, e).comma = (e # 0)
  BY CentralIs DEF Entry
<1>3. /\ g \in Seq(Range(g)) /\ Len(g) = n + 1 /\ g[n + 1] = Entry(x, e)
      /\ \A i \in 1 .. n : g[i] = j[i]
  <2> DEFINE y == Entry(x, e)
             S == Range(j) \cup {y}
  <2> HIDE DEF y
  <2>1. j \in Seq(S) /\ y \in S
    <3>1. Range(j) \subseteq S
      OBVIOUS
    <3> QED BY <1>1, <3>1, SeqMonotonic
  <2> HIDE DEF S
  <2>2. /\ Append(j, y) \in Seq(S) /\ Len(Append(j, y)) = n + 1 /\ Append(j, y)[n + 1] = y
        /\ \A i \in 1 .. n : Append(j, y)[i] = j[i]
    BY <2>1, AppendProperties
  <2>3. g = Append(j, y)
    BY DEF y
  <2> HIDE DEF g
  <2>4. DOMAIN g = 1 .. Len(g) /\ Len(g) \in Nat /\ g = [i \in 1 .. Len(g) |-> g[i]]
    BY <2>2, <2>3, LenProperties
  <2>5. \A i \in 1 .. Len(g) : g[i] \in Range(g)
    BY <2>4 DEF Range
  <2>6. g \in [1 .. Len(g) -> Range(g)]
    BY <2>4, <2>5
  <2>7. g \in Seq(Range(g))
    BY <2>4, <2>6
  <2> QED BY <2>2, <2>3, <2>7 DEF y
<1> HIDE DEF g
<1>4. \A i \in 1 .. n + 1 : i \in 1 .. n \/ i = n + 1
  BY <1>1
<1>5. \A i \in 1 .. n : i \in 1 .. n + 1 /\ g[i].id = j[i].id /\ g[i].id \in Printed(F) /\ g[i].id \in F
  <2> TAKE i \in 1 .. n
  <2>1. Ids(j)[i] = j[i].id /\ Len(Ids(j)) = n
    BY <1>1 DEF Ids
  <2>2. Ids(j)[i] \in Printed(F)
    BY <1>1, <2>1, ListingParts
  <2> QED BY <1>1, <1>3, <2>1, <2>2 DEF Printed
<1>6. Printed(G) = Printed(F) \cup {e}
  BY DEF Printed
<1>7. IsListing(Ids(g), Printed(G))
  <2> DEFINE s == Ids(g)
  <2>1. s = [i \in 1 .. n + 1 |-> g[i].id]
    BY <1>3 DEF Ids
  <2> HIDE DEF s, G
  <2>2. \A i \in 1 .. n + 1 : s[i] \in Printed(G)
    BY <1>2, <1>3, <1>4, <1>5, <1>6, <2>1
  <2>3. s \in [1 .. n + 1 -> Printed(G)]
    BY <2>1, <2>2
  <2>4. n + 1 \in Nat
    BY <1>1
  <2>5. s \in Seq(Printed(G)) /\ Len(s) = n + 1
    <3> HIDE DEF n
    <3> QED BY <2>3, <2>4
  <2>6. /\ Len(Ids(j)) = n /\ \A i \in 1 .. n : Ids(j)[i] = j[i].id
        /\ \A i \in 1 .. n : s[i] = j[i].id
    BY <1>1, <1>5, <2>1 DEF Ids
  <2>7. n + 1 \in 1 .. n + 1 /\ s[n + 1] = e
    BY <1>1, <1>2, <1>3, <2>1
  <2>8. \A y \in Printed(G) : \E i \in 1 .. n + 1 : s[i] = y
    <3> SUFFICES ASSUME NEW y \in Printed(G) PROVE \E i \in 1 .. n + 1 : s[i] = y
      OBVIOUS
    <3>1. CASE y = e
      BY <2>7, <3>1
    <3>2. CASE y \in Printed(F)
      <4>1. PICK i \in 1 .. n : Ids(j)[i] = y
        BY <1>1, <2>6, <3>2, ListingParts
      <4> QED BY <1>5, <2>6, <4>1
    <3> QED BY <1>6, <3>1, <3>2
  <2>9. \A i, k \in 1 .. n + 1 : s[i] = s[k] => i = k
    <3> SUFFICES ASSUME NEW i \in 1 .. n + 1, NEW k \in 1 .. n + 1, s[i] = s[k] PROVE i = k
      OBVIOUS
    <3>1. \A l \in 1 .. n : s[l] # e
      BY <1>5, <2>1
    <3>2. CASE i \in 1 .. n /\ k \in 1 .. n
      <4>1. Ids(j)[i] = Ids(j)[k]
        BY <2>6, <3>2
      <4> QED BY <1>1, <2>6, <3>2, <4>1, ListingParts
    <3> QED BY <1>4, <2>7, <3>1, <3>2
  <2> QED BY <2>5, <2>8, <2>9 DEF IsListing, s
<1>8. \A i \in 1 .. n + 1 : g[i].comma = (g[i].id # 0)
  BY <1>1, <1>2, <1>3, <1>4
<1>9. \A i, k \in 1 .. n + 1 : g[i].id \in Above(g[k].id) => k < i
  <2> SUFFICES ASSUME NEW i \in 1 .. n + 1, NEW k \in 1 .. n + 1, g[i].id \in Above(g[k].id) PROVE k < i
    OBVIOUS
  <2>1. CASE k = n + 1
    <3>1. g[k].id = e /\ e \notin Above(e)
      BY <1>2, <1>3, <2>1, WayUp
    <3>2. g[i].id \notin F /\ g[i].id # e
      BY <2>1, <3>1
    <3> QED BY <1>2, <1>3, <1>4, <1>5, <3>2
  <2>2. CASE k \in 1 .. n /\ i = n + 1
    BY <1>1, <2>2
  <2>3. CASE k \in 1 .. n /\ i \in 1 .. n
    BY <1>1, <1>5, <2>3
  <2> QED BY <1>4, <2>1, <2>2, <2>3
<1> QED BY <1>3, <1>7, <1>8, <1>9 DEF JsonOk, g

-----------------------------------------------------------------------------
(* The figures of a visit.                                                 *)

\* The queues of x, the structure of element e, have been solved once.
SolvedOnce(x, e) ==
  /\ DOMAIN x.queues = DOMAIN Queues(e)
  /\ \A q \in DOMAIN x.queues : x.queues[q] = Solve(e, q, Queues(e)[q], Offered(x, q))

LEMMA FreshSolved ==
  ASSUME NEW e, NEW x, IsData(x), x.queues = Queues(e)
  PROVE  SolvedOnce(Solved(e, x), e)
<1> DEFINE v == [q \in DOMAIN x.queues |-> Solve(e, q, x.queues[q], Offered(x, q))]
           y == Solved(e, x)
<1>1. y = WithQueues(x, v)
  BY DEF Solved, WithQueues
<1>2. x = DataOf(x.father, x.children, x.input_rates, x.output_rates, x.queues)
  BY DataIs
<1> HIDE DEF y
<1>3. DOMAIN v = DOMAIN x.queues /\ \A q \in DOMAIN x.queues : v[q] = Solve(e, q, x.queues[q], Offered(x, q))
  OBVIOUS
<1> HIDE DEF v
<1>4. y.input_rates = x.input_rates /\ y.output_rates = x.output_rates /\ y.queues = v
  <2>1. y = DataOf(x.father, x.children, x.input_rates, x.output_rates, v)
    BY <1>1, <1>2, DataReplaced
  <2> QED BY <2>1, DataParts
<1>5. \A q : Offered(y, q) = Offered(x, q)
  BY <1>4 DEF Offered
<1>6. SolvedOnce(y, e)
  BY <1>3, <1>4, <1>5 DEF SolvedOnce
<1> QED BY <1>6 DEF y

\* The figures when a visit has entered the elements E and left F: the second visit
\* finds every queue as it was allocated, and solves it once.
FiguresOk(v, E, F, d) ==
  /\ v = "GRAPH_COMPUTE_RATES" => \A x \in DOMAIN d : d[x].queues = Queues(x)
  /\ v = "GRAPH_COMPUTE_COMMANDS" =>
       \A x \in Elements : IF x \in E THEN SolvedOnce(d[x], x) ELSE d[x].queues = Queues(x)
  /\ v = "GRAPH_PRINT_DATA" => \A x \in DOMAIN d \ F : SolvedOnce(d[x], x)

LEMMA FiguresEntered ==
  ASSUME TreeOk, LowersOk, TypesOk, NEW v \in Visits, NEW E, NEW F, NEW d, DataOk(v, E, F, d), FiguresOk(v, E, F, d),
         NEW e \in Elements, e = 0 \/ tree.upper[e] \in E, e \notin E
  PROVE  FiguresOk(v, E \cup {e}, F, Entered(d, e, v))
<1>1. CASE v = "GRAPH_COMPUTE_RATES"
  <2> DEFINE c == Entered(d, e, v)
  <2>1. NodesToVisit(e) = lowers[e] /\ Range(NodesToVisit(e)) = Below(e)
    BY VisitsAreLowers, LowersListed
  <2>2. c = [x \in DOMAIN d \cup Below(e) |->
               IF x \in Below(e) THEN InitNodeData(x, e)
               ELSE IF x = e THEN WithChildren(d[x], lowers[e]) ELSE d[x]]
    BY <1>1, <2>1 DEF Entered, WithChildren
  <2> HIDE DEF c
  <2>3. \A x \in DOMAIN d : d[x].queues = Queues(x)
    BY <1>1 DEF FiguresOk
  <2>4. ASSUME NEW x \in DOMAIN c PROVE c[x].queues = Queues(x)
    <3>1. CASE x \in Below(e)
      <4>1. c[x] = InitNodeData(x, e)
        BY <2>2, <3>1
      <4>2. InitNodeData(x, e).queues = Queues(x)
        BY DEF InitNodeData
      <4> QED BY <4>1, <4>2
    <3>2. CASE x \notin Below(e) /\ x = e
      <4> DEFINE y == WithChildren(d[x], lowers[e])
      <4>1. c[x] = y /\ x \in DOMAIN d
        BY <2>2, <3>2
      <4>2. IsData(d[x]) /\ d[x].queues = Queues(x)
        BY <1>1, <2>3, <4>1 DEF DataOk, Linked
      <4>3. d[x] = DataOf(d[x].father, d[x].children, d[x].input_rates, d[x].output_rates, d[x].queues)
        BY <4>2, DataIs
      <4>4. y = DataOf(d[x].father, lowers[e], d[x].input_rates, d[x].output_rates, d[x].queues)
        BY <4>3, DataReplaced
      <4> HIDE DEF y
      <4>5. y.queues = d[x].queues
        BY <4>4, DataParts
      <4> QED BY <4>1, <4>2, <4>5
    <3>3. CASE x \notin Below(e) /\ x # e
      BY <2>2, <2>3, <3>3
    <3> QED BY <3>1, <3>2, <3>3
  <2> QED BY <1>1, <2>4 DEF FiguresOk, c
<1>2. CASE v = "GRAPH_COMPUTE_COMMANDS"
  <2> DEFINE r == CommandRates(d, e)
             s == Solved(e, r)
             c == [d EXCEPT ![e] = s]
  <2>1. Entered(d, e, v) = c
    BY <1>2 DEF Entered, ComputeData
  <2>2. DOMAIN d = Elements /\ \A x \in Elements : Linked(d[x], x, lowers[x])
    BY <1>2 DEF DataOk
  <2>3. \A x \in Elements : IF x \in E THEN SolvedOnce(d[x], x) ELSE d[x].queues = Queues(x)
    BY <1>2 DEF FiguresOk
  <2>4. SameQueues(d[e], r)
    BY <2>2, CommandsRefigure DEF Linked
  <2>5. IsData(r) /\ r.queues = Queues(e)
    BY <2>3, <2>4 DEF SameQueues, Refigured
  <2> HIDE DEF r
  <2>6. SolvedOnce(s, e)
    BY <2>5, FreshSolved
  <2> HIDE DEF s
  <2>7. c[e] = s /\ \A x \in Elements \ {e} : c[x] = d[x]
    BY <2>2
  <2> HIDE DEF c
  <2>8. \A x \in Elements : IF x \in E \cup {e} THEN SolvedOnce(c[x], x) ELSE c[x].queues = Queues(x)
    BY <2>3, <2>6, <2>7
  <2> QED BY <1>2, <2>1, <2>8 DEF FiguresOk
<1>3. CASE v = "GRAPH_PRINT_DATA"
  <2>1. Entered(d, e, v) = d
    BY <1>3 DEF Entered
  <2> QED BY <1>3, <2>1 DEF FiguresOk
<1> QED BY <1>1, <1>2, <1>3 DEF Visits

LEMMA FiguresLeft ==
  ASSUME TreeOk, LowersOk, NEW v \in Visits, NEW E, NEW F, NEW d, DataOk(v, E, F, d), FiguresOk(v, E, F, d),
         NEW e \in Elements, e = 0 \/ tree.upper[e] \in E \ F, e \in E \ F
  PROVE  FiguresOk(v, E, F \cup {e}, Left(d, e, v)) /\ (v = "GRAPH_PRINT_DATA" => SolvedOnce(d[e], e))
<1>0. Linked(d[e], e, lowers[e]) /\ e \in DOMAIN d
  BY DataLeft
<1>1. Children(d, e) = Below(e)
  BY <1>0, LowersListed DEF Children, Linked
<1>2. CASE v = "GRAPH_COMPUTE_RATES"
  <2> DEFINE r == Rates(d, e)
             c == [d EXCEPT ![e] = r]
  <2>1. Left(d, e, v) = c
    BY <1>2 DEF Left, ComputeData
  <2>2. \A x \in DOMAIN d : d[x].queues = Queues(x)
    BY <1>2 DEF FiguresOk
  <2>3. SameQueues(d[e], r)
    BY <1>0, RatesRefigure DEF Linked
  <2>4. r.queues = Queues(e)
    BY <1>0, <2>2, <2>3 DEF SameQueues
  <2> HIDE DEF r
  <2>5. DOMAIN c = DOMAIN d /\ c[e] = r /\ \A x \in DOMAIN d \ {e} : c[x] = d[x]
    BY <1>0
  <2> HIDE DEF c
  <2>6. \A x \in DOMAIN c : c[x].queues = Queues(x)
    BY <2>2, <2>4, <2>5
  <2> QED BY <1>2, <2>1, <2>6 DEF FiguresOk
<1>3. CASE v = "GRAPH_COMPUTE_COMMANDS"
  <2>1. Left(d, e, v) = d
    BY <1>3 DEF Left
  <2> QED BY <1>3, <2>1 DEF FiguresOk
<1>4. CASE v = "GRAPH_PRINT_DATA"
  <2> DEFINE c == FreeNodeData(d, e)
             G == F \cup {e}
  <2>1. Left(d, e, v) = c
    BY <1>4 DEF Left
  <2>2. \A x \in DOMAIN d \ F : SolvedOnce(d[x], x)
    BY <1>4 DEF FiguresOk
  <2>3. c = [x \in DOMAIN d \ Below(e) |-> IF x = e THEN Freed ELSE d[x]]
    BY <1>1 DEF FreeNodeData
  <2> HIDE DEF c
  <2>4. \A x \in DOMAIN c \ G : x \in DOMAIN d \ F /\ c[x] = d[x]
    BY <2>3
  <2>5. \A x \in DOMAIN c \ G : SolvedOnce(c[x], x)
    BY <2>2, <2>4
  <2>6. SolvedOnce(d[e], e)
    BY <1>0, <2>2
  <2> HIDE DEF G
  <2>7. FiguresOk(v, E, G, c)
    BY <1>4, <2>5 DEF FiguresOk
  <2> QED BY <2>1, <2>6, <2>7 DEF G
<1> QED BY <1>2, <1>3, <1>4 DEF Visits

\* The queues that have been written were solved once.
JsonSolved(j) ==
  \A i \in 1 .. Len(j) :
    /\ DOMAIN j[i].parameters = DOMAIN Queues(j[i].id)
    /\ \A q \in DOMAIN j[i].parameters :
         j[i].parameters[q].queue = Solve(j[i].id, q, Queues(j[i].id)[q], j[i].parameters[q].lambda_in)

LEMMA JsonStaysSolved ==
  ASSUME NEW j, NEW S, j \in Seq(S), JsonSolved(j), NEW x, NEW e, SolvedOnce(x, e)
  PROVE  JsonSolved(Append(j, Entry(x, e)))
<1> DEFINE y == Entry(x, e)
           n == Len(j)
           g == Append(j, y)
<1>1. y.id = e /\ y.parameters = [q \in DOMAIN x.queues |-> [lambda_in |-> Offered(x, q), queue |-> x.queues[q]]]
  BY DEF Entry
<1>2. /\ DOMAIN y.parameters = DOMAIN Queues(y.id)
      /\ \A q \in DOMAIN y.parameters :
           y.parameters[q].queue = Solve(y.id, q, Queues(y.id)[q], y.parameters[q].lambda_in)
  BY <1>1 DEF SolvedOnce
<1> HIDE DEF y
<1>3. n \in Nat /\ Len(g) = n + 1 /\ g[n + 1] = y /\ \A i \in 1 .. n : g[i] = j[i]
  <2> DEFINE T == S \cup {y}
  <2>1. j \in Seq(T) /\ y \in T
    BY SeqMonotonic
  <2> HIDE DEF T
  <2> QED BY <2>1, AppendProperties, LenProperties
<1> HIDE DEF g
<1>4. \A i \in 1 .. n + 1 : i \in 1 .. n \/ i = n + 1
  BY <1>3
<1>5. \A i \in 1 .. n + 1 :
        /\ DOMAIN g[i].parameters = DOMAIN Queues(g[i].id)
        /\ \A q \in DOMAIN g[i].parameters :
             g[i].parameters[q].queue = Solve(g[i].id, q, Queues(g[i].id)[q], g[i].parameters[q].lambda_in)
  BY <1>2, <1>3, <1>4 DEF JsonSolved
<1> QED BY <1>3, <1>5 DEF JsonSolved, g, y

-----------------------------------------------------------------------------
(* The visit that is under way.                                            *)

UnderWay(v, s, F, d, j) ==
  /\ v \in Visits /\ Walk(s, F) /\ DataOk(v, F \cup OnStack(s), F, d)
  /\ JsonOk(j, IF v = "GRAPH_PRINT_DATA" THEN F ELSE {})
  /\ FiguresOk(v, F \cup OnStack(s), F, d) /\ JsonSolved(j)

LEMMA RootAbove ==
  ASSUME TreeOk, NEW x \in Elements, x # 0
  PROVE  0 \in Above(x)
<1>1. Depth(x) \in Nat /\ \A y \in Elements : Depth(y) \in Nat
  BY Depths
<1>2. PICK y \in {x} \cup Above(x) : Depth(y) = 0
  BY <1>1, WayUp
<1>3. y \in Elements
  BY <1>2, WayUp
<1>4. y = 0
  BY <1>2, <1>3, Depths
<1> QED BY <1>2, <1>4

LEMMA VisitStarts ==
  ASSUME TreeOk, LowersOk, TypesOk, NEW v \in Visits, NEW d, DataOk(v, {}, {}, d), FiguresOk(v, {}, {}, d),
         NEW j, JsonOk(j, {}), JsonSolved(j)
  PROVE  UnderWay(v, <<Call(0)>>, {}, Entered(d, 0, v), j)
<1>1. 0 \in Elements /\ 0 \notin Below(0)
  <2>1. 0 \in Elements
    BY ElementsAre
  <2> QED BY <2>1, BelowIs
<1>2. DataOk(v, {} \cup {0}, {}, Entered(d, 0, v))
  BY <1>1, DataEntered
<1>3. Walk(<<Call(0)>>, {}) /\ OnStack(<<Call(0)>>) = {0}
  BY WalkStarts
<1>4. FiguresOk(v, {} \cup {0}, {}, Entered(d, 0, v))
  BY <1>1, FiguresEntered
<1> QED BY <1>2, <1>3, <1>4 DEF UnderWay

\* The call on top of the stack knows its element's children.
LEMMA TopIs ==
  ASSUME TreeOk, LowersOk, NEW v, NEW s, NEW F, NEW d, NEW j, UnderWay(v, s, F, d, j), s # <<>>
  PROVE  LET e == s[Len(s)].element
         IN  /\ Len(s) \in Nat /\ Len(s) > 0 /\ e \in Elements /\ s[Len(s)].visited \in Nat
             /\ d[e].children = lowers[e]
             /\ DataOk(v, F \cup OnStack(s), F \cup {e}, Left(d, e, v))
             /\ FiguresOk(v, F \cup OnStack(s), F \cup {e}, Left(d, e, v))
             /\ v = "GRAPH_PRINT_DATA" => SolvedOnce(d[e], e)
<1> DEFINE n == Len(s)
           e == s[n].element
           E == F \cup OnStack(s)
<1>1. /\ n \in Nat /\ DOMAIN s = 1 .. n /\ s \in Seq(Calls)
      /\ \A i \in 1 .. n : s[i].element \in Elements /\ s[i].visited \in Nat
      /\ \A i \in 2 .. n : tree.upper[s[i].element] = s[i - 1].element
      /\ n > 0 => s[1].element = 0
  BY WalkParts DEF UnderWay, Walk
<1>2. n > 0
  BY <1>1
<1>3. n \in 1 .. n /\ e \in OnStack(s) /\ F \cap OnStack(s) = {}
  BY <1>1, <1>2 DEF OnStack, UnderWay, Walk
<1>4. e = 0 \/ tree.upper[e] \in OnStack(s)
  <2>1. CASE n = 1
    BY <1>1, <2>1
  <2>2. CASE n > 1
    <3>1. n \in 2 .. n /\ n - 1 \in 1 .. n
      BY <1>1, <2>2
    <3> QED BY <1>1, <3>1 DEF OnStack
  <2> QED BY <1>1, <1>2, <2>1, <2>2
<1>5. e \in E \ F /\ (e = 0 \/ tree.upper[e] \in E \ F)
  BY <1>3, <1>4
<1>6. v \in Visits /\ DataOk(v, E, F, d) /\ FiguresOk(v, E, F, d) /\ e \in Elements /\ s[n].visited \in Nat
  BY <1>1, <1>3 DEF UnderWay
<1> HIDE DEF e, E, n
<1>7. DataOk(v, E, F \cup {e}, Left(d, e, v)) /\ Linked(d[e], e, lowers[e])
  BY <1>5, <1>6, DataLeft
<1>8. d[e].children = lowers[e]
  BY <1>7 DEF Linked
<1>9. FiguresOk(v, E, F \cup {e}, Left(d, e, v)) /\ (v = "GRAPH_PRINT_DATA" => SolvedOnce(d[e], e))
  BY <1>5, <1>6, FiguresLeft
<1> QED BY <1>1, <1>2, <1>6, <1>7, <1>8, <1>9 DEF e, E, n

LEMMA VisitDescends ==
  ASSUME TreeOk, LowersOk, TypesOk, NEW v, NEW s, NEW F, NEW d, NEW j, UnderWay(v, s, F, d, j), s # <<>>,
         s[Len(s)].visited < Len(d[s[Len(s)].element].children)
  PROVE  LET child == d[s[Len(s)].element].children[s[Len(s)].visited + 1]
         IN  UnderWay(v, Pushed(s, child), F, Entered(d, child, v), j)
<1> DEFINE p == s[Len(s)].element
           c == lowers[p][s[Len(s)].visited + 1]
           t == Pushed(s, c)
<1>1. Len(s) > 0 /\ d[p].children = lowers[p]
  BY TopIs
<1>2. Walk(s, F) /\ v \in Visits /\ s[Len(s)].visited < Len(lowers[p])
  BY <1>1 DEF UnderWay
<1>3. /\ Walk(t, F) /\ OnStack(t) = OnStack(s) \cup {c}
      /\ c \in Elements /\ c # 0 /\ tree.upper[c] \in OnStack(s)
      /\ c \notin F \cup OnStack(s) /\ Below(c) \cap (F \cup OnStack(t)) = {}
  BY <1>1, <1>2, WalkDescends
<1>4. d[p].children[s[Len(s)].visited + 1] = c
  BY <1>1
<1> HIDE DEF c, t, p
<1> DEFINE E == F \cup OnStack(s)
<1>5. DataOk(v, E, F, d) /\ FiguresOk(v, E, F, d) /\ F \cup OnStack(t) = E \cup {c} /\ tree.upper[c] \in E
  BY <1>3 DEF UnderWay
<1>6. c \notin E /\ Below(c) \cap (E \cup {c}) = {}
  BY <1>3, <1>5
<1> HIDE DEF E
<1>7. DataOk(v, E \cup {c}, F, Entered(d, c, v))
  BY <1>2, <1>3, <1>5, <1>6, DataEntered
<1>8. FiguresOk(v, E \cup {c}, F, Entered(d, c, v))
  BY <1>2, <1>3, <1>5, <1>6, FiguresEntered
<1>9. UnderWay(v, t, F, Entered(d, c, v), j)
  BY <1>2, <1>3, <1>5, <1>7, <1>8 DEF UnderWay
<1> QED BY <1>4, <1>9 DEF t, p

LEMMA VisitReturns ==
  ASSUME TreeOk, LowersOk, NEW v, NEW s, NEW F, NEW d, NEW j, UnderWay(v, s, F, d, j), s # <<>>,
         s[Len(s)].visited = Len(d[s[Len(s)].element].children)
  PROVE  LET e == s[Len(s)].element
         IN  UnderWay(v, SubSeq(s, 1, Len(s) - 1), F \cup {e}, Left(d, e, v),
                      IF v = "GRAPH_PRINT_DATA" /\ IsPrinted(e) THEN Append(j, Entry(d[e], e)) ELSE j)
<1> DEFINE e == s[Len(s)].element
           t == SubSeq(s, 1, Len(s) - 1)
           G == F \cup {e}
           g == IF v = "GRAPH_PRINT_DATA" /\ IsPrinted(e) THEN Append(j, Entry(d[e], e)) ELSE j
           c == Left(d, e, v)
<1>1. /\ Len(s) > 0 /\ d[e].children = lowers[e] /\ DataOk(v, F \cup OnStack(s), G, c)
      /\ FiguresOk(v, F \cup OnStack(s), G, c) /\ (v = "GRAPH_PRINT_DATA" => SolvedOnce(d[e], e))
  BY TopIs
<1>2. Walk(s, F) /\ v \in Visits /\ s[Len(s)].visited = Len(lowers[e])
  BY <1>1 DEF UnderWay
<1>3. /\ Walk(t, G) /\ e \in Elements /\ e \notin F /\ G \cup OnStack(t) = F \cup OnStack(s)
      /\ Above(e) \cap F = {} /\ F \in SUBSET Elements
  BY <1>1, <1>2, WalkReturns DEF Walk
<1>4. JsonOk(j, IF v = "GRAPH_PRINT_DATA" THEN F ELSE {}) /\ JsonSolved(j)
  BY DEF UnderWay
<1> HIDE DEF e, t, c
<1>5. JsonOk(g, IF v = "GRAPH_PRINT_DATA" THEN G ELSE {})
  <2>1. CASE v # "GRAPH_PRINT_DATA"
    BY <1>4, <2>1
  <2>2. CASE v = "GRAPH_PRINT_DATA" /\ IsPrinted(e)
    <3>1. JsonOk(Append(j, Entry(d[e], e)), F \cup {e})
      BY <1>3, <1>4, <2>2, JsonGrows
    <3> QED BY <2>2, <3>1
  <2>3. CASE v = "GRAPH_PRINT_DATA" /\ ~IsPrinted(e)
    <3>1. Printed(G) = Printed(F) /\ g = j
      BY <2>3 DEF Printed
    <3>2. JsonOk(j, G)
      BY <1>4, <2>3, <3>1 DEF JsonOk
    <3> QED BY <2>3, <3>1, <3>2
  <2> QED BY <2>1, <2>2, <2>3
<1>6. JsonSolved(g)
  <2>1. j \in Seq(Range(j))
    BY <1>4 DEF JsonOk
  <2>2. CASE v = "GRAPH_PRINT_DATA" /\ IsPrinted(e)
    <3>1. JsonSolved(Append(j, Entry(d[e], e)))
      BY <1>1, <1>4, <2>1, <2>2, JsonStaysSolved
    <3> QED BY <2>2, <3>1
  <2>3. CASE ~(v = "GRAPH_PRINT_DATA" /\ IsPrinted(e))
    BY <1>4, <2>3
  <2> QED BY <2>2, <2>3
<1> HIDE DEF g, G
<1>7. UnderWay(v, t, G, c, g)
  BY <1>1, <1>2, <1>3, <1>5, <1>6 DEF UnderWay
<1> QED BY <1>7 DEF e, t, G, g, c

LEMMA VisitEnds ==
  ASSUME TreeOk, LowersOk, NEW v, NEW F, NEW d, NEW j, UnderWay(v, <<>>, F, d, j)
  PROVE  /\ F = Elements
         /\ v = "GRAPH_COMPUTE_RATES" =>
              /\ DataOk("GRAPH_COMPUTE_COMMANDS", {}, {}, d) /\ JsonOk(j, {})
              /\ FiguresOk("GRAPH_COMPUTE_COMMANDS", {}, {}, d)
         /\ v = "GRAPH_COMPUTE_COMMANDS" =>
              /\ DataOk("GRAPH_PRINT_DATA", {}, {}, d) /\ JsonOk(j, {})
              /\ FiguresOk("GRAPH_PRINT_DATA", {}, {}, d)
         /\ v = "GRAPH_PRINT_DATA" => JsonOk(j, Elements)
         /\ JsonSolved(j)
<1>1. F = Elements /\ OnStack(<<>>) = {}
  BY DEF UnderWay, Walk, OnStack
<1>2. /\ DataOk(v, Elements, Elements, d) /\ JsonOk(j, IF v = "GRAPH_PRINT_DATA" THEN Elements ELSE {})
      /\ FiguresOk(v, Elements, Elements, d) /\ JsonSolved(j)
  <2>1. Elements \cup {} = Elements
    OBVIOUS
  <2> QED BY <1>1, <2>1 DEF UnderWay
<1>3. \A x \in Elements \ {0} : tree.upper[x] \in Elements
  BY BelowIs, TreeShape, WayUp
<1>4. v = "GRAPH_COMPUTE_RATES" => DataOk("GRAPH_COMPUTE_COMMANDS", {}, {}, d)
  BY <1>2, <1>3 DEF DataOk
<1>5. v = "GRAPH_COMPUTE_COMMANDS" => DataOk("GRAPH_PRINT_DATA", {}, {}, d)
  BY <1>2 DEF DataOk
<1>6. v = "GRAPH_COMPUTE_RATES" => FiguresOk("GRAPH_COMPUTE_COMMANDS", {}, {}, d)
  <2> SUFFICES ASSUME v = "GRAPH_COMPUTE_RATES" PROVE FiguresOk("GRAPH_COMPUTE_COMMANDS", {}, {}, d)
    OBVIOUS
  <2>1. DOMAIN d = Elements
    BY <1>2, <1>4 DEF DataOk
  <2>2. \A x \in Elements : d[x].queues = Queues(x)
    BY <1>2, <2>1 DEF FiguresOk
  <2> QED BY <2>2 DEF FiguresOk
<1>7. v = "GRAPH_COMPUTE_COMMANDS" => FiguresOk("GRAPH_PRINT_DATA", {}, {}, d)
  <2> SUFFICES ASSUME v = "GRAPH_COMPUTE_COMMANDS" PROVE FiguresOk("GRAPH_PRINT_DATA", {}, {}, d)
    OBVIOUS
  <2>1. DOMAIN d = Elements
    BY <1>2 DEF DataOk
  <2>2. \A x \in Elements : SolvedOnce(d[x], x)
    BY <1>2 DEF FiguresOk
  <2> QED BY <2>1, <2>2 DEF FiguresOk
<1> QED BY <1>1, <1>2, <1>4, <1>5, <1>6, <1>7

\* The parsing is over and graph_visit at work, or its three visits are over.
ModelInv ==
  /\ TopoInv
  /\ \/ visit = "NONE" /\ stack = <<>> /\ data = <<>> /\ json = <<>>
     \/ "neighbours" \in done /\ \E F \in SUBSET Elements : UnderWay(visit, stack, F, data, json)
     \/ visit = "NUM_GRAPH_VISITS" /\ stack = <<>> /\ JsonOk(json, Elements) /\ JsonSolved(json)

LEMMA Parsed ==
  ASSUME TopoInv
  PROVE  TreeOk /\ ("neighbours" \in done => LowersOk /\ TypesOk)
BY DEF TopoInv, InOrder

\* The invariant speaks of the variables of the parser only through the tree and the
\* lower elements.
LEMMA ModelKept ==
  ASSUME UNCHANGED vars
  PROVE  /\ Elements' = Elements
         /\ \A v, s, F, d, j : UnderWay(v, s, F, d, j)' = UnderWay(v, s, F, d, j)
         /\ \A j, F : JsonOk(j, F)' = JsonOk(j, F)
         /\ \A j : JsonSolved(j)' = JsonSolved(j)
<1>1. UNCHANGED <<tree, lowers>>
  BY DEF vars
<1>2. Elements' = Elements /\ \A x : Above(x)' = Above(x) /\ Below(x)' = Below(x)
  BY <1>1, SameTree
<1>3. \A x : Depth(x)' = Depth(x)
  BY <1>1, SameTree DEF Depth
<1>4. \A s, F : Walk(s, F)' = Walk(s, F)
  <2>1. Calls' = Calls /\ \A s : OnStack(s)' = OnStack(s)
    BY <1>2 DEF Calls, OnStack
  <2> QED BY <1>1, <1>2, <1>3, <2>1 DEF Walk
<1>5. \A v, E, F, d : DataOk(v, E, F, d)' = DataOk(v, E, F, d)
  <2>1. \A x, e, k : Linked(x, e, k)' = Linked(x, e, k)
    BY <1>1 DEF Linked, IsData
  <2> QED BY <1>1, <1>2, <2>1 DEF DataOk
<1>6. \A j, F : JsonOk(j, F)' = JsonOk(j, F)
  <2>1. \A F : Printed(F)' = Printed(F)
    BY <1>1 DEF Printed, IsPrinted
  <2> QED BY <1>2, <2>1 DEF JsonOk, Ids, IsListing, Range
<1>7. /\ \A e : Queues(e)' = Queues(e)
      /\ \A e, q, x, r : Solve(e, q, x, r)' = Solve(e, q, x, r)
  <2>1. \A t : Nodes(t)' = Nodes(t) /\ Kind(t)' = Kind(t)
    BY <1>1, SameTree
  <2>2. \A e, t : Is(e, t)' = Is(e, t)
    BY <2>1 DEF Is
  <2>3. \A e : Queues(e)' = Queues(e) /\ Cores(e)' = Cores(e)
    BY <1>1, <2>1, <2>2 DEF Queues, Cores
  <2>4. \A e, q : ServiceTimes(e, q)' = ServiceTimes(e, q)
    BY <1>1, <2>1, <2>2 DEF ServiceTimes
  <2>5. \A e, q, w, z, c : Demand(e, q, w, z, c)' = Demand(e, q, w, z, c)
    BY <1>1, <2>1 DEF Demand, P
  <2>6. ASSUME NEW e, NEW q, NEW x, NEW r PROVE Solve(e, q, x, r)' = Solve(e, q, x, r)
    <3>1. \A c : Demand(e, q, x.visits, ServiceTimes(e, q), c)' = Demand(e, q, x.visits, ServiceTimes(e, q), c)
      BY <1>1, <2>1, <2>2 DEF Demand, P, ServiceTimes
    <3> QED BY <2>3, <2>4, <3>1 DEF Solve
  <2> QED BY <2>3, <2>6
<1>8. \A j : JsonSolved(j)' = JsonSolved(j)
  BY <1>7 DEF JsonSolved
<1>9. \A v, E, F, d : FiguresOk(v, E, F, d)' = FiguresOk(v, E, F, d)
  <2>1. \A x, q : Offered(x, q)' = Offered(x, q)
    BY DEF Offered
  <2>2. \A x, e : SolvedOnce(x, e)' = SolvedOnce(x, e)
    BY <1>7, <2>1 DEF SolvedOnce
  <2> QED BY <1>2, <1>7, <2>2 DEF FiguresOk
<1>10. \A v, s, F, d, j : UnderWay(v, s, F, d, j)' = UnderWay(v, s, F, d, j)
  <2>1. \A s : OnStack(s)' = OnStack(s)
    BY DEF OnStack
  <2> QED BY <1>4, <1>5, <1>6, <1>8, <1>9, <2>1 DEF UnderWay, Visits
<1> QED BY <1>2, <1>6, <1>8, <1>10

\* A step of the visits.
LEMMA ModelMoves ==
  ASSUME ModelInv, UNCHANGED vars, StartModel \/ NextVisit \/ Descend \/ Return \/ Finish
  PROVE  ModelInv'
<1>1. TopoInv' /\ done' = done
  BY ToposStutter DEF ModelInv, vars
<1>2. TreeOk /\ ("neighbours" \in done => LowersOk /\ TypesOk)
  BY Parsed DEF ModelInv
<1>3. FindCentral = 0
  BY <1>2, CentralIs
<1>4. SUFFICES \/ "neighbours" \in done /\ \E F \in SUBSET Elements : UnderWay(visit', stack', F, data', json')
               \/ visit' = "NUM_GRAPH_VISITS" /\ stack' = <<>> /\ JsonOk(json', Elements) /\ JsonSolved(json')
  BY <1>1, ModelKept DEF ModelInv
<1>5. ASSUME visit # "NONE", visit # "NUM_GRAPH_VISITS"
      PROVE  "neighbours" \in done /\ LowersOk /\ TypesOk /\ \E F \in SUBSET Elements : UnderWay(visit, stack, F, data, json)
  BY <1>2, <1>5 DEF ModelInv
<1>6. ASSUME stack # <<>> PROVE visit # "NONE" /\ visit # "NUM_GRAPH_VISITS"
  BY <1>6 DEF ModelInv, UnderWay, Visits
<1>7. CASE StartModel
  <2> DEFINE v == "GRAPH_COMPUTE_RATES"
             d == [e \in {0} |-> InitNodeData(0, None)]
  <2>1. /\ visit = "NONE" /\ "neighbours" \in done /\ visit' = v /\ stack' = <<Call(0)>>
        /\ data' = Entered([e \in {0} |-> InitNodeData(e, None)], 0, v) /\ json' = json
    BY <1>3, <1>7 DEF StartModel
  <2>2. d = [e \in {0} |-> InitNodeData(e, None)]
    OBVIOUS
  <2>3. DataOk(v, {}, {}, d)
    <3>1. DOMAIN d = {x \in Elements : x = 0 \/ tree.upper[x] \in {}}
      BY <1>2, ElementsAre
    <3>2. tree.upper[0] = None
      BY <1>2, TreeShape
    <3>3. Linked(InitNodeData(0, None), 0, <<>>)
      BY <3>2 DEF Linked, InitNodeData, IsData
    <3>4. \A x \in DOMAIN d : x = 0 /\ d[x] = InitNodeData(0, None)
      OBVIOUS
    <3> HIDE DEF d
    <3>5. \A x \in DOMAIN d : Linked(d[x], x, IF x \in {} THEN lowers[x] ELSE <<>>)
      BY <3>3, <3>4
    <3> QED BY <3>1, <3>5 DEF DataOk
  <2>4. v \in Visits /\ json = <<>> /\ JsonOk(json, {})
    BY <2>1, JsonEmpty DEF Visits, ModelInv, UnderWay
  <2>5. JsonSolved(json)
    <3>1. 1 .. Len(json) = {}
      BY <2>4
    <3> QED BY <3>1 DEF JsonSolved
  <2>6. FiguresOk(v, {}, {}, d)
    <3>1. InitNodeData(0, None).queues = Queues(0)
      BY DEF InitNodeData
    <3>2. \A x \in DOMAIN d : x = 0 /\ d[x] = InitNodeData(0, None)
      OBVIOUS
    <3> HIDE DEF d
    <3>3. \A x \in DOMAIN d : d[x].queues = Queues(x)
      BY <3>1, <3>2
    <3> QED BY <3>3 DEF FiguresOk
  <2> HIDE DEF v, d
  <2>7. UnderWay(v, <<Call(0)>>, {}, Entered(d, 0, v), json)
    BY <1>2, <2>1, <2>3, <2>4, <2>5, <2>6, VisitStarts
  <2> QED BY <2>1, <2>2, <2>7
<1>8. CASE NextVisit
  <2> DEFINE v == IF visit = "GRAPH_COMPUTE_RATES" THEN "GRAPH_COMPUTE_COMMANDS" ELSE "GRAPH_PRINT_DATA"
  <2>1. /\ stack = <<>> /\ visit \in {"GRAPH_COMPUTE_RATES", "GRAPH_COMPUTE_COMMANDS"}
        /\ visit' = v /\ stack' = <<Call(0)>> /\ data' = Entered(data, 0, v) /\ json' = json
    BY <1>3, <1>8 DEF NextVisit
  <2>2. PICK F \in SUBSET Elements : UnderWay(visit, stack, F, data, json)
    BY <1>5, <2>1
  <2>3. LowersOk /\ TypesOk /\ "neighbours" \in done
    BY <1>5, <2>1
  <2>4. DataOk(v, {}, {}, data) /\ JsonOk(json, {}) /\ FiguresOk(v, {}, {}, data) /\ JsonSolved(json)
    BY <1>2, <2>1, <2>2, <2>3, VisitEnds
  <2>5. v \in Visits
    BY DEF Visits
  <2> HIDE DEF v
  <2>6. UnderWay(v, <<Call(0)>>, {}, Entered(data, 0, v), json)
    BY <1>2, <2>3, <2>4, <2>5, VisitStarts
  <2> QED BY <2>1, <2>3, <2>6
<1>9. CASE Descend
  <2> DEFINE e == stack[Len(stack)].element
             child == data[e].children[stack[Len(stack)].visited + 1]
  <2>1. /\ stack # <<>> /\ stack[Len(stack)].visited < Len(data[e].children)
        /\ stack' = Pushed(stack, child) /\ data' = Entered(data, child, visit)
        /\ visit' = visit /\ json' = json
    BY <1>9 DEF Descend, Top, Pushed
  <2>2. LowersOk /\ TypesOk /\ "neighbours" \in done
    BY <1>5, <1>6, <2>1
  <2>3. PICK F \in SUBSET Elements : UnderWay(visit, stack, F, data, json)
    BY <1>5, <1>6, <2>1
  <2>4. UnderWay(visit, Pushed(stack, child), F, Entered(data, child, visit), json)
    BY <1>2, <2>1, <2>2, <2>3, VisitDescends
  <2> HIDE DEF child
  <2> QED BY <2>1, <2>2, <2>4
<1>10. CASE Return
  <2> DEFINE e == stack[Len(stack)].element
             t == SubSeq(stack, 1, Len(stack) - 1)
             j == IF visit = "GRAPH_PRINT_DATA" /\ IsPrinted(e) THEN Append(json, Entry(data[e], e)) ELSE json
  <2>1. /\ stack # <<>> /\ stack[Len(stack)].visited = Len(data[e].children)
        /\ stack' = t /\ data' = Left(data, e, visit) /\ visit' = visit /\ json' = j
    BY <1>10 DEF Return, Top
  <2>2. LowersOk /\ TypesOk /\ "neighbours" \in done
    BY <1>5, <1>6, <2>1
  <2>3. PICK F \in SUBSET Elements : UnderWay(visit, stack, F, data, json)
    BY <1>5, <1>6, <2>1
  <2>4. UnderWay(visit, t, F \cup {e}, Left(data, e, visit), j)
    BY <1>2, <2>1, <2>2, <2>3, VisitReturns
  <2>5. F \cup {e} \in SUBSET Elements
    BY <1>2, <2>1, <2>2, <2>3, TopIs
  <2> HIDE DEF t, j
  <2> QED BY <2>1, <2>2, <2>4, <2>5
<1>11. CASE Finish
  <2>1. /\ stack = <<>> /\ visit = "GRAPH_PRINT_DATA" /\ visit' = "NUM_GRAPH_VISITS"
        /\ stack' = <<>> /\ json' = json
    BY <1>11 DEF Finish
  <2>2. PICK F \in SUBSET Elements : UnderWay(visit, stack, F, data, json)
    BY <1>5, <2>1
  <2>3. LowersOk
    BY <1>5, <2>1
  <2>4. JsonOk(json, Elements) /\ JsonSolved(json)
    BY <1>2, <2>1, <2>2, <2>3, VisitEnds
  <2> QED BY <2>1, <2>4
<1> QED BY <1>7, <1>8, <1>9, <1>10, <1>11

LEMMA ModelSteps == ModelInv /\ [ModelNext]_<<vars, modelVars>> => ModelInv'
<1> SUFFICES ASSUME ModelInv, [ModelNext]_<<vars, modelVars>> PROVE ModelInv'
  OBVIOUS
<1>1. CASE UNCHANGED <<vars, modelVars>>
  <2>1. UNCHANGED vars /\ UNCHANGED <<visit, stack, data, json>> /\ done' = done
    BY <1>1 DEF modelVars, vars
  <2>2. TopoInv'
    BY <2>1, ToposStutter DEF ModelInv
  <2> QED BY <2>1, <2>2, ModelKept DEF ModelInv
<1>2. CASE visit = "NONE" /\ Next /\ UNCHANGED modelVars
  <2>1. UNCHANGED <<visit, stack, data, json>>
    BY <1>2 DEF modelVars
  <2>2. TopoInv'
    BY <1>2, ToposKept DEF ModelInv
  <2> QED BY <1>2, <2>1, <2>2 DEF ModelInv, UnderWay, Visits
<1>3. CASE (StartModel \/ NextVisit \/ Descend \/ Return \/ Finish) /\ UNCHANGED vars
  BY <1>3, ModelMoves
<1> QED BY <1>1, <1>2, <1>3 DEF ModelNext

LEMMA ModelInvariant == ModelSpec => []ModelInv
<1>1. ModelInit => ModelInv
  BY ToposInitially DEF ModelInit, ModelInv
<1> QED BY <1>1, ModelSteps, PTL DEF ModelSpec

LEMMA Complete == ModelInv => ResultsComplete
<1> SUFFICES ASSUME ModelInv, Over
             PROVE  /\ \A e \in Elements : Cardinality({i \in DOMAIN json : json[i].id = e})
                                             = IF IsPrinted(e) THEN 1 ELSE 0
                    /\ \A i, k \in DOMAIN json : json[i].id \in Above(json[k].id) => k < i
                    /\ \A i \in DOMAIN json : json[i].comma <=> i < Len(json)
  BY DEF ResultsComplete
<1> DEFINE s == Ids(json)
           n == Len(json)
           S == Printed(Elements)
<1>1. TreeOk /\ JsonOk(json, Elements)
  BY Parsed DEF ModelInv, Over, UnderWay, Visits
<1>2. /\ n \in Nat /\ DOMAIN json = 1 .. n /\ Len(s) = n
      /\ \A i \in 1 .. n : s[i] = json[i].id
      /\ \A i \in 1 .. n : json[i].comma = (json[i].id # 0)
      /\ \A i, k \in 1 .. n : json[i].id \in Above(json[k].id) => k < i
  BY <1>1, LenProperties DEF JsonOk, Ids
<1>3. /\ \A i \in 1 .. n : json[i].id \in S
      /\ \A x \in S : \E i \in 1 .. n : json[i].id = x
      /\ \A i, k \in 1 .. n : json[i].id = json[k].id => i = k
  <2>1. IsListing(s, S)
    BY <1>1 DEF JsonOk
  <2> HIDE DEF s, S
  <2> QED BY <1>2, <2>1, ListingParts
<1>4. ASSUME NEW e \in Elements
      PROVE  Cardinality({i \in DOMAIN json : json[i].id = e}) = IF IsPrinted(e) THEN 1 ELSE 0
  <2> DEFINE At == {i \in DOMAIN json : json[i].id = e}
  <2>1. CASE IsPrinted(e)
    <3>1. PICK i \in 1 .. n : json[i].id = e
      BY <1>3, <2>1 DEF Printed
    <3>2. At = {i}
      BY <1>2, <1>3, <3>1
    <3> QED BY <2>1, <3>2, FS_Singleton
  <2>2. CASE ~IsPrinted(e)
    <3>1. At = {}
      BY <1>2, <1>3, <2>2 DEF Printed
    <3> QED BY <2>2, <3>1, FS_EmptySet
  <2> QED BY <2>1, <2>2
<1>5. ASSUME NEW i \in 1 .. n PROVE json[i].id # 0 <=> i < n
  <2>1. 0 \in S
    <3>1. 0 \in Elements /\ 0 \in Kind(NODE)
      BY <1>1, TreeShape, ElementsAre DEF Nodes
    <3> QED BY <3>1 DEF Printed, IsPrinted, Kind, NODE, WAN, SENSOR
  <2>2. PICK c \in 1 .. n : json[c].id = 0
    BY <1>3, <2>1
  <2>3. ASSUME NEW k \in 1 .. n, k # c PROVE k < c
    <3>1. json[k].id \in Elements /\ json[k].id # 0
      BY <1>3, <2>2, <2>3 DEF Printed
    <3>2. 0 \in Above(json[k].id)
      BY <1>1, <3>1, RootAbove
    <3> QED BY <1>2, <2>2, <3>2
  <2>4. c = n
    <3>1. n \in Nat /\ c \in 1 .. n
      BY <1>2, <2>2
    <3>2. \A k \in 1 .. n : k # c => k < c
      BY <2>3
    <3> HIDE DEF n
    <3> QED BY <3>1, <3>2
  <2> QED BY <1>2, <1>3, <2>2, <2>4
<1> QED BY <1>2, <1>4, <1>5

LEMMA SolvedThen == ModelInv => QueuesSolvedOnce
<1> SUFFICES ASSUME ModelInv, Over, NEW i \in DOMAIN json
             PROVE  /\ DOMAIN json[i].parameters = DOMAIN Queues(json[i].id)
                    /\ \A q \in DOMAIN json[i].parameters :
                         json[i].parameters[q].queue
                           = Solve(json[i].id, q, Queues(json[i].id)[q], json[i].parameters[q].lambda_in)
  BY DEF QueuesSolvedOnce
<1>1. JsonOk(json, Elements) /\ JsonSolved(json)
  BY DEF ModelInv, Over, UnderWay, Visits
<1>2. DOMAIN json = 1 .. Len(json)
  BY <1>1, LenProperties DEF JsonOk
<1> QED BY <1>1, <1>2 DEF JsonSolved

\* In every tree and for all parameters print_json writes every node, LAN and
\* actuator once, none before an element below it, and a comma after each but the
\* last; and every queue that it writes has been solved once, at the rates written
\* beside it.
THEOREM ResultsAlwaysConsistent == ModelSpec => []ResultsConsistent
<1>1. ModelInv => ResultsConsistent
  BY Complete, SolvedThen DEF ResultsConsistent
<1> QED BY <1>1, ModelInvariant, PTL

=============================================================================
