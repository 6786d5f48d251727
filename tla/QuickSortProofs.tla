-------------------------- MODULE QuickSortProofs --------------------------
(***************************************************************************)
(* The sort of the queues and of the idmaps, for arrays of any length:     *)
(* it returns, it permutes its array, and it sorts it when the elements    *)
(* it does not exchange have the same key.                                 *)
(***************************************************************************)
EXTENDS QuickSort, FiniteSetTheorems, WellFoundedInduction, TLAPS

\* Induction over the natural numbers.
LEMMA SetInduction ==
  ASSUME NEW S, 0 \in S, \A n \in Nat : n \in S => n + 1 \in S
  PROVE  \A n \in Nat : n \in S
<1> DEFINE R == OpToRel(<, Nat)
           T == {n \in Nat : n \notin S}
<1>1. IsWellFoundedOn(R, Nat)
  BY NatLessThanWellFounded
<1>2. \A x, y \in Nat : y < x => <<y, x>> \in R
  BY DEF OpToRel
<1> HIDE DEF R
<1>3. T # {} => \E x \in T : \A y \in T : ~ (<<y, x>> \in R)
  BY <1>1, WFMin
<1>4. SUFFICES ASSUME NEW x \in T, \A y \in T : ~ (<<y, x>> \in R) PROVE FALSE
  BY <1>3
<1>5. x # 0 /\ x - 1 \in Nat /\ x - 1 < x
  OBVIOUS
<1>6. x - 1 \notin S
  BY <1>5
<1> QED BY <1>2, <1>4, <1>5, <1>6

Arrays(n, E) == [0 .. n - 1 -> E]

\* What the proofs ask of the keys, and of the elements that are not exchanged.
KeysOrdered(E) == \A x \in E : Key(x) \in Int
AlikeKeys(E)   == \A x, y \in E : Alike(x, y) => Key(x) = Key(y)

-----------------------------------------------------------------------------
(* Exchanging two elements.                                                *)

\* b is a with the elements between low and high in another order.
Rearranged(n, E, a, b, low, high) ==
  /\ b \in Arrays(n, E)
  /\ \A k \in 0 .. n - 1 : k < low \/ k > high => b[k] = a[k]
  /\ \A k \in low .. high : \E l \in low .. high : b[k] = a[l]
  /\ \A x : Occurrences(b, x) = Occurrences(a, x)

LEMMA RearrangedSelf ==
  ASSUME NEW E, NEW n \in Nat, NEW a \in Arrays(n, E), NEW low, NEW high
  PROVE  Rearranged(n, E, a, a, low, high)
BY DEF Rearranged

LEMMA RearrangedTwice ==
  ASSUME NEW E, NEW n \in Nat, NEW low, NEW high, NEW a, NEW b, NEW c,
         Rearranged(n, E, a, b, low, high), Rearranged(n, E, b, c, low, high)
  PROVE  Rearranged(n, E, a, c, low, high)
BY DEF Rearranged

LEMMA RearrangedWithin ==
  ASSUME NEW E, NEW n \in Nat, NEW low \in Nat, NEW high \in Int, high < n,
         NEW lo \in Int, NEW hi \in Int, low <= lo, hi <= high,
         NEW a, NEW b, Rearranged(n, E, a, b, lo, hi)
  PROVE  Rearranged(n, E, a, b, low, high)
<1>1. \A k \in 0 .. n - 1 : k < low \/ k > high => b[k] = a[k]
  BY DEF Rearranged
<1>2. ASSUME NEW k \in low .. high PROVE \E l \in low .. high : b[k] = a[l]
  <2>1. CASE k \in lo .. hi
    <3>1. PICK l \in lo .. hi : b[k] = a[l]
      BY <2>1 DEF Rearranged
    <3> QED BY <3>1
  <2>2. CASE k \notin lo .. hi
    BY <2>2 DEF Rearranged
  <2> QED BY <2>1, <2>2
<1> QED BY <1>1, <1>2 DEF Rearranged

\* A swap exchanges the keys, or the keys are the same.
LEMMA SwapRearranges ==
  ASSUME NEW E, NEW n \in Nat, NEW low \in Nat, NEW high \in 0 .. n - 1,
         NEW i \in low .. high, NEW j \in low .. high, NEW a \in Arrays(n, E)
  PROVE  /\ Rearranged(n, E, a, Swap(a, i, j), low, high)
         /\ \A k \in 0 .. n - 1 : k # i /\ k # j => Swap(a, i, j)[k] = a[k]
         /\ AlikeKeys(E) => /\ Key(Swap(a, i, j)[i]) = Key(a[j])
                         /\ Key(Swap(a, i, j)[j]) = Key(a[i])
<1>1. i \in 0 .. n - 1 /\ j \in 0 .. n - 1 /\ a[i] \in E /\ a[j] \in E
  BY DEF Arrays
<1>2. CASE Alike(a[i], a[j])
  <2>1. Swap(a, i, j) = a
    BY <1>2 DEF Swap
  <2> QED BY <1>1, <1>2, <2>1, RearrangedSelf DEF AlikeKeys
<1>3. CASE ~Alike(a[i], a[j])
  <2> DEFINE b == [a EXCEPT ![i] = a[j], ![j] = a[i]]
             other == [k \in 0 .. n - 1 |-> IF k = i THEN j ELSE IF k = j THEN i ELSE k]
  <2>1. Swap(a, i, j) = b
    BY <1>3 DEF Swap
  <2>2. b \in Arrays(n, E) /\ \A k \in 0 .. n - 1 : b[k] = a[other[k]]
    BY <1>1 DEF Arrays
  <2>3. /\ \A k \in 0 .. n - 1 : other[k] \in 0 .. n - 1 /\ other[other[k]] = k
        /\ other[i] = j /\ other[j] = i
        /\ \A k \in 0 .. n - 1 : k # i /\ k # j => other[k] = k
    BY <1>1
  <2> HIDE DEF b, other
  <2>4. ASSUME NEW x PROVE Occurrences(b, x) = Occurrences(a, x)
    <3> DEFINE A == {k \in 0 .. n - 1 : a[k] = x}
               B == {k \in 0 .. n - 1 : b[k] = x}
               f == [k \in A |-> other[k]]
    <3>1. f \in Bijection(A, B)
      <4>1. f \in [A -> B]
        BY <2>2, <2>3
      <4>2. \A k, l \in A : f[k] = f[l] => k = l
        BY <2>3
      <4>3. \A l \in B : \E k \in A : f[k] = l
        <5> SUFFICES ASSUME NEW l \in B PROVE \E k \in A : f[k] = l
          OBVIOUS
        <5>1. l \in 0 .. n - 1 /\ b[l] = x
          OBVIOUS
        <5>2. other[l] \in A /\ other[other[l]] = l
          BY <2>2, <2>3, <5>1
        <5>3. f[other[l]] = l
          BY <5>2
        <5> QED BY <5>2, <5>3
      <4> HIDE DEF f, A, B
      <4> QED BY <4>1, <4>2, <4>3 DEF Bijection, Injection, Surjection, IsInjective
    <3>2. IsFiniteSet(A)
      <4>1. IsFiniteSet(0 .. n - 1) /\ A \in SUBSET (0 .. n - 1)
        BY FS_Interval
      <4> QED BY <4>1, FS_Subset
    <3>3. Cardinality(B) = Cardinality(A)
      BY <3>1, <3>2, FS_Bijection DEF ExistsBijection
    <3>4. DOMAIN a = 0 .. n - 1 /\ DOMAIN b = 0 .. n - 1
      BY <2>2 DEF Arrays
    <3> QED BY <3>3, <3>4 DEF Occurrences
  <2>5. \A k \in 0 .. n - 1 : k < low \/ k > high => b[k] = a[k]
    BY <2>2, <2>3
  <2>6. \A k \in low .. high : \E l \in low .. high : b[k] = a[l]
    <3> TAKE k \in low .. high
    <3>1. other[k] \in low .. high /\ b[k] = a[other[k]]
      BY <2>2, <2>3
    <3> QED BY <3>1
  <2>7. \A k \in 0 .. n - 1 : k # i /\ k # j => b[k] = a[k]
    BY <2>2, <2>3
  <2>8. b[i] = a[j] /\ b[j] = a[i]
    BY <1>1, <2>2, <2>3
  <2> QED BY <2>1, <2>2, <2>4, <2>5, <2>6, <2>7, <2>8 DEF Rearranged
<1> QED BY <1>2, <1>3

-----------------------------------------------------------------------------
(* partition.                                                              *)

\* One turn of the loop, and the loop.
ScanStep(f, a, low, high, j) ==
  IF j < low THEN [arr |-> a, i |-> low - 1]
  ELSE IF Key(f[j - 1].arr[j]) < Key(a[high])
       THEN [arr |-> Swap(f[j - 1].arr, f[j - 1].i + 1, j), i |-> f[j - 1].i + 1]
       ELSE f[j - 1]

Scan(a, low, high) ==
  CHOOSE f : f = [j \in low - 1 .. high - 1 |-> ScanStep(f, a, low, high, j)]

LEMMA PartitionByScan ==
  ASSUME NEW a, NEW low, NEW high
  PROVE  LET end == Scan(a, low, high)[high - 1]
         IN  Partition(a, low, high) = [arr |-> Swap(end.arr, end.i + 1, high), pivot |-> end.i + 1]
BY DEF Partition, Scan, ScanStep

\* The loop is defined for every index.
LEMMA ScanReturns ==
  ASSUME NEW a, NEW low \in Int, NEW high \in Int
  PROVE  \A j \in low - 1 .. high - 1 :
           Scan(a, low, high)[j] = ScanStep(Scan(a, low, high), a, low, high, j)
<1> DEFINE Dom == low - 1 .. high - 1
           Upto(f, k) == \A j \in Dom : j < low + k => f[j] = ScanStep(f, a, low, high, j)
           S == {k \in Nat : \E f : Upto(f, k)}
<1>1. 0 \in S
  <2> DEFINE f == [j \in Dom |-> [arr |-> a, i |-> low - 1]]
  <2>1. Upto(f, 0)
    BY DEF ScanStep
  <2> QED BY <2>1
<1>2. ASSUME NEW k \in Nat, k \in S PROVE k + 1 \in S
  <2>1. PICK f : Upto(f, k)
    BY <1>2
  <2> DEFINE g == [j \in Dom |-> ScanStep(f, a, low, high, j)]
  <2>2. \A j \in Dom : g[j] = ScanStep(f, a, low, high, j)
    OBVIOUS
  <2>3. \A j \in Dom : j < low + k => g[j] = f[j]
    BY <2>1, <2>2
  <2> HIDE DEF g
  <2>4. ASSUME NEW j \in Dom, j < low + (k + 1) PROVE g[j] = ScanStep(g, a, low, high, j)
    <3>1. CASE j < low
      BY <2>2, <3>1 DEF ScanStep
    <3>2. CASE j >= low
      <4>1. g[j - 1] = f[j - 1]
        BY <2>3, <2>4, <3>2
      <4> QED BY <2>2, <3>2, <4>1 DEF ScanStep
    <3> QED BY <3>1, <3>2
  <2> QED BY <2>4
<1>3. \A k \in Nat : k \in S
  <2> HIDE DEF S
  <2> QED BY <1>1, <1>2, SetInduction
<1>4. PICK k \in Nat : high <= low + k
  <2>1. CASE high <= low
    BY <2>1
  <2>2. CASE high > low
    <3>1. high - low \in Nat /\ high <= low + (high - low)
      BY <2>2
    <3> QED BY <3>1
  <2> QED BY <2>1, <2>2
<1>5. PICK f : Upto(f, k)
  BY <1>3
<1> DEFINE h == [j \in Dom |-> f[j]]
<1>6. h = [j \in Dom |-> ScanStep(h, a, low, high, j)]
  <2>1. \A j \in Dom : h[j] = f[j]
    OBVIOUS
  <2>2. \A j \in Dom : f[j] = ScanStep(f, a, low, high, j)
    BY <1>4, <1>5
  <2> HIDE DEF h
  <2>3. ASSUME NEW j \in Dom PROVE h[j] = ScanStep(h, a, low, high, j)
    <3>1. CASE j < low
      BY <2>1, <2>2, <3>1 DEF ScanStep
    <3>2. CASE j >= low
      <4>1. h[j - 1] = f[j - 1]
        BY <2>1, <3>2
      <4> QED BY <2>1, <2>2, <3>2, <4>1 DEF ScanStep
    <3> QED BY <3>1, <3>2
  <2> QED BY <2>3 DEF h
<1>7. Scan(a, low, high) = [j \in Dom |-> ScanStep(Scan(a, low, high), a, low, high, j)]
  <2> HIDE DEF h, Dom
  <2> QED BY <1>6 DEF Scan, Dom
<1> QED BY <1>7

\* Up to j, the elements smaller than the pivot come first.
Scanned(n, E, a, s, low, high, j) ==
  /\ s.i \in low - 1 .. j
  /\ Rearranged(n, E, a, s.arr, low, high - 1)
  /\ AlikeKeys(E) => /\ \A k \in low .. s.i : Key(s.arr[k]) < Key(a[high])
                  /\ \A k \in s.i + 1 .. j : Key(a[high]) <= Key(s.arr[k])

LEMMA ScanSeparates ==
  ASSUME NEW E, KeysOrdered(E), NEW n \in Nat, NEW a \in Arrays(n, E),
         NEW low \in Nat, NEW high \in 0 .. n - 1, low < high
  PROVE  Scanned(n, E, a, Scan(a, low, high)[high - 1], low, high, high - 1)
<1> DEFINE f == Scan(a, low, high)
           S == {k \in Nat : low - 1 + k <= high - 1 =>
                               Scanned(n, E, a, f[low - 1 + k], low, high, low - 1 + k)}
<1>1. \A j \in low - 1 .. high - 1 : f[j] = ScanStep(f, a, low, high, j)
  BY ScanReturns
<1> HIDE DEF f
<1>2. 0 \in S
  <2>1. low - 1 \in low - 1 .. high - 1 /\ low - 1 < low
    OBVIOUS
  <2>2. f[low - 1] = ScanStep(f, a, low, high, low - 1)
    BY <1>1, <2>1
  <2>3. f[low - 1] = [arr |-> a, i |-> low - 1]
    BY <2>1, <2>2 DEF ScanStep
  <2>4. Scanned(n, E, a, f[low - 1], low, high, low - 1)
    BY <2>3, RearrangedSelf DEF Scanned
  <2>5. low - 1 + 0 = low - 1
    OBVIOUS
  <2> QED BY <2>4, <2>5
<1>3. ASSUME NEW k \in Nat, k \in S PROVE k + 1 \in S
  <2> DEFINE j == low + k
             s == f[j - 1]
             t == f[j]
  <2> SUFFICES ASSUME j <= high - 1 PROVE Scanned(n, E, a, t, low, high, j)
    OBVIOUS
  <2>1. Scanned(n, E, a, s, low, high, j - 1)
    BY <1>3
  <2>2. j \in low .. high - 1 /\ j \in 0 .. n - 1
    OBVIOUS
  <2>3. t = IF Key(s.arr[j]) < Key(a[high])
            THEN [arr |-> Swap(s.arr, s.i + 1, j), i |-> s.i + 1] ELSE s
    BY <1>1, <2>2 DEF ScanStep
  <2> HIDE DEF j, s, t
  <2>4. s.arr \in Arrays(n, E) /\ s.i \in low - 1 .. j - 1
    <3> USE DEF Scanned, Rearranged
    <3>1. s.arr \in Arrays(n, E)
      BY <2>1
    <3>2. s.i \in low - 1 .. j - 1
      BY <2>1
    <3> QED BY <3>1, <3>2
  <2>5. \A x \in 0 .. n - 1 : s.arr[x] \in E /\ Key(s.arr[x]) \in Int
    BY <2>4 DEF Arrays, KeysOrdered
  <2>6. Key(a[high]) \in Int
    BY DEF Arrays, KeysOrdered
  <2>7. CASE ~(Key(s.arr[j]) < Key(a[high]))
    <3>1. t = s
      BY <2>3, <2>7
    <3>2. AlikeKeys(E) => \A x \in s.i + 1 .. j : Key(a[high]) <= Key(s.arr[x])
      BY <2>1, <2>2, <2>4, <2>5, <2>6, <2>7 DEF Scanned
    <3> QED BY <2>1, <2>2, <2>4, <3>1, <3>2 DEF Scanned
  <2>8. CASE Key(s.arr[j]) < Key(a[high])
    <3> DEFINE i == s.i + 1
               b == Swap(s.arr, i, j)
    <3>1. t.arr = b /\ t.i = i
      BY <2>3, <2>8
    <3>2. i \in low .. high - 1 /\ high - 1 \in 0 .. n - 1 /\ i <= j
      BY <2>2, <2>4
    <3>3. /\ Rearranged(n, E, s.arr, b, low, high - 1)
          /\ \A x \in 0 .. n - 1 : x # i /\ x # j => b[x] = s.arr[x]
          /\ AlikeKeys(E) => Key(b[i]) = Key(s.arr[j]) /\ Key(b[j]) = Key(s.arr[i])
      BY <2>2, <2>4, <3>2, SwapRearranges
    <3> HIDE DEF b
    <3>4. Rearranged(n, E, a, b, low, high - 1)
      BY <2>1, <3>3, RearrangedTwice DEF Scanned
    <3>5. ASSUME AlikeKeys(E), NEW x \in low .. i PROVE Key(b[x]) < Key(a[high])
      <4>1. CASE x = i
        BY <2>8, <3>3, <3>5, <4>1
      <4>2. CASE x # i
        <5>1. x \in low .. s.i /\ x \in 0 .. n - 1 /\ x # j
          BY <2>2, <2>4, <3>2, <4>2
        <5> QED BY <2>1, <3>3, <3>5, <4>2, <5>1 DEF Scanned
      <4> QED BY <4>1, <4>2
    <3>6. ASSUME AlikeKeys(E), NEW x \in i + 1 .. j PROVE Key(a[high]) <= Key(b[x])
      <4>1. i \in s.i + 1 .. j - 1 /\ x \in 0 .. n - 1
        BY <2>2, <2>4, <3>2
      <4>2. CASE x = j
        BY <2>1, <3>3, <3>6, <4>1, <4>2 DEF Scanned
      <4>3. CASE x # j
        <5>1. x \in s.i + 1 .. j - 1 /\ x # i
          BY <2>2, <2>4, <4>3
        <5> QED BY <2>1, <3>3, <3>6, <4>1, <4>3, <5>1 DEF Scanned
      <4> QED BY <4>2, <4>3
    <3> QED BY <2>2, <3>1, <3>2, <3>4, <3>5, <3>6 DEF Scanned
  <2> QED BY <2>7, <2>8
<1>4. \A k \in Nat : k \in S
  <2> HIDE DEF S
  <2> QED BY <1>2, <1>3, SetInduction
<1>5. high - low \in Nat /\ low - 1 + (high - low) = high - 1
  OBVIOUS
<1>6. Scanned(n, E, a, f[high - 1], low, high, high - 1)
  <2>1. high - low \in S
    BY <1>4, <1>5
  <2>2. low - 1 + (high - low) <= high - 1
    BY <1>5
  <2>3. Scanned(n, E, a, f[low - 1 + (high - low)], low, high, low - 1 + (high - low))
    BY <2>1, <2>2
  <2> QED BY <1>5, <2>3
<1> QED BY <1>6 DEF f

\* What is left of the pivot is smaller, what is right of it is not.
LEMMA PartitionSplits ==
  ASSUME NEW E, KeysOrdered(E), NEW n \in Nat, NEW a \in Arrays(n, E),
         NEW low \in Nat, NEW high \in 0 .. n - 1, low < high
  PROVE  LET p == Partition(a, low, high)
         IN  /\ p.pivot \in low .. high
             /\ Rearranged(n, E, a, p.arr, low, high)
             /\ AlikeKeys(E) =>
                  /\ \A k \in low .. p.pivot - 1 : Key(p.arr[k]) < Key(p.arr[p.pivot])
                  /\ \A k \in p.pivot + 1 .. high : Key(p.arr[p.pivot]) <= Key(p.arr[k])
<1> DEFINE p == Partition(a, low, high)
           s == Scan(a, low, high)[high - 1]
           i == s.i + 1
<1>1. p.arr = Swap(s.arr, i, high) /\ p.pivot = i
  BY PartitionByScan
<1>2. Scanned(n, E, a, s, low, high, high - 1)
  BY ScanSeparates
<1> HIDE DEF p, s
<1>3. s.i \in low - 1 .. high - 1
  BY <1>2 DEF Scanned
<1>4. Rearranged(n, E, a, s.arr, low, high - 1)
  BY <1>2 DEF Scanned
<1>5. s.arr \in Arrays(n, E) /\ s.arr[high] = a[high]
  BY <1>4 DEF Rearranged
<1>6. i \in low .. high /\ high \in low .. high
  BY <1>3
<1>7. /\ Rearranged(n, E, s.arr, p.arr, low, high)
      /\ \A k \in 0 .. n - 1 : k # i /\ k # high => p.arr[k] = s.arr[k]
      /\ AlikeKeys(E) => Key(p.arr[i]) = Key(s.arr[high]) /\ Key(p.arr[high]) = Key(s.arr[i])
  BY SMTT(30), <1>1, <1>5, <1>6, SwapRearranges
<1>8. Rearranged(n, E, a, p.arr, low, high)
  <2>1. Rearranged(n, E, a, s.arr, low, high)
    BY <1>4, RearrangedWithin
  <2> QED BY <2>1, <1>7, RearrangedTwice
<1>9. ASSUME AlikeKeys(E)
      PROVE  /\ \A k \in low .. i - 1 : Key(p.arr[k]) < Key(p.arr[i])
             /\ \A k \in i + 1 .. high : Key(p.arr[i]) <= Key(p.arr[k])
  <2>1. Key(p.arr[i]) = Key(a[high])
    BY <1>5, <1>7, <1>9
  <2>2. ASSUME NEW k \in low .. i - 1 PROVE Key(p.arr[k]) < Key(p.arr[i])
    <3>1. k \in low .. s.i /\ k \in 0 .. n - 1 /\ k # i /\ k # high
      BY <1>3
    <3> QED BY <1>2, <1>7, <1>9, <2>1, <3>1 DEF Scanned
  <2>3. ASSUME NEW k \in i + 1 .. high PROVE Key(p.arr[i]) <= Key(p.arr[k])
    <3>1. k \in 0 .. n - 1 /\ k # i
      BY <1>6
    <3>2. CASE k = high
      <4>1. i \in s.i + 1 .. high - 1
        BY <1>3, <3>2
      <4> QED BY <1>2, <1>7, <1>9, <2>1, <3>2, <4>1 DEF Scanned
    <3>3. CASE k # high
      <4>1. k \in s.i + 1 .. high - 1
        BY <1>3, <3>3
      <4> QED BY <1>2, <1>7, <1>9, <2>1, <3>1, <3>3, <4>1 DEF Scanned
    <3> QED BY <3>2, <3>3
  <2> QED BY <2>2, <2>3
<1> QED BY <1>1, <1>6, <1>8, <1>9 DEF p

-----------------------------------------------------------------------------
(* quickSort.                                                              *)

Call(n, E) == [a : Arrays(n, E), low : 0 .. n, high : -1 .. n - 1]

\* The two recursive calls of a call, and its result.
LeftCall(c) ==
  LET p == Partition(c.a, c.low, c.high)
  IN  [a |-> p.arr, low |-> c.low, high |-> p.pivot - 1]

RightCall(c, left) ==
  LET p == Partition(c.a, c.low, c.high)
  IN  [a |-> left, low |-> p.pivot + 1, high |-> c.high]

SortStep(f, c) ==
  IF c.low >= c.high THEN c.a ELSE f[RightCall(c, f[LeftCall(c)])]

Sorting(n) == CHOOSE f : f = [c \in Call(n, Element) |-> SortStep(f, c)]

LEMMA SortByCalls ==
  ASSUME NEW n \in Nat, NEW arr \in Arrays(n, Element)
  PROVE  Sort(arr) = Sorting(n)[[a |-> arr, low |-> 0, high |-> n - 1]]
<1>1. DOMAIN arr = 0 .. n - 1 /\ Cardinality(DOMAIN arr) = n
  BY FS_Interval DEF Arrays
<1> QED BY <1>1 DEF Sort, Sorting, Call, SortStep, LeftCall, RightCall, Arrays

\* Both recursive calls are about less of the array.
LEMMA CallsShrink ==
  ASSUME NEW E, KeysOrdered(E), NEW n \in Nat, NEW c \in Call(n, E), c.low < c.high
  PROVE  LET p == Partition(c.a, c.low, c.high)
         IN  /\ LeftCall(c) \in Call(n, E)
             /\ LeftCall(c).a = p.arr /\ LeftCall(c).low = c.low /\ LeftCall(c).high = p.pivot - 1
             /\ LeftCall(c).high - LeftCall(c).low < c.high - c.low
             /\ \A left \in Arrays(n, E) :
                  /\ RightCall(c, left) \in Call(n, E)
                  /\ RightCall(c, left).a = left
                  /\ RightCall(c, left).low = p.pivot + 1 /\ RightCall(c, left).high = c.high
                  /\ RightCall(c, left).high - RightCall(c, left).low < c.high - c.low
<1> DEFINE p == Partition(c.a, c.low, c.high)
<1>1. c.a \in Arrays(n, E) /\ c.low \in 0 .. n /\ c.high \in -1 .. n - 1
  BY DEF Call
<1>2. p.pivot \in c.low .. c.high /\ p.arr \in Arrays(n, E)
  <2>1. c.low \in Nat /\ c.high \in 0 .. n - 1
    BY <1>1
  <2>2. p.pivot \in c.low .. c.high /\ Rearranged(n, E, c.a, p.arr, c.low, c.high)
    BY <1>1, <2>1, PartitionSplits
  <2> QED BY <2>2 DEF Rearranged
<1> HIDE DEF p
<1> QED BY <1>1, <1>2 DEF Call, LeftCall, RightCall, p

\* quickSort returns, whatever it is called with.
LEMMA SortReturns ==
  ASSUME KeysOrdered(Element), NEW n \in Nat
  PROVE  \A c \in Call(n, Element) : Sorting(n)[c] = SortStep(Sorting(n), c)
<1> DEFINE Less(c, k) == c.high - c.low < k
           Upto(f, k) == \A c \in Call(n, Element) :
                           Less(c, k) => f[c] = SortStep(f, c) /\ f[c] \in Arrays(n, Element)
           S == {k \in Nat : \E f : Upto(f, k)}
<1>0. \A c \in Call(n, Element) : c.a \in Arrays(n, Element) /\ c.low \in 0 .. n /\ c.high \in -1 .. n - 1
  BY DEF Call
<1>1. 0 \in S
  <2> DEFINE f == [c \in Call(n, Element) |-> c.a]
  <2>1. Upto(f, 0)
    BY <1>0 DEF SortStep
  <2> QED BY <2>1
<1>2. ASSUME NEW k \in Nat, NEW f, Upto(f, k)
      PROVE  LET g == [c \in Call(n, Element) |-> SortStep(f, c)]
             IN  \A c \in Call(n, Element) : Less(c, k + 1) =>
                   g[c] = SortStep(f, c) /\ g[c] = SortStep(g, c) /\ g[c] \in Arrays(n, Element)
  <2> DEFINE g == [c \in Call(n, Element) |-> SortStep(f, c)]
  <2>1. \A c \in Call(n, Element) : g[c] = SortStep(f, c)
    OBVIOUS
  <2> HIDE DEF g
  <2> SUFFICES ASSUME NEW c \in Call(n, Element), Less(c, k + 1)
               PROVE  g[c] = SortStep(f, c) /\ g[c] = SortStep(g, c) /\ g[c] \in Arrays(n, Element)
    BY DEF g
  <2>2. CASE c.low >= c.high
    BY <1>0, <2>1, <2>2 DEF SortStep
  <2>3. CASE c.low < c.high
    <3> DEFINE l == LeftCall(c)
               r == RightCall(c, f[l])
    <3>1. l \in Call(n, Element) /\ Less(l, k)
      BY <1>0, <2>3, CallsShrink
    <3>2. f[l] \in Arrays(n, Element) /\ g[l] = f[l]
      BY <1>2, <2>1, <3>1
    <3>3. r \in Call(n, Element) /\ Less(r, k)
      <4>1. r \in Call(n, Element) /\ r.high - r.low < c.high - c.low
        BY <2>3, <3>2, CallsShrink
      <4> QED BY <1>0, <4>1
    <3>4. f[r] \in Arrays(n, Element) /\ g[r] = f[r]
      BY <1>2, <2>1, <3>3
    <3>5. ~(c.low >= c.high)
      BY <1>0, <2>3
    <3>6. SortStep(f, c) = f[r] /\ SortStep(g, c) = g[r]
      BY <3>2, <3>5 DEF SortStep
    <3> QED BY <2>1, <3>4, <3>6
  <2> QED BY <1>0, <2>2, <2>3
<1>3. ASSUME NEW k \in Nat, k \in S PROVE k + 1 \in S
  <2>1. PICK f : Upto(f, k)
    BY <1>3
  <2> DEFINE g == [c \in Call(n, Element) |-> SortStep(f, c)]
  <2>2. Upto(g, k + 1)
    BY <1>2, <2>1
  <2>3. k + 1 \in Nat
    OBVIOUS
  <2> HIDE DEF g, Upto
  <2> QED BY <2>2, <2>3
<1>4. n + 1 \in S
  <2> HIDE DEF S
  <2> QED BY <1>1, <1>3, SetInduction
<1>5. PICK f : Upto(f, n + 1)
  BY <1>4
<1> DEFINE g == [c \in Call(n, Element) |-> SortStep(f, c)]
<1>6. \A c \in Call(n, Element) : Less(c, n + 1)
  BY <1>0
<1>7. \A c \in Call(n, Element) : g[c] = SortStep(g, c)
  <2>1. \A c \in Call(n, Element) : Less(c, (n + 1) + 1)
    BY <1>0
  <2>2. n + 1 \in Nat
    OBVIOUS
  <2> QED BY <1>2, <1>5, <2>1, <2>2
<1>8. g = [c \in Call(n, Element) |-> SortStep(g, c)]
  <2>1. g = [c \in Call(n, Element) |-> g[c]]
    OBVIOUS
  <2> HIDE DEF g
  <2> QED BY <1>7, <2>1
<1>9. Sorting(n) = [c \in Call(n, Element) |-> SortStep(Sorting(n), c)]
  <2> HIDE DEF g
  <2> QED BY <1>8 DEF Sorting
<1> QED BY <1>9

\* What a call of quickSort does to its part of the array.
Sorts(n, E, c, b) ==
  /\ Rearranged(n, E, c.a, b, c.low, c.high)
  /\ AlikeKeys(E) => \A i, j \in c.low .. c.high : i < j => Key(b[i]) <= Key(b[j])

LEMMA CallSorts ==
  ASSUME NEW E, KeysOrdered(E), NEW n \in Nat, NEW c \in Call(n, E), c.low < c.high,
         NEW left, Sorts(n, E, LeftCall(c), left),
         NEW b, Sorts(n, E, RightCall(c, left), b)
  PROVE  Sorts(n, E, c, b)
<1> DEFINE p    == Partition(c.a, c.low, c.high)
           low  == c.low
           high == c.high
<1>0. c.a \in Arrays(n, E) /\ low \in Nat /\ high \in 0 .. n - 1 /\ low < high
  BY DEF Call
<1>1. /\ p.pivot \in low .. high
      /\ Rearranged(n, E, c.a, p.arr, low, high)
      /\ AlikeKeys(E) =>
           /\ \A k \in low .. p.pivot - 1 : Key(p.arr[k]) < Key(p.arr[p.pivot])
           /\ \A k \in p.pivot + 1 .. high : Key(p.arr[p.pivot]) <= Key(p.arr[k])
  BY <1>0, PartitionSplits
<1>2. /\ Rearranged(n, E, p.arr, left, low, p.pivot - 1)
      /\ AlikeKeys(E) => \A i, j \in low .. p.pivot - 1 : i < j => Key(left[i]) <= Key(left[j])
  BY CallsShrink DEF Sorts
<1>3. left \in Arrays(n, E)
  BY <1>2 DEF Rearranged
<1>4. /\ Rearranged(n, E, left, b, p.pivot + 1, high)
      /\ AlikeKeys(E) => \A i, j \in p.pivot + 1 .. high : i < j => Key(b[i]) <= Key(b[j])
  BY <1>3, CallsShrink DEF Sorts
<1> DEFINE v == p.pivot
<1> HIDE DEF p, low, high, v
<1>5. v \in low .. high /\ v = p.pivot /\ v \in 0 .. n - 1
  BY <1>0, <1>1 DEF v
<1>6. Rearranged(n, E, c.a, b, low, high)
  <2>1. Rearranged(n, E, p.arr, left, low, high)
    BY <1>0, <1>2, <1>5, RearrangedWithin
  <2>2. Rearranged(n, E, left, b, low, high)
    BY <1>0, <1>4, <1>5, RearrangedWithin
  <2> QED BY <1>0, <1>1, <2>1, <2>2, RearrangedTwice
<1>7. ASSUME AlikeKeys(E), NEW i \in low .. high, NEW j \in low .. high, i < j
      PROVE  Key(b[i]) <= Key(b[j])
  <2>1. \A k \in low .. v : b[k] = left[k]
    BY <1>0, <1>4, <1>5 DEF Rearranged
  <2>2. \A k \in v .. high : left[k] = p.arr[k]
    BY <1>0, <1>2, <1>5 DEF Rearranged
  <2>3. \A k \in 0 .. n - 1 : b[k] \in E /\ Key(b[k]) \in Int
    BY <1>4 DEF Rearranged, Arrays, KeysOrdered
  <2>4. b[v] = p.arr[v]
    BY <1>5, <2>1, <2>2
  <2>5. ASSUME NEW k \in low .. v - 1 PROVE Key(b[k]) <= Key(b[v])
    <3>1. PICK l \in low .. v - 1 : left[k] = p.arr[l]
      BY <1>2, <1>5 DEF Rearranged
    <3>2. b[k] = p.arr[l]
      BY <1>5, <2>1, <3>1
    <3>3. k \in 0 .. n - 1
      BY <1>0, <1>5
    <3>4. Key(b[k]) < Key(b[v])
      BY <1>1, <1>5, <1>7, <2>4, <3>2
    <3> QED BY <1>5, <2>3, <3>3, <3>4
  <2>6. ASSUME NEW k \in v + 1 .. high PROVE Key(b[v]) <= Key(b[k])
    <3>1. PICK l \in v + 1 .. high : b[k] = left[l]
      BY <1>4, <1>5 DEF Rearranged
    <3>2. b[k] = p.arr[l]
      BY <1>5, <2>2, <3>1
    <3> QED BY <1>1, <1>5, <1>7, <2>4, <3>2
  <2>7. i \in 0 .. n - 1 /\ j \in 0 .. n - 1
    BY <1>0
  <2>8. CASE j <= v - 1
    <3>1. i \in low .. v - 1 /\ j \in low .. v - 1
      BY <1>0, <1>5, <1>7, <2>8
    <3>2. b[i] = left[i] /\ b[j] = left[j]
      BY <1>0, <1>5, <2>1, <3>1
    <3> QED BY <1>2, <1>5, <1>7, <3>1, <3>2
  <2>9. CASE i >= v + 1
    <3>1. i \in v + 1 .. high /\ j \in v + 1 .. high
      BY <1>0, <1>5, <1>7, <2>9
    <3> QED BY <1>4, <1>5, <1>7, <3>1
  <2>10. CASE j >= v /\ i <= v
    <3>1. Key(b[i]) <= Key(b[v])
      <4>1. CASE i = v
        BY <1>5, <2>3, <4>1
      <4>2. CASE i # v
        <5>1. i \in low .. v - 1
          BY <1>0, <1>5, <2>10, <4>2
        <5> QED BY <2>5, <5>1
      <4> QED BY <4>1, <4>2
    <3>2. Key(b[v]) <= Key(b[j])
      <4>1. CASE j = v
        BY <1>5, <2>3, <4>1
      <4>2. CASE j # v
        <5>1. j \in v + 1 .. high
          BY <1>0, <1>5, <2>10, <4>2
        <5> QED BY <2>6, <5>1
      <4> QED BY <4>1, <4>2
    <3> QED BY <1>5, <2>3, <2>7, <3>1, <3>2
  <2> QED BY <1>0, <1>5, <2>8, <2>9, <2>10
<1> QED BY <1>6, <1>7 DEF Sorts, low, high

LEMMA EveryCallSorts ==
  ASSUME KeysOrdered(Element), NEW E, E \subseteq Element, NEW n \in Nat
  PROVE  \A c \in Call(n, E) : Sorts(n, E, c, Sorting(n)[c])
<1> DEFINE f == Sorting(n)
           S == {k \in Nat : \A c \in Call(n, E) : c.high - c.low < k => Sorts(n, E, c, f[c])}
<1>0. \A c \in Call(n, E) : c.a \in Arrays(n, E) /\ c.low \in 0 .. n /\ c.high \in -1 .. n - 1
  BY DEF Call
<1>1. \A c \in Call(n, E) : f[c] = SortStep(f, c)
  <2>1. Arrays(n, E) \subseteq Arrays(n, Element)
    BY DEF Arrays
  <2>2. Call(n, E) \subseteq Call(n, Element)
    BY <2>1 DEF Call
  <2> QED BY <2>2, SortReturns
<1> HIDE DEF f
<1>keys. KeysOrdered(E)
  BY DEF KeysOrdered
<1>2. ASSUME NEW c \in Call(n, E), c.low >= c.high PROVE Sorts(n, E, c, f[c])
  <2>1. f[c] = c.a
    BY <1>1, <1>2 DEF SortStep
  <2>2. \A i, j \in c.low .. c.high : ~(i < j)
    BY <1>0, <1>2
  <2> QED BY <1>0, <2>1, <2>2, RearrangedSelf DEF Sorts
<1>3. 0 \in S
  <2>1. \A c \in Call(n, E) : c.high - c.low < 0 => c.low >= c.high
    BY <1>0
  <2> QED BY <1>2, <2>1
<1>4. ASSUME NEW k \in Nat, k \in S PROVE k + 1 \in S
  <2> SUFFICES ASSUME NEW c \in Call(n, E), c.high - c.low < k + 1 PROVE Sorts(n, E, c, f[c])
    BY <1>4
  <2>1. CASE c.low >= c.high
    BY <1>2, <2>1
  <2>2. CASE c.low < c.high
    <3> DEFINE l == LeftCall(c)
               r == RightCall(c, f[l])
    <3>1. l \in Call(n, E) /\ l.high - l.low < k
      <4>1. l \in Call(n, E) /\ l.high - l.low < c.high - c.low
        BY <1>keys, <2>2, CallsShrink
      <4> QED BY <1>0, <4>1
    <3>2. Sorts(n, E, l, f[l])
      BY <1>4, <3>1
    <3>3. f[l] \in Arrays(n, E)
      BY <3>2 DEF Sorts, Rearranged
    <3>4. r \in Call(n, E) /\ r.high - r.low < k
      <4>1. r \in Call(n, E) /\ r.high - r.low < c.high - c.low
        BY <1>keys, <2>2, <3>3, CallsShrink
      <4> QED BY <1>0, <4>1
    <3>5. Sorts(n, E, r, f[r])
      BY <1>4, <3>4
    <3>6. f[c] = f[r]
      <4>1. ~(c.low >= c.high)
        BY <1>0, <2>2
      <4> QED BY <1>1, <4>1 DEF SortStep
    <3> QED BY <1>keys, <2>2, <3>2, <3>5, <3>6, CallSorts
  <2> QED BY <1>0, <2>1, <2>2
<1>5. \A k \in Nat : k \in S
  <2> HIDE DEF S
  <2> QED BY <1>3, <1>4, SetInduction
<1>6. \A c \in Call(n, E) : c.high - c.low < n + 1
  BY <1>0
<1> QED BY <1>5, <1>6 DEF f

\* The sort of an array of any length, with elements of any set E: it keeps every
\* element, and its result is in order if those elements of E that it does not
\* exchange have the same key.  (queue_quick_sort.c does not exchange queues of one
\* type, so the second part says nothing of one type with several priorities.)
THEOREM SortCorrect ==
  ASSUME KeysOrdered(Element), NEW E, E \subseteq Element, NEW n \in Nat, NEW arr \in Arrays(n, E)
  PROVE  /\ Sort(arr) \in Arrays(n, E)
         /\ IsPermutation(arr, Sort(arr)) /\ \A x : Occurrences(Sort(arr), x) = Occurrences(arr, x)
         /\ AlikeKeys(E) => IsSorted(Sort(arr))
<1> DEFINE c == [a |-> arr, low |-> 0, high |-> n - 1]
           b == Sort(arr)
<1>1. c \in Call(n, E) /\ c.a = arr /\ c.low = 0 /\ c.high = n - 1
  BY DEF Call
<1>2. b = Sorting(n)[c]
  <2>1. arr \in Arrays(n, Element)
    BY DEF Arrays
  <2> QED BY <2>1, SortByCalls
<1>3. Sorts(n, E, c, b)
  BY <1>1, <1>2, EveryCallSorts
<1> HIDE DEF b, c
<1>4. b \in Arrays(n, E) /\ \A x : Occurrences(b, x) = Occurrences(arr, x)
  BY <1>1, <1>3 DEF Sorts, Rearranged
<1>5. DOMAIN arr = 0 .. n - 1 /\ DOMAIN b = 0 .. n - 1
  BY <1>4 DEF Arrays
<1>6. IsPermutation(arr, b)
  BY <1>4, <1>5 DEF IsPermutation
<1>7. AlikeKeys(E) => IsSorted(b)
  BY <1>1, <1>3, <1>5 DEF Sorts, IsSorted
<1> QED BY <1>4, <1>6, <1>7 DEF b

-----------------------------------------------------------------------------
(* Elements of one key, as the queues of a station are: the sort is not    *)
(* stable, it moves the last of them to the front.                         *)

EqualKeys(a, n) == \A i, k \in 0 .. n - 1 : Key(a[i]) = Key(a[k])

LEMMA EqualsPartitioned ==
  ASSUME NEW E, KeysOrdered(E), NEW n \in Nat, NEW a \in Arrays(n, E), EqualKeys(a, n),
         NEW low \in Nat, NEW high \in 0 .. n - 1, low < high
  PROVE  Partition(a, low, high) = [arr |-> Swap(a, low, high), pivot |-> low]
<1> DEFINE f == Scan(a, low, high)
           None == [arr |-> a, i |-> low - 1]
           S == {k \in Nat : low - 1 + k <= high - 1 => f[low - 1 + k] = None}
<1>1. \A j \in low - 1 .. high - 1 : f[j] = ScanStep(f, a, low, high, j)
  BY ScanReturns
<1>2. \A j \in 0 .. n - 1 : ~ (Key(a[j]) < Key(a[high]))
  BY DEF EqualKeys, KeysOrdered, Arrays
<1> HIDE DEF f
<1>3. 0 \in S
  <2>1. low - 1 \in low - 1 .. high - 1 /\ low - 1 < low /\ low - 1 + 0 = low - 1
    OBVIOUS
  <2> QED BY <1>1, <2>1 DEF ScanStep
<1>4. ASSUME NEW k \in Nat, k \in S PROVE k + 1 \in S
  <2> SUFFICES ASSUME low - 1 + (k + 1) <= high - 1 PROVE f[low - 1 + (k + 1)] = None
    OBVIOUS
  <2> DEFINE j == low - 1 + (k + 1)
  <2>1. j \in low - 1 .. high - 1 /\ j - 1 = low - 1 + k /\ ~ (j < low) /\ j \in 0 .. n - 1
    OBVIOUS
  <2>2. f[j - 1] = None
    BY <1>4, <2>1
  <2>3. f[j - 1].arr = a
    BY <2>2
  <2> HIDE DEF j, None
  <2>4. f[j] = f[j - 1]
    BY <1>1, <1>2, <2>1, <2>3 DEF ScanStep
  <2> QED BY <2>2, <2>4 DEF j
<1>5. \A k \in Nat : k \in S
  <2> HIDE DEF S
  <2> QED BY <1>3, <1>4, SetInduction
<1>6. f[high - 1] = None
  <2>1. high - low \in Nat /\ low - 1 + (high - low) = high - 1
    OBVIOUS
  <2> QED BY <1>5, <2>1
<1>7. Partition(a, low, high) = [arr |-> Swap(f[high - 1].arr, f[high - 1].i + 1, high),
                                pivot |-> f[high - 1].i + 1]
  BY PartitionByScan DEF f
<1> QED BY <1>6, <1>7

\* What a call returns for them depends on one exchange and a shorter call.
LEMMA EqualsSorted ==
  ASSUME KeysOrdered(Element), NEW n \in Nat, NEW a \in Arrays(n, Element), EqualKeys(a, n),
         NEW low \in Nat, low < n, NEW b, b = Swap(a, low, n - 1), b \in Arrays(n, Element)
  PROVE  Sorting(n)[[a |-> a, low |-> low, high |-> n - 1]] =
           IF low < n - 1 THEN Sorting(n)[[a |-> b, low |-> low + 1, high |-> n - 1]] ELSE a
<1> DEFINE c == [a |-> a, low |-> low, high |-> n - 1]
           l == [a |-> b, low |-> low, high |-> low - 1]
           r == [a |-> b, low |-> low + 1, high |-> n - 1]
<1>1. c \in Call(n, Element)
  BY DEF Call
<1>2. Sorting(n)[c] = SortStep(Sorting(n), c)
  BY <1>1, SortReturns
<1>3. CASE low < n - 1
  <2>1. Partition(a, low, n - 1) = [arr |-> b, pivot |-> low]
    BY <1>3, EqualsPartitioned
  <2>2. LeftCall(c) = l /\ \A left : RightCall(c, left) = [a |-> left, low |-> low + 1, high |-> n - 1]
    BY <2>1 DEF LeftCall, RightCall
  <2>3. l \in Call(n, Element)
    BY DEF Call
  <2>4. Sorting(n)[l] = b
    BY <2>3, SortReturns DEF SortStep
  <2>5. SortStep(Sorting(n), c) = Sorting(n)[RightCall(c, Sorting(n)[LeftCall(c)])]
    BY <1>3 DEF SortStep
  <2> QED BY <1>2, <1>3, <2>2, <2>4, <2>5
<1>4. CASE ~ (low < n - 1)
  BY <1>2, <1>4 DEF SortStep
<1> QED BY <1>3, <1>4

\* So they are rotated by one.
THEOREM EqualsRotated ==
  ASSUME KeysOrdered(Element), NEW n \in Nat, n > 0, NEW a \in Arrays(n, Element), EqualKeys(a, n),
         \A i, k \in 0 .. n - 1 : i # k => ~ Alike(a[i], a[k])
  PROVE  Sort(a) = [i \in 0 .. n - 1 |-> IF i = 0 THEN a[n - 1] ELSE a[i - 1]]
<1> DEFINE From(l, i) == IF l = 0 THEN i ELSE IF i = 0 THEN n - 1 ELSE IF i < l THEN i - 1
                         ELSE IF i = n - 1 THEN l - 1 ELSE i
           R(l) == [i \in 0 .. n - 1 |-> a[From(l, i)]]
           Result(l) == Sorting(n)[[a |-> R(l), low |-> l, high |-> n - 1]]
           S == {l \in Nat : l <= n - 1 => Sort(a) = Result(l)}
<1>1. \A l \in 0 .. n - 1 : \A i \in 0 .. n - 1 : From(l, i) \in 0 .. n - 1
  OBVIOUS
<1>2. \A l \in 0 .. n - 1 : /\ R(l) \in Arrays(n, Element) /\ EqualKeys(R(l), n)
                            /\ \A i \in 0 .. n - 1 : R(l)[i] = a[From(l, i)]
  <2> HIDE DEF From
  <2> QED BY <1>1 DEF Arrays, EqualKeys
<1>3. R(0) = a
  BY DEF Arrays
<1>4. 0 \in S
  <2> HIDE DEF R
  <2> QED BY <1>3, SortByCalls
<1>5. ASSUME NEW l \in 0 .. n - 1, l < n - 1
      PROVE  R(l + 1) = Swap(R(l), l, n - 1)
  <2>1. R(l) \in Arrays(n, Element) /\ \A i \in 0 .. n - 1 : R(l)[i] = a[From(l, i)]
    BY <1>2
  <2>2. From(l, l) # From(l, n - 1) /\ l \in 0 .. n - 1 /\ n - 1 \in 0 .. n - 1
    BY <1>5
  <2>3. ~ Alike(R(l)[l], R(l)[n - 1])
    <3>1. R(l)[l] = a[From(l, l)] /\ R(l)[n - 1] = a[From(l, n - 1)]
      BY <2>1, <2>2
    <3>2. From(l, l) \in 0 .. n - 1 /\ From(l, n - 1) \in 0 .. n - 1
      BY <1>1, <2>2
    <3> HIDE DEF R, From
    <3> QED BY <2>2, <3>1, <3>2
  <2>4. From(l + 1, l) = From(l, n - 1) /\ From(l + 1, n - 1) = From(l, l)
        /\ \A i \in 0 .. n - 1 : i # l /\ i # n - 1 => From(l + 1, i) = From(l, i)
    BY <1>5
  <2>5. R(l + 1) = [i \in 0 .. n - 1 |-> a[From(l + 1, i)]]
    OBVIOUS
  <2> DEFINE x == R(l)
  <2>6. Swap(x, l, n - 1) = [x EXCEPT ![l] = x[n - 1], ![n - 1] = x[l]]
    BY <2>3 DEF Swap
  <2>7. [x EXCEPT ![l] = x[n - 1], ![n - 1] = x[l]] =
          [i \in 0 .. n - 1 |-> IF i = n - 1 THEN x[l] ELSE IF i = l THEN x[n - 1] ELSE x[i]]
    <3> x \in Arrays(n, Element)
      BY <2>1
    <3> HIDE DEF x
    <3> QED BY DEF Arrays
  <2>8. \A i \in 0 .. n - 1 : a[From(l + 1, i)] =
          IF i = n - 1 THEN x[l] ELSE IF i = l THEN x[n - 1] ELSE x[i]
    <3> HIDE DEF From
    <3> QED BY <2>1, <2>2, <2>4
  <2> HIDE DEF R, x, From
  <2> QED BY <2>5, <2>6, <2>7, <2>8 DEF x
<1>6. ASSUME NEW l \in Nat, l \in S PROVE l + 1 \in S
  <2> SUFFICES ASSUME l + 1 <= n - 1 PROVE Sort(a) = Result(l + 1)
    <3> HIDE DEF Result
    <3> QED OBVIOUS
  <2>1. l \in 0 .. n - 1 /\ l + 1 \in 0 .. n - 1 /\ l < n - 1 /\ l < n
    OBVIOUS
  <2>2. Sort(a) = Result(l)
    BY <1>6, <2>1
  <2>3. R(l) \in Arrays(n, Element) /\ EqualKeys(R(l), n) /\ R(l + 1) \in Arrays(n, Element)
    BY <1>2, <2>1
  <2>4. R(l + 1) = Swap(R(l), l, n - 1)
    BY <1>5, <2>1
  <2> HIDE DEF R
  <2> QED BY <2>1, <2>2, <2>3, <2>4, EqualsSorted
<1>7. \A l \in Nat : l \in S
  <2> HIDE DEF S
  <2> QED BY <1>4, <1>6, SetInduction
<1>8. Sort(a) = R(n - 1)
  <2>1. n - 1 \in Nat /\ n - 1 \in 0 .. n - 1 /\ n - 1 < n /\ ~ (n - 1 < n - 1)
    OBVIOUS
  <2>2. Sort(a) = Result(n - 1)
    BY <1>7, <2>1
  <2>3. R(n - 1) \in Arrays(n, Element) /\ EqualKeys(R(n - 1), n)
    BY <1>2, <2>1
  <2>4. Swap(R(n - 1), n - 1, n - 1) \in Arrays(n, Element)
    BY <2>1, <2>3, SwapRearranges DEF Rearranged
  <2> HIDE DEF R
  <2> QED BY <2>1, <2>2, <2>3, <2>4, EqualsSorted
<1>9. \A i \in 0 .. n - 1 : From(n - 1, i) = IF i = 0 THEN n - 1 ELSE i - 1
  OBVIOUS
<1>10. R(n - 1) = [i \in 0 .. n - 1 |-> a[From(n - 1, i)]]
  OBVIOUS
<1> HIDE DEF R, From
<1> QED BY <1>8, <1>9, <1>10

=============================================================================
