----------------------------- MODULE Rationals -----------------------------
(***************************************************************************)
(* Rational numbers as pairs <<numerator, denominator>> in lowest terms,   *)
(* and NaN, the value of a division by zero.  They stand for the doubles   *)
(* of the analytical model, without rounding.                              *)
(***************************************************************************)
EXTENDS Integers, Functions

Gcd[p \in Nat \X Nat] == IF p[2] = 0 THEN p[1] ELSE Gcd[<<p[2], p[1] % p[2]>>]

Abs(i) == IF i < 0 THEN -i ELSE i

\* No rational has denominator zero.
NaN == <<0, 0>>

Q(n, d) ==
  IF d = 0 THEN NaN
  ELSE LET g == Gcd[<<Abs(n), Abs(d)>>]
       IN  IF d > 0 THEN <<n \div g, d \div g>> ELSE <<(-n) \div g, (-d) \div g>>

\* The rational numbers, each in lowest terms, and NaN.
Number == {x \in Int \X Nat : x = Q(x[1], x[2])}

Zero == <<0, 1>>
One  == <<1, 1>>

\* An operand that is NaN has denominator zero, and so has the result.
x ++ y == Q(x[1] * y[2] + y[1] * x[2], x[2] * y[2])
x -- y == Q(x[1] * y[2] - y[1] * x[2], x[2] * y[2])
x ** y == Q(x[1] * y[1], x[2] * y[2])
x // y == IF y = NaN THEN NaN ELSE Q(x[1] * y[2], x[2] * y[1])

\* x > 0: false of NaN.
Positive(x) == x # NaN /\ x[1] > 0

\* The sum, and the product, of the values of a function.
Sum(f)     == FoldFunction(LAMBDA x, y : x ++ y, Zero, f)
Product(f) == FoldFunction(LAMBDA x, y : x ** y, One, f)

=============================================================================
