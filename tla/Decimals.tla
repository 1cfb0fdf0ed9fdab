------------------------------ MODULE Decimals ------------------------------
(***************************************************************************)
(* The decimal numbers of the crate bigdecimal, as the modules use them:   *)
(* exact fractions <<numerator, denominator>> in lowest terms.  Rounding   *)
(* to 100 digits (with_prec) is left out.                                  *)
(***************************************************************************)
EXTENDS Integers

gcd[b \in Nat] == [a \in Nat |-> IF b = 0 THEN a ELSE gcd[a % b][b]]

Magnitude(n) == IF n < 0 THEN -n ELSE n

Fraction(n, d) ==
  LET g == gcd[d][Magnitude(n)] IN <<IF n < 0 THEN -(Magnitude(n) \div g) ELSE n \div g, d \div g>>

Zero == <<0, 1>>
One  == <<1, 1>>

Plus(x, y)  == Fraction(x[1] * y[2] + y[1] * x[2], x[2] * y[2])
Minus(x)    == <<-x[1], x[2]>>
Times(x, y) == Fraction(x[1] * y[1], x[2] * y[2])

(* The divisor is positive here; dividing by zero panics and is guarded.   *)
Over(x, y)  == Fraction(x[1] * y[2], x[2] * y[1])
AtMost(x, y) == x[1] * y[2] <= y[1] * x[2]

=============================================================================
