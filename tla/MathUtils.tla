------------------------------ MODULE MathUtils ------------------------------
(***************************************************************************)
(* The arithmetic of math_utils.rs, on integers and on points of a curve   *)
(* y^2 = x^3 + alpha*x + beta mod prime, which are pairs.  A loop is a     *)
(* recursive function of its variables.  Where the code asserts, the       *)
(* operator is only applied when the assertion holds; NoInverse says when  *)
(* it does not.                                                            *)
(***************************************************************************)
EXTENDS MaybeRelocatable

\* isqrt, Newton's iteration from n down, for the n that are not negative.
Isqrt(n) ==
  LET newton[x \in 1..n] ==
        LET y == (x + n \div x) \div 2 IN IF y < x THEN newton[y] ELSE x
  IN  IF n = 0 THEN 0 ELSE newton[n]

\* as_int
AsInt(val, prime) == IF val < prime \div 2 THEN val ELSE val - prime

AbsoluteOf(n) == IF n < 0 THEN -n ELSE n
SignOf(n)     == IF n < 0 THEN -1 ELSE 1

\* Fault: the coefficients are not swapped with the remainders.
EuclidRoundUnswapped(s) ==
  LET q == s.a \div s.b
  IN  [a |-> s.b, b |-> s.a % s.b,
       x |-> s.x - q * s.r, y |-> s.y - q * s.s, r |-> s.r, s |-> s.s]

\* A round of the loop of igcdex.
EuclidRound(s) ==
  LET q == s.a \div s.b
  IN  [a |-> s.b, b |-> s.a % s.b,
       x |-> s.r, y |-> s.s, r |-> s.x - q * s.r, s |-> s.y - q * s.s]

\* The loop of igcdex, for positive numbers: b gets smaller in every round.
Euclid(a, b) ==
  LET after[k \in 0..b] ==
        IF k = 0 THEN [a |-> a, b |-> b, x |-> 1, y |-> 0, r |-> 0, s |-> 1]
        ELSE LET s == after[k - 1] IN IF s.b = 0 THEN s ELSE EuclidRound(s)
      last == after[b]
  IN  <<last.x, last.y, last.a>>

\* igcdex: x, y, g.  If only b is zero, x is 1 whatever the sign of a.
Igcdex(a, b) ==
  LET Signed(e) == <<e[1] * SignOf(a), e[2] * SignOf(b), e[3]>>
  IN  IF a = 0 /\ b = 0 THEN <<0, 1, 0>>
      ELSE IF a = 0     THEN <<0, SignOf(b), AbsoluteOf(b)>>
      ELSE IF b = 0     THEN <<1, 0, AbsoluteOf(a)>>
      ELSE Signed(Euclid(AbsoluteOf(a), AbsoluteOf(b)))

\* The assertion of div_mod, which those of the slopes come down to.
NoInverse(m, p) == Igcdex(m, p)[3] # 1

\* div_mod
DivMod(n, m, p) == (n * Igcdex(m, p)[1]) % p

\* line_slope and ec_add, of points with different x.
LineSlope(a, b, prime) == DivMod(a[2] - b[2], a[1] - b[1], prime)

EcAdd(a, b, prime) ==
  LET At(m, x)  == <<x, (m * (a[1] - x) - a[2]) % prime>>
      Along(m)  == At(m, (m * m - a[1] - b[1]) % prime)
  IN  Along(LineSlope(a, b, prime))

\* ec_double_slope and ec_double, of a point whose y is not zero.  The new x
\* is a remainder of Rust's %: it can be negative.
EcDoubleSlope(point, alpha, prime) ==
  DivMod(3 * point[1] * point[1] + alpha, 2 * point[2], prime)

EcDouble(point, alpha, prime) ==
  LET At(m, x)  == <<x, (m * (point[1] - x) - point[2]) % prime>>
      Along(m)  == At(m, TruncMod(m * m - 2 * point[1], prime))
  IN  Along(EcDoubleSlope(point, alpha, prime))
=============================================================================
