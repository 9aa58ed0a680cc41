-------------------------------- MODULE EcOp --------------------------------
(***************************************************************************)
(* The operation of the ec_op builtin (EcOpBuiltinRunner,                  *)
(* vm/runners/builtin_runner.rs): P + m*Q on the curve                     *)
(* y^2 = x^3 + x + EcBeta, by doubling Q and adding it where m has a bit.  *)
(* The two constants have one value each in the code, 256 the second;      *)
(* every assertion that fails is a panic.                                  *)
(***************************************************************************)
EXTENDS MathUtils

CONSTANTS
  EcBeta,    (* The beta of the curve.                                     *)
  EcHeight   (* scalar_height, the rounds: 2^EcHeight exceeds the prime.   *)

ASSUME EcAssumption == EcBeta \in Nat /\ EcHeight \in Nat /\ 2 ^ EcHeight > Prime

EcAlpha == 1

\* EcOpBuiltinRunner::point_on_curve, with the remainders of Rust.
PointOnCurve(point) ==
  LET x == point[1]
      y == point[2]
  IN  TruncMod(y * y, Prime) = TruncMod(x * x * x + EcAlpha * x + EcBeta, Prime)

\* The assertion of ec_op_impl, and those of ec_add and ec_double.
SameX(a, b) == TruncMod(a[1] - b[1], Prime) = 0
CannotAdd(a, b) == SameX(a, b) \/ NoInverse(a[1] - b[1], Prime)
CannotDouble(a) == TruncMod(a[2], Prime) = 0 \/ NoInverse(2 * a[2], Prime)

\* A round of ec_op_impl.  The points must differ in every round, those with
\* a bit of m that is zero included.
EcRound(s) ==
  LET bit == s.slope % 2 # 0
  IN  IF \/ SameX(s.doubled, s.partial)
         \/ bit /\ CannotAdd(s.partial, s.doubled)
         \/ CannotDouble(s.doubled)
      THEN [s EXCEPT !.err = "panic"]
      ELSE [err     |-> "ok",
            partial |-> IF bit THEN EcAdd(s.partial, s.doubled, Prime) ELSE s.partial,
            doubled |-> EcDouble(s.doubled, EcAlpha, Prime),
            slope   |-> s.slope \div 2]

\* EcOpBuiltinRunner::ec_op_impl: the variables of its loop after k rounds.
EcOpImpl(partial_sum, doubled_point, m) ==
  LET after[k \in 0..EcHeight] ==
        IF k = 0 THEN [err |-> "ok", partial |-> partial_sum,
                       doubled |-> doubled_point, slope |-> m]
        ELSE LET s == after[k - 1] IN IF s.err = "ok" THEN EcRound(s) ELSE s
      last == after[EcHeight]
  IN  IF last.err = "ok" THEN Ok(last.partial) ELSE Err(last.err)

-----------------------------------------------------------------------------
(* The group of the curve's points and the point at infinity, by its chords *)
(* and tangents.                                                            *)

Infinity == <<>>

Tangent(a, s) == (2 * a[2] * s - (3 * a[1] * a[1] + EcAlpha)) % Prime = 0
Chord(a, b, s) == ((a[1] - b[1]) * s - (a[2] - b[2])) % Prime = 0

GroupSum(a, b) ==
  IF a = Infinity THEN b
  ELSE IF b = Infinity THEN a
  ELSE IF a[1] = b[1] /\ (a[2] + b[2]) % Prime = 0 THEN Infinity
  ELSE LET s == CHOOSE t \in 0..(Prime - 1) :
                  IF a = b THEN Tangent(a, t) ELSE Chord(a, b, t)
           x == (s * s - a[1] - b[1]) % Prime
       IN  <<x, (s * (a[1] - x) - a[2]) % Prime>>

\* m times a point, as a sum of m points.
Multiple(m, a) ==
  LET sum[k \in 0..m] == IF k = 0 THEN Infinity ELSE GroupSum(sum[k - 1], a)
  IN  sum[m]
=============================================================================
