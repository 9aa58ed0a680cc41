---------------------------- MODULE MachineProofs ----------------------------
(***************************************************************************)
(* What a step of the virtual machine does, whoever runs it: the lemmas    *)
(* about the operators of VirtualMachine and Builtins that the proofs      *)
(* about a run rest on.                                                    *)
(***************************************************************************)
EXTENDS VirtualMachine, MemoryCellsProofs

-----------------------------------------------------------------------------
(* Values.                                                                 *)

\* The values of a machine with n segments: integers that are not negative,
\* and addresses of its segments.
Naturals   == [kind : {"int"}, num : Nat]
Known(n)   == Naturals \union {v \in Relocatables : v.seg < n}
Maybe(S)   == S \union {None}

\* A value is an integer or an address, and not None.
LEMMA KnownKinds ==
  ASSUME NEW n, NEW v \in Known(n)
  PROVE  /\ v \in Values /\ v # None
         /\ IsInt(v) \/ IsRel(v)
         /\ ~(IsInt(v) /\ IsRel(v))
         /\ IsInt(v) => v \in Naturals /\ v.num \in Nat /\ v = IntValue(v.num)
         /\ IsRel(v) => v \in Relocatables /\ v.seg \in Nat /\ v.off \in Nat /\ v.seg < n
                          /\ v = RelocatableValue(v.seg, v.off)
  BY NoneAssumption
     DEF Known, Naturals, Values, Ints, Relocatables, IsInt, IsRel, IntValue, RelocatableValue

\* An integer or an address that is a known value.
LEMMA KnownMade ==
  ASSUME NEW n
  PROVE  /\ \A k \in Nat : IntValue(k) \in Known(n)
         /\ \A s, off \in Nat : s < n => RelocatableValue(s, off) \in Known(n)
  BY DEF Known, Naturals, Relocatables, IntValue, RelocatableValue

\* More segments, more values.
LEMMA KnownGrows ==
  ASSUME NEW n \in Nat, NEW k \in Nat, n <= k
  PROVE  Known(n) \subseteq Known(k)
  BY DEF Known, Relocatables

\* An offset that fits in a usize gives an address of the same segment.
LEMMA WithOffsetKnown ==
  ASSUME NEW n, NEW v \in Known(n), IsRel(v), NEW off,
         WithOffset(v, off).err = "ok"
  PROVE  /\ WithOffset(v, off).val \in Known(n)
         /\ IsRel(WithOffset(v, off).val)
         /\ WithOffset(v, off).val = RelocatableValue(v.seg, off)
         /\ off \in 0..UsizeMax
<1>1. off \in 0..UsizeMax
  BY DEF WithOffset, Err
<1>2. WithOffset(v, off) = Ok(RelocatableValue(v.seg, off))
  BY <1>1 DEF WithOffset
<1>3. v.seg \in Nat /\ v.seg < n /\ off \in Nat
  BY <1>1, KnownKinds, FieldAssumption
<1>4. RelocatableValue(v.seg, off) \in Known(n)
  BY <1>3, KnownMade
<1>5. IsRel(RelocatableValue(v.seg, off))
  BY <1>4, NoneAssumption, KnownKinds DEF IsRel, RelocatableValue
<1> QED
  BY <1>1, <1>2, <1>4, <1>5 DEF Ok

\* An offset of an instruction is added to a register.
LEMMA AddIntModKnown ==
  ASSUME NEW n, NEW v \in Known(n), NEW k, AddIntMod(v, k).err = "ok",
         IsRel(AddIntMod(v, k).val) \/ k \in Int
  PROVE  AddIntMod(v, k).val \in Known(n)
<1>1. CASE IsInt(v)
  <2>1. AddIntMod(v, k).val = IntValue((v.num + k) % Prime)
    BY <1>1 DEF AddIntMod, Ok
  <2>2. ~IsRel(AddIntMod(v, k).val)
    BY <2>1 DEF IsRel, IntValue
  <2>3. (v.num + k) % Prime \in Nat
    BY <2>2, <1>1, KnownKinds, FieldAssumption
  <2> QED
    BY <2>1, <2>3, KnownMade
<1>2. CASE ~IsInt(v)
  <2>1. IsRel(v) /\ AddIntMod(v, k) = WithOffset(v, (v.off + k) % Prime)
    BY <1>2, KnownKinds DEF AddIntMod, Err
  <2> QED
    BY <2>1, WithOffsetKnown
<1> QED
  BY <1>1, <1>2

\* A usize is a natural number.
LEMMA UsizeNatural ==
  ASSUME NEW k \in Int, Usize(k).err = "ok"
  PROVE  Usize(k).val \in Nat
<1>1. CASE k \in 0..UsizeMax
  BY <1>1, FieldAssumption DEF Usize, Ok
<1>2. CASE k \notin 0..UsizeMax
  <2>1. Usize(k) = Ok(k % (UsizeMax + 1))
    BY <1>2 DEF Usize, Err
  <2>2. k % (UsizeMax + 1) \in Nat
    BY FieldAssumption
  <2> QED
    BY <2>1, <2>2 DEF Ok
<1> QED
  BY <1>1, <1>2

\* A size is added to a register: an address stays one, of the same segment.
LEMMA AddUsizeKnown ==
  ASSUME NEW n, NEW v \in Known(n), NEW k \in Nat, AddUsize(v, k).err = "ok"
  PROVE  /\ AddUsize(v, k).val \in Known(n)
         /\ IsRel(v) => IsRel(AddUsize(v, k).val)
<1>1. CASE IsInt(v)
  <2>1. AddUsize(v, k).val = IntValue(v.num + k)
    BY <1>1 DEF AddUsize, Ok
  <2>2. v.num + k \in Nat /\ ~IsRel(v)
    BY <1>1, KnownKinds
  <2> QED
    BY <2>1, <2>2, KnownMade
<1>2. CASE ~IsInt(v)
  <2> DEFINE off == Usize(v.off + k)
  <2>1. v.off \in Nat /\ v.seg \in Nat /\ v.seg < n
    BY <1>2, KnownKinds
  <2>2. off.err = "ok" /\ AddUsize(v, k) = Ok(RelocatableValue(v.seg, off.val))
    BY <1>2 DEF AddUsize
  <2>3. off.val \in Nat
    BY <2>1, <2>2, UsizeNatural
  <2> HIDE DEF off
  <2>4. AddUsize(v, k).val = RelocatableValue(v.seg, off.val)
    BY <2>2 DEF Ok
  <2>5. RelocatableValue(v.seg, off.val) \in Known(n)
    BY <2>1, <2>3, KnownMade
  <2>6. IsRel(RelocatableValue(v.seg, off.val))
    BY <2>5, KnownKinds DEF IsRel, RelocatableValue
  <2> QED
    BY <2>4, <2>5, <2>6
<1> QED
  BY <1>1, <1>2

\* The same with the prime.
LEMMA AddUsizeModKnown ==
  ASSUME NEW n, NEW v \in Known(n), NEW k \in Nat, AddUsizeMod(v, k).err = "ok"
  PROVE  AddUsizeMod(v, k).val \in Known(n)
<1>1. CASE IsInt(v)
  <2>1. AddUsizeMod(v, k).val = IntValue((v.num + k) % Prime)
    BY <1>1 DEF AddUsizeMod, Ok
  <2>2. (v.num + k) % Prime \in Nat
    BY <1>1, KnownKinds, FieldAssumption
  <2> QED
    BY <2>1, <2>2, KnownMade
<1>2. CASE ~IsInt(v)
  BY <1>2, AddUsizeKnown DEF AddUsizeMod
<1> QED
  BY <1>1, <1>2

\* The sum of two known values, an address if the first of them is one.
LEMMA AddModKnown ==
  ASSUME NEW n, NEW v \in Known(n), NEW w \in Known(n), AddMod(v, w).err = "ok"
  PROVE  /\ AddMod(v, w).val \in Known(n)
         /\ IsRel(v) => IsRel(AddMod(v, w).val)
<1>0. ~(IsRel(v) /\ IsRel(w))
  BY KnownKinds DEF AddMod, Err
<1>1. CASE IsInt(v) /\ IsInt(w)
  <2>1. AddMod(v, w).val = IntValue((v.num + w.num) % Prime)
    BY <1>1 DEF AddMod, Ok
  <2>2. (v.num + w.num) % Prime \in Nat /\ ~IsRel(v)
    BY <1>1, KnownKinds, FieldAssumption
  <2> QED
    BY <2>1, <2>2, KnownMade
<1>2. CASE IsRel(v) /\ ~IsRel(w)
  <2>1. AddMod(v, w) = WithOffset(v, (v.off + w.num) % Prime)
    BY <1>2, KnownKinds DEF AddMod
  <2> QED
    BY <2>1, <1>2, WithOffsetKnown
<1>3. CASE IsInt(v) /\ IsRel(w)
  <2>1. AddMod(v, w) = WithOffset(w, (v.num + w.off) % Prime)
    BY <1>3, KnownKinds DEF AddMod
  <2> QED
    BY <2>1, <1>3, WithOffsetKnown
<1> QED
  BY <1>0, <1>1, <1>2, <1>3, KnownKinds

\* The difference of two known values.
LEMMA SubKnown ==
  ASSUME NEW n, NEW v \in Known(n), NEW w \in Known(n), Sub(v, w).err = "ok"
  PROVE  Sub(v, w).val \in Known(n)
<1>1. CASE IsInt(v) /\ IsInt(w)
  <2>1. Sub(v, w).val = IntValue((v.num - w.num) % Prime)
    BY <1>1 DEF Sub, Ok
  <2>2. (v.num - w.num) % Prime \in Nat
    BY <1>1, KnownKinds, FieldAssumption
  <2> QED
    BY <2>1, <2>2, KnownMade
<1>2. CASE IsRel(v) /\ IsRel(w)
  <2> DEFINE diff == Usize(v.off - w.off)
  <2>1. v.off - w.off \in Int
    BY <1>2, KnownKinds
  <2>2. diff.err = "ok" /\ Sub(v, w) = Ok(IntValue(diff.val))
    BY <1>2, KnownKinds DEF Sub, Err
  <2>3. diff.val \in Nat
    BY <2>1, <2>2, UsizeNatural
  <2> HIDE DEF diff
  <2> QED
    BY <2>2, <2>3, KnownMade DEF Ok
<1>3. CASE ~(IsInt(v) /\ IsInt(w)) /\ ~(IsRel(v) /\ IsRel(w))
  BY <1>3 DEF Sub, Err
<1> QED
  BY <1>1, <1>2, <1>3

\* Truncating division of naturals is division.
LEMMA TruncNatural ==
  ASSUME NEW a \in Nat, NEW b \in Nat, b > 0
  PROVE  /\ TruncDiv(a, b) = a \div b /\ a \div b \in Nat
         /\ TruncMod(a, b) = a % b /\ a % b \in Nat
<1>1. TruncDiv(a, b) = a \div b
  BY DEF TruncDiv
<1>2. a \div b \in Nat /\ a % b \in Nat /\ a - b * (a \div b) = a % b
  OBVIOUS
<1> QED
  BY <1>1, <1>2 DEF TruncMod

-----------------------------------------------------------------------------
(* Arithmetic.                                                             *)

\* The variables of the loop of igcdex.
EuclidStates == [a : Nat, b : Nat, x : Int, y : Int, r : Int, s : Int]

\* The loop of igcdex computes integers.
LEMMA EuclidTypes ==
  ASSUME NEW a \in Nat, NEW b \in Nat
  PROVE  Euclid(a, b)[1] \in Int
<1> DEFINE first   == [a |-> a, b |-> b, x |-> 1, y |-> 0, r |-> 0, s |-> 1]
           F(s)    == IF s.b = 0 THEN s ELSE EuclidRound(s)
           E(f)    == [k \in 0..b |-> IF k = 0 THEN first ELSE F(f[k - 1])]
           after   == CHOOSE f : f = E(f)
           step    == [k \in 1..b |-> [s \in EuclidStates |-> F(s)]]
<1>1. Euclid(a, b)[1] = after[b].x
  BY DEF Euclid
<1>2. first \in EuclidStates
  BY DEF EuclidStates
<1>3. ASSUME NEW s \in EuclidStates
      PROVE  F(s) \in EuclidStates
  <2>1. CASE s.b = 0
    BY <2>1
  <2>2. CASE s.b # 0
    <3> DEFINE q == s.a \div s.b
    <3>1. /\ s.a \in Nat /\ s.b \in Nat /\ s.b > 0
          /\ s.x \in Int /\ s.y \in Int /\ s.r \in Int /\ s.s \in Int
      BY <2>2 DEF EuclidStates
    <3>2. q \in Nat /\ s.a % s.b \in Nat
      BY <3>1
    <3>3. EuclidRound(s) = [a |-> s.b, b |-> s.a % s.b, x |-> s.r, y |-> s.s,
                            r |-> s.x - q * s.r, s |-> s.y - q * s.s]
      BY DEF EuclidRound
    <3> HIDE DEF q
    <3>4. q * s.r \in Int /\ q * s.s \in Int
      BY <3>1, <3>2
    <3>5. s.x - q * s.r \in Int /\ s.y - q * s.s \in Int
      BY <3>1, <3>4
    <3>6. EuclidRound(s) \in EuclidStates
      BY <3>1, <3>2, <3>3, <3>5 DEF EuclidStates
    <3> QED
      BY <2>2, <3>6
  <2> QED
    BY <2>1, <2>2
<1> HIDE DEF first, F
<1>4. step \in [1..b -> [EuclidStates -> EuclidStates]]
  BY <1>3
<1>5. \A k \in 1..b : \A s \in EuclidStates : step[k][s] = F(s)
  OBVIOUS
<1> HIDE DEF step
<1>6. Recursions(b, EuclidStates, first, step) # {}
  BY <1>2, <1>4, RecursionExists
<1>7. PICK f \in [0..b -> EuclidStates] :
        f[0] = first /\ \A k \in 1..b : f[k] = step[k][f[k - 1]]
  BY <1>6 DEF Recursions
<1>8. f = E(f)
  <2>1. \A k \in 0..b : f[k] = IF k = 0 THEN first ELSE F(f[k - 1])
    BY <1>5, <1>7
  <2> QED
    BY <2>1, <1>7
<1>9. after = E(after)
  BY <1>8
<1> HIDE DEF after
<1>10. after[0] = first /\ \A k \in 1..b : after[k] = F(after[k - 1])
  BY <1>9
<1>11. \A k \in 0..b : after[k] \in EuclidStates
  <2>1. \A k \in 1..b : after[k - 1] \in EuclidStates => after[k] \in EuclidStates
    BY <1>3, <1>10
  <2> QED
    BY <2>1, <1>2, <1>10, RecursionStays
<1> QED
  BY <1>1, <1>11 DEF EuclidStates

\* The first coefficient of igcdex is an integer.
LEMMA IgcdexTypes ==
  ASSUME NEW a \in Int, NEW b \in Int
  PROVE  Igcdex(a, b)[1] \in Int
<1>1. CASE a # 0 /\ b # 0
  <2>1. AbsoluteOf(a) \in Nat /\ AbsoluteOf(b) \in Nat /\ SignOf(a) \in {-1, 1}
    BY DEF AbsoluteOf, SignOf
  <2>2. Euclid(AbsoluteOf(a), AbsoluteOf(b))[1] \in Int
    BY <2>1, EuclidTypes
  <2>3. Igcdex(a, b)[1] = Euclid(AbsoluteOf(a), AbsoluteOf(b))[1] * SignOf(a)
    BY <1>1 DEF Igcdex
  <2> QED
    BY <2>1, <2>2, <2>3
<1>2. CASE a = 0 \/ b = 0
  BY <1>2 DEF Igcdex
<1> QED
  BY <1>1, <1>2

\* div_mod gives a residue.
LEMMA DivModTypes ==
  ASSUME NEW n \in Int, NEW m \in Int
  PROVE  DivMod(n, m, Prime) \in Nat
<1>1. Igcdex(m, Prime)[1] \in Int /\ Prime \in Nat /\ Prime > 0
  BY FieldAssumption, IgcdexTypes
<1>2. n * Igcdex(m, Prime)[1] \in Int
  BY <1>1
<1> QED
  BY <1>1, <1>2 DEF DivMod

\* Rust's remainder of an integer is an integer.
LEMMA TruncTypes ==
  ASSUME NEW a \in Int
  PROVE  TruncMod(a, Prime) \in Int
<1>1. Prime \in Nat /\ Prime > 0
  BY FieldAssumption
<1>2. TruncDiv(a, Prime) \in Int
  <2>1. CASE a >= 0
    BY <1>1, <2>1 DEF TruncDiv
  <2>2. CASE a < 0
    <3>1. TruncDiv(a, Prime) = -((-a) \div Prime)
      BY <1>1, <2>2 DEF TruncDiv
    <3>2. -a \in Nat
      BY <2>2
    <3>3. (-a) \div Prime \in Nat
      BY <1>1, <3>2
    <3> QED
      BY <3>1, <3>3
  <2> QED
    BY <2>1, <2>2
<1> QED
  BY <1>1, <1>2 DEF TruncMod

\* The points of ec_add and ec_double.
Points == Int \X Int

\* ec_add gives residues, ec_double integers.
LEMMA EcTypes ==
  ASSUME NEW a \in Points, NEW b \in Points
  PROVE  /\ EcAdd(a, b, Prime) \in Nat \X Nat
         /\ EcDouble(a, EcAlpha, Prime) \in Points
<1>1. /\ a[1] \in Int /\ a[2] \in Int /\ b[1] \in Int /\ b[2] \in Int
      /\ Prime \in Nat /\ Prime > 0
  BY FieldAssumption DEF Points
<1>2. EcAdd(a, b, Prime) \in Nat \X Nat
  <2> DEFINE m == LineSlope(a, b, Prime)
             x == (m * m - a[1] - b[1]) % Prime
  <2>1. m \in Nat
    <3>1. a[2] - b[2] \in Int /\ a[1] - b[1] \in Int
      BY <1>1
    <3> QED
      BY <3>1, DivModTypes DEF LineSlope
  <2> HIDE DEF m
  <2>2. m * m \in Int
    BY <2>1
  <2>3. x \in Nat
    BY <1>1, <2>2
  <2> HIDE DEF x
  <2>4. m * (a[1] - x) \in Int
    BY <1>1, <2>1, <2>3
  <2>5. (m * (a[1] - x) - a[2]) % Prime \in Nat
    BY <1>1, <2>4
  <2>6. EcAdd(a, b, Prime) = <<x, (m * (a[1] - x) - a[2]) % Prime>>
    BY DEF EcAdd, m, x
  <2> QED
    BY <2>3, <2>5, <2>6
<1>3. EcDouble(a, EcAlpha, Prime) \in Points
  <2> DEFINE m == EcDoubleSlope(a, EcAlpha, Prime)
             x == TruncMod(m * m - 2 * a[1], Prime)
  <2>1. m \in Nat
    <3>1. 3 * a[1] * a[1] \in Int
      BY <1>1
    <3>2. 3 * a[1] * a[1] + EcAlpha \in Int /\ 2 * a[2] \in Int
      BY <1>1, <3>1 DEF EcAlpha
    <3> QED
      BY <3>2, DivModTypes DEF EcDoubleSlope
  <2> HIDE DEF m
  <2>2. m * m \in Int
    BY <2>1
  <2>3. m * m - 2 * a[1] \in Int
    BY <1>1, <2>2
  <2>4. x \in Int
    BY <2>3, TruncTypes
  <2> HIDE DEF x
  <2>5. m * (a[1] - x) \in Int
    BY <1>1, <2>1, <2>4
  <2>6. (m * (a[1] - x) - a[2]) % Prime \in Int
    BY <1>1, <2>5
  <2>7. EcDouble(a, EcAlpha, Prime) = <<x, (m * (a[1] - x) - a[2]) % Prime>>
    BY DEF EcDouble, m, x
  <2> QED
    BY <2>4, <2>6, <2>7 DEF Points
<1> QED
  BY <1>2, <1>3

\* The variables of the loop of ec_op_impl.
EcStates ==
  [err : {"ok", "panic"}, partial : Nat \X Nat, doubled : Points, slope : Nat]

\* The sum of the ec_op builtin has residues for coordinates.
LEMMA EcOpTypes ==
  ASSUME NEW p \in Nat \X Nat, NEW d \in Nat \X Nat, NEW m \in Nat,
         EcOpImpl(p, d, m).err = "ok"
  PROVE  EcOpImpl(p, d, m).val \in Nat \X Nat
<1> DEFINE N       == EcHeight
           first   == [err |-> "ok", partial |-> p, doubled |-> d, slope |-> m]
           F(s)    == IF s.err = "ok" THEN EcRound(s) ELSE s
           E(f)    == [k \in 0..N |-> IF k = 0 THEN first ELSE F(f[k - 1])]
           after   == CHOOSE f : f = E(f)
           step    == [k \in 1..N |-> [s \in EcStates |-> F(s)]]
<1>1. EcOpImpl(p, d, m) = IF after[N].err = "ok" THEN Ok(after[N].partial)
                                                 ELSE Err(after[N].err)
  BY DEF EcOpImpl
<1>2. first \in EcStates
  BY DEF EcStates, Points
<1>3. ASSUME NEW s \in EcStates
      PROVE  F(s) \in EcStates
  <2>1. /\ s.partial \in Nat \X Nat /\ s.partial \in Points /\ s.doubled \in Points
        /\ s.slope \in Nat
    BY DEF EcStates, Points
  <2>2. /\ EcAdd(s.partial, s.doubled, Prime) \in Nat \X Nat
        /\ EcDouble(s.doubled, EcAlpha, Prime) \in Points
        /\ s.slope \div 2 \in Nat
    BY <2>1, EcTypes
  <2>3. EcRound(s) \in EcStates
    <3>1. [s EXCEPT !.err = "panic"] \in EcStates
      BY DEF EcStates
    <3>2. [err     |-> "ok",
           partial |-> IF s.slope % 2 # 0 THEN EcAdd(s.partial, s.doubled, Prime)
                       ELSE s.partial,
           doubled |-> EcDouble(s.doubled, EcAlpha, Prime),
           slope   |-> s.slope \div 2] \in EcStates
      BY <2>1, <2>2 DEF EcStates
    <3> QED
      BY <3>1, <3>2, ZenonT(30) DEF EcRound
  <2> QED
    BY <2>3
<1>4. N \in Nat
  BY EcAssumption
<1> HIDE DEF first, F, N
<1>5. step \in [1..N -> [EcStates -> EcStates]]
  BY <1>3
<1>6. \A k \in 1..N : \A s \in EcStates : step[k][s] = F(s)
  OBVIOUS
<1> HIDE DEF step
<1>7. Recursions(N, EcStates, first, step) # {}
  BY <1>2, <1>4, <1>5, RecursionExists
<1>8. PICK f \in [0..N -> EcStates] :
        f[0] = first /\ \A k \in 1..N : f[k] = step[k][f[k - 1]]
  BY <1>7 DEF Recursions
<1>9. f = E(f)
  <2>1. \A k \in 0..N : f[k] = IF k = 0 THEN first ELSE F(f[k - 1])
    BY <1>4, <1>6, <1>8
  <2> QED
    BY <2>1, <1>8
<1>10. after = E(after)
  BY <1>9
<1> HIDE DEF after
<1>11. after[0] = first /\ \A k \in 1..N : after[k] = F(after[k - 1])
  BY <1>4, <1>10
<1>12. after[N] \in EcStates
  <2>1. \A k \in 1..N : after[k - 1] \in EcStates => after[k] \in EcStates
    BY <1>3, <1>11
  <2>2. \A k \in 0..N : after[k] \in EcStates
    BY <2>1, <1>2, <1>4, <1>11, RecursionStays
  <2> QED
    BY <2>2, <1>4
<1> QED
  BY <1>1, <1>12 DEF EcStates, Ok, Err

-----------------------------------------------------------------------------
(* Builtins.                                                               *)

\* The cells hold values of a machine with n segments.
CellsKnown(data, n) == \A b \in Relocatables : Cell(data, b) \in Maybe(Known(n))

\* The address that is back cells before a.
LEMMA BackAddress ==
  ASSUME NEW a \in Relocatables, NEW back \in Nat, back <= a.off
  PROVE  /\ [a EXCEPT !.off = @ - back] \in Relocatables
         /\ [a EXCEPT !.off = @ - back] = RelocatableValue(a.seg, a.off - back)
<1>1. a.seg \in Nat /\ a.off \in Nat /\ a = RelocatableValue(a.seg, a.off)
  BY RelocatableFields
<1>2. [a EXCEPT !.off = @ - back] = RelocatableValue(a.seg, a.off - back)
  BY <1>1 DEF RelocatableValue, Relocatables
<1>3. RelocatableValue(a.seg, a.off - back) \in Relocatables
  BY <1>1 DEF RelocatableValue, Relocatables
<1> QED
  BY <1>2, <1>3

\* The cell of a hash whose inputs are there, and the hash.
HasInputs(memory, a) ==
  /\ a.off % HashCells = 2
  /\ IsInt(Back(memory, a, 2)) /\ IsInt(Back(memory, a, 1))
  /\ {Back(memory, a, 2).num, Back(memory, a, 1).num} \subseteq 0..(Prime - 1)

HashOf(memory, a) ==
  IntValue(Pedersen(Back(memory, a, 2).num, Back(memory, a, 1).num))

\* A hash is a number.
LEMMA HashKnown ==
  ASSUME NEW n, NEW memory, NEW a, HasInputs(memory, a)
  PROVE  HashOf(memory, a) \in Known(n)
<1>1. Pedersen(Back(memory, a, 2).num, Back(memory, a, 1).num) \in Nat
  BY BuiltinAssumption DEF HasInputs
<1> QED
  BY <1>1, KnownMade DEF HashOf

\* What the pedersen runner deduces.
LEMMA DeduceHashKnown ==
  ASSUME NEW n, NEW memory, NEW a, NEW verified,
         DeduceHash(memory, verified, a).err = "ok"
  PROVE  LET d == DeduceHash(memory, verified, a)
         IN  /\ d.val \in Maybe(Known(n))
             /\ \/ d.verified = verified
                \/ /\ d.verified = verified \union {a}
                   /\ HasInputs(memory, a) /\ d.val = HashOf(memory, a)
<1> DEFINE x == Back(memory, a, 2)
           y == Back(memory, a, 1)
           d == DeduceHash(memory, verified, a)
<1>1. CASE a.off % HashCells # 2 \/ a \in verified \/ ~(IsInt(x) /\ IsInt(y))
  BY <1>1 DEF DeduceHash, Deduced, Ok, Maybe
<1>2. CASE ~(a.off % HashCells # 2 \/ a \in verified \/ ~(IsInt(x) /\ IsInt(y)))
  <2>1. d = Deduced(IF {x.num, y.num} \subseteq 0..(Prime - 1)
                    THEN Ok(IntValue(Pedersen(x.num, y.num)))
                    ELSE Err("FailedStringConversion"), verified \union {a})
    BY <1>2 DEF DeduceHash
  <2>2. {x.num, y.num} \subseteq 0..(Prime - 1)
    BY <2>1 DEF Deduced, Err
  <2>3. HasInputs(memory, a)
    BY <1>2, <2>2 DEF HasInputs
  <2>4. d.verified = verified \union {a} /\ d.val = HashOf(memory, a)
    BY <2>1, <2>2 DEF Deduced, Ok, HashOf
  <2>5. Pedersen(x.num, y.num) \in Nat
    BY <2>2, BuiltinAssumption
  <2> HIDE DEF d
  <2>6. HashOf(memory, a) \in Known(n)
    BY <2>5, KnownMade DEF HashOf
  <2> QED
    BY <2>3, <2>4, <2>6 DEF Maybe, d
<1> QED
  BY <1>1, <1>2

\* An offset is not smaller than its place in its instance.
LEMMA PlaceInInstance ==
  ASSUME NEW off \in Nat, NEW size \in Nat, size > 0
  PROVE  off % size \in 0..(size - 1) /\ off % size <= off
  OBVIOUS

\* What the bitwise runner deduces.
LEMMA DeduceBitwiseKnown ==
  ASSUME NEW n, NEW memory, CellsKnown(memory.data, n), NEW a \in Relocatables,
         DeduceBitwise(memory, a).err = "ok"
  PROVE  DeduceBitwise(memory, a).val \in Maybe(Known(n))
<1> DEFINE index == a.off % BitwiseCells
           x == Back(memory, a, index)
           y == Back(memory, a, index - 1)
<1>1. a.off \in Nat /\ index \in 0..4 /\ index <= a.off
  BY RelocatableFields, PlaceInInstance DEF BitwiseCells
<1>2. CASE index \in {0, 1} \/ ~(IsInt(x) /\ IsInt(y))
  <2>1. DeduceBitwise(memory, a) = Ok(None)
    BY <1>2 DEF DeduceBitwise
  <2> QED
    BY <2>1 DEF Ok, Maybe
<1>3. CASE ~(index \in {0, 1} \/ ~(IsInt(x) /\ IsInt(y)))
  <2>1. DeduceBitwise(memory, a) =
          IF x.num >= BitwiseBound \/ y.num >= BitwiseBound THEN Err("panic")
          ELSE Ok(IntValue(BitwiseOf(index, x.num, y.num)))
    BY <1>3 DEF DeduceBitwise
  <2>2. /\ DeduceBitwise(memory, a).val = IntValue(BitwiseOf(index, x.num, y.num))
        /\ ~(x.num >= BitwiseBound) /\ ~(y.num >= BitwiseBound)
    BY <2>1 DEF Ok, Err
  <2> HIDE DEF index
  <2>3. index \in 2..4 /\ index - 1 \in Nat /\ index \in Nat
    BY <1>1, <1>3
  <2>4. x \in Known(n) /\ y \in Known(n)
    <3>1. /\ [a EXCEPT !.off = @ - index] \in Relocatables
          /\ [a EXCEPT !.off = @ - (index - 1)] \in Relocatables
      BY <1>1, <2>3, BackAddress
    <3> QED
      BY <1>3, <3>1 DEF Back, CellsKnown, Maybe, IsInt
  <2>5. x.num \in Nat /\ y.num \in Nat
    BY <1>3, <2>4, KnownKinds
  <2> HIDE DEF x, y
  <2>6. BitwiseOf(index, x.num, y.num) \in Nat
    <3>1. BitwiseBound \in Nat
      BY BuiltinAssumption
    <3>2. x.num \in 0..(BitwiseBound - 1) /\ y.num \in 0..(BitwiseBound - 1)
      BY <2>2, <2>5, <3>1
    <3> QED
      BY <2>3, <3>2, BuiltinAssumption
  <2> QED
    BY <2>2, <2>6, KnownMade DEF Maybe
<1> QED
  BY <1>2, <1>3

\* What the ec_op runner deduces.
LEMMA DeduceEcOpKnown ==
  ASSUME NEW n, NEW memory, CellsKnown(memory.data, n), NEW a \in Relocatables,
         DeduceEcOp(memory, a).err = "ok"
  PROVE  DeduceEcOp(memory, a).val \in Maybe(Known(n))
<1> DEFINE index == a.off % EcOpCells
           input(i) == Back(memory, a, index - i + 1)
           odd == {i \in 1..EcOpInputs : ~IsInt(input(i))}
           first == CHOOSE i \in odd : \A j \in odd : i <= j
           num(i) == input(i).num
           sum == EcOpImpl(<<num(1), num(2)>>, <<num(3), num(4)>>, num(5))
<1>1. a.off \in Nat /\ index \in 0..6 /\ index <= a.off
  BY RelocatableFields, PlaceInInstance DEF EcOpCells
<1>2. CASE index < EcOpInputs
  BY <1>2 DEF DeduceEcOp, Ok, Maybe
<1>3. CASE ~(index < EcOpInputs) /\ odd # {}
  <2>1. DeduceEcOp(memory, a) = IF input(first) = None THEN Ok(None) ELSE Err("ExpectedInteger")
    BY <1>3 DEF DeduceEcOp
  <2> QED
    BY <2>1 DEF Ok, Err, Maybe
<1>4. CASE ~(index < EcOpInputs) /\ odd = {}
  <2> DEFINE coordinate == IF sum.err # "ok" THEN Err("panic")
                           ELSE Ok(IntValue(sum.val[index - EcOpInputs + 1]))
             answer == IF num(5) >= Prime THEN Err("EcOpBuiltinScalarLimit")
                       ELSE IF ~PointOnCurve(<<num(1), num(2)>>) THEN Err("panic")
                       ELSE coordinate
  <2>1. DeduceEcOp(memory, a) = answer
    <3>1. DeduceEcOp(memory, a) =
            IF index < EcOpInputs THEN Ok(None)
            ELSE IF odd # {} THEN IF input(first) = None THEN Ok(None) ELSE Err("ExpectedInteger")
            ELSE answer
      BY DEF DeduceEcOp
    <3> HIDE DEF index, odd, answer
    <3> QED
      BY <1>4, <3>1
  <2>2. sum.err = "ok" /\ DeduceEcOp(memory, a).val = IntValue(sum.val[index - EcOpInputs + 1])
    <3> HIDE DEF num, sum, index
    <3>1. answer.err = "ok"
      BY <2>1
    <3>2. answer = coordinate
      BY <3>1 DEF Err
    <3>3. sum.err = "ok"
      BY <3>1, <3>2 DEF Err
    <3> QED
      BY <2>1, <3>2, <3>3 DEF Ok
  <2>3. \A i \in 1..EcOpInputs : num(i) \in Nat
    <3> SUFFICES ASSUME NEW i \in 1..EcOpInputs
                 PROVE  num(i) \in Nat
      OBVIOUS
    <3>1. IsInt(input(i))
      BY <1>4
    <3> HIDE DEF index
    <3>2. index - i + 1 \in Nat /\ index - i + 1 <= a.off
      BY <1>1, <1>4 DEF EcOpInputs
    <3>3. input(i) \in Known(n)
      BY <1>1, <3>1, <3>2, BackAddress DEF Back, CellsKnown, Maybe, IsInt
    <3> QED
      BY <3>1, <3>3, KnownKinds
  <2>4. /\ <<num(1), num(2)>> \in Nat \X Nat /\ <<num(3), num(4)>> \in Nat \X Nat
        /\ num(5) \in Nat
    BY <2>3 DEF EcOpInputs
  <2> HIDE DEF num
  <2>5. sum.val \in Nat \X Nat
    BY <2>2, <2>4, EcOpTypes
  <2> HIDE DEF sum, index
  <2>6. index - EcOpInputs + 1 \in {1, 2}
    BY <1>1, <1>4 DEF EcOpInputs
  <2>7. sum.val[index - EcOpInputs + 1] \in Nat
    BY <2>5, <2>6
  <2> QED
    BY <2>2, <2>7, KnownMade DEF Maybe
<1> QED
  BY <1>2, <1>3, <1>4

\* What a runner answers: nothing or a value of the machine; and it marks no
\* cell but the one it gives the hash for.
LEMMA DeduceByKnown ==
  ASSUME NEW n, NEW memory, CellsKnown(memory.data, n), NEW a \in Relocatables,
         NEW runner, NEW verified,
         DeduceBy(runner, memory, verified, a).err = "ok"
  PROVE  LET d == DeduceBy(runner, memory, verified, a)
         IN  /\ d.val \in Maybe(Known(n))
             /\ \/ d.verified = verified
                \/ /\ d.verified = verified \union {a}
                   /\ HasInputs(memory, a) /\ d.val = HashOf(memory, a)
<1>1. CASE runner.name = "pedersen"
  <2>1. DeduceBy(runner, memory, verified, a) = DeduceHash(memory, verified, a)
    BY <1>1 DEF DeduceBy
  <2> QED
    BY <2>1, DeduceHashKnown
<1>2. CASE runner.name = "bitwise"
  <2>1. DeduceBy(runner, memory, verified, a) = Deduced(DeduceBitwise(memory, a), verified)
    BY <1>2 DEF DeduceBy
  <2> QED
    BY <2>1, DeduceBitwiseKnown DEF Deduced
<1>3. CASE runner.name = "ec_op"
  <2>1. DeduceBy(runner, memory, verified, a) = Deduced(DeduceEcOp(memory, a), verified)
    BY <1>3 DEF DeduceBy
  <2> QED
    BY <2>1, DeduceEcOpKnown DEF Deduced
<1>4. CASE runner.name \notin {"pedersen", "bitwise", "ec_op"}
  BY <1>4 DEF DeduceBy, Deduced, Ok, Maybe
<1> QED
  BY <1>1, <1>2, <1>3, <1>4

\* The same of deduce_memory_cell, for any address.
LEMMA DeduceMemoryCellKnown ==
  ASSUME NEW n, NEW memory, CellsKnown(memory.data, n), NEW a \in Relocatables,
         NEW runners, NEW verified,
         DeduceMemoryCell(runners, memory, verified, a).err = "ok"
  PROVE  LET d == DeduceMemoryCell(runners, memory, verified, a)
         IN  /\ d.val \in Maybe(Known(n))
             /\ \/ d.verified = verified
                \/ /\ d.verified = verified \union {a}
                   /\ HasInputs(memory, a) /\ d.val = HashOf(memory, a)
<1> DEFINE first == CHOOSE i \in RunnersOf(runners, a.seg) :
                      \A j \in RunnersOf(runners, a.seg) : i <= j
<1>1. IsRel(a)
  BY RelocatableFields
<1>2. CASE RunnersOf(runners, a.seg) = {}
  BY <1>1, <1>2 DEF DeduceMemoryCell, Deduced, Ok, Maybe
<1>3. CASE RunnersOf(runners, a.seg) # {}
  <2>1. DeduceMemoryCell(runners, memory, verified, a) =
          DeduceBy(runners[first], memory, verified, a)
    BY <1>1, <1>3 DEF DeduceMemoryCell
  <2> DEFINE r == runners[first]
             d == DeduceBy(r, memory, verified, a)
  <2> HIDE DEF first, r
  <2>2. d.err = "ok"
    BY <2>1 DEF r
  <2>3. /\ d.val \in Maybe(Known(n))
        /\ \/ d.verified = verified
           \/ /\ d.verified = verified \union {a}
              /\ HasInputs(memory, a) /\ d.val = HashOf(memory, a)
    BY <2>2, DeduceByKnown
  <2> QED
    BY <2>1, <2>3 DEF r
<1> QED
  BY <1>2, <1>3

-----------------------------------------------------------------------------
(* The memory of a machine.                                                *)

\* A memory with n segments that holds values of a machine with n segments.
MachineMemory(m, n) ==
  /\ MemoryInv(m, Relocatables)
  /\ Len(m.data) = n
  /\ CellsKnown(m.data, n)

\* n is m after some calls that add no rule: no cell changed, no validation
\* withdrawn.
Extends(m, n) ==
  /\ n.validation_rules = m.validation_rules
  /\ m.validated_addresses \subseteq n.validated_addresses
  /\ Len(m.data) <= Len(n.data)
  /\ \A b \in Relocatables :
       Cell(m.data, b) # None => Cell(n.data, b) = Cell(m.data, b)

\* Extending a memory is transitive, and so is having validated what is new.
LEMMA ExtendsTransitive ==
  ASSUME NEW m, NEW n, NEW k, Extends(m, n), Extends(n, k),
         Len(m.data) \in Nat, Len(n.data) \in Nat, Len(k.data) \in Nat
  PROVE  /\ Extends(m, k)
         /\ NewAreValidated(m, n) /\ NewAreValidated(n, k) => NewAreValidated(m, k)
  BY DEF Extends, NewAreValidated

\* A memory extends itself.
LEMMA ExtendsItself ==
  ASSUME NEW m, Len(m.data) \in Nat
  PROVE  Extends(m, m) /\ NewAreValidated(m, m)
  BY DEF Extends, NewAreValidated

\* An insert of a value of the machine keeps its memory.
LEMMA InsertKeeps ==
  ASSUME NEW n \in Nat, NEW m, MachineMemory(m, n), NEW val \in Known(n),
         NEW key, IsRel(key) => key \in Relocatables
  PROVE  LET r == Insert(m, key, val)
         IN  /\ MachineMemory(r.memory, n)
             /\ Extends(m, r.memory)
             /\ r.err = "ok" => NewAreValidated(m, r.memory)
<1> DEFINE r == Insert(m, key, val)
<1>1. MemoryInv(m, Relocatables) /\ val \in Values /\ Len(m.data) = n
  BY KnownKinds DEF MachineMemory
<1>2. MemoryInv(r.memory, Relocatables) /\ Grows(m, r.memory)
  BY <1>1, AllWithin, InsertStep
<1>3. \A b \in Relocatables : \/ Cell(r.memory.data, b) = Cell(m.data, b)
                              \/ b = key /\ Cell(r.memory.data, b) = val
  BY <1>1, InsertCells
<1>4. r.err = "ok" => NewAreValidated(m, r.memory)
  <2> SUFFICES ASSUME r.err = "ok"
               PROVE  NewAreValidated(m, r.memory)
    OBVIOUS
  <2>1. r.err \notin ValidationErrors
    BY DEF ValidationErrors
  <2> QED
    BY <2>1, <1>1, AllWithin, InsertValidates
<1> HIDE DEF r
<1>5. Len(r.memory.data) = n
  BY <1>1, <1>2 DEF Grows
<1>6. CellsKnown(r.memory.data, n)
  BY <1>3 DEF MachineMemory, CellsKnown, Maybe
<1>7. Extends(m, r.memory)
  BY <1>1, <1>2, <1>5 DEF Grows, Extends
<1> QED
  BY <1>2, <1>4, <1>5, <1>6, <1>7 DEF MachineMemory, r

\* A new segment keeps the memory of the machine, which has one more.
LEMMA NewSegmentKeeps ==
  ASSUME NEW n \in Nat, NEW m, MachineMemory(m, n)
  PROVE  /\ MachineMemory(WithNewSegment(m), n + 1)
         /\ Extends(m, WithNewSegment(m))
         /\ NewAreValidated(m, WithNewSegment(m))
         /\ \A b \in Relocatables : Cell(WithNewSegment(m).data, b) = Cell(m.data, b)
<1> DEFINE k == WithNewSegment(m)
<1>1. MemoryInv(m, Relocatables) /\ Len(m.data) = n /\ CellsKnown(m.data, n)
  BY DEF MachineMemory
<1>2. /\ MemoryInv(k, Relocatables)
      /\ Len(k.data) = Len(m.data) + 1
      /\ k.validated_addresses = m.validated_addresses
      /\ k.validation_rules = m.validation_rules
      /\ \A b \in Relocatables : Cell(k.data, b) = Cell(m.data, b)
  BY <1>1, AllWithin, NewSegmentStep
<1> HIDE DEF k
<1>3. Known(n) \subseteq Known(n + 1)
  BY KnownGrows
<1>4. MachineMemory(k, n + 1)
  BY <1>1, <1>2, <1>3 DEF MachineMemory, CellsKnown, Maybe
<1>5. Extends(m, k) /\ NewAreValidated(m, k)
  BY <1>1, <1>2 DEF Extends, NewAreValidated
<1> QED
  BY <1>2, <1>4, <1>5 DEF k

\* The inputs of a hash stay in an extended memory, and the hash with them.
LEMMA InputsStay ==
  ASSUME NEW m, NEW k, Extends(m, k), NEW a \in Relocatables, HasInputs(m, a)
  PROVE  HasInputs(k, a) /\ HashOf(k, a) = HashOf(m, a)
<1>1. a.off \in Nat /\ a.off % 3 = 2
  BY RelocatableFields DEF HasInputs, HashCells
<1>2. a.off >= 2
  BY <1>1
<1>3. /\ [a EXCEPT !.off = @ - 2] \in Relocatables
      /\ [a EXCEPT !.off = @ - 1] \in Relocatables
  BY <1>1, <1>2, BackAddress
<1>4. Back(m, a, 2) # None /\ Back(m, a, 1) # None
  BY DEF HasInputs, IsInt
<1>5. Back(k, a, 2) = Back(m, a, 2) /\ Back(k, a, 1) = Back(m, a, 1)
  BY <1>3, <1>4 DEF Extends, Back
<1> QED
  BY <1>5 DEF HasInputs, HashOf

-----------------------------------------------------------------------------
(* Machines.                                                               *)

TraceEntries == [pc : Relocatables, ap : Relocatables, fp : Relocatables]
HintTables   == UNION {[D -> Seq(STRING)] : D \in SUBSET Relocatables}
Runners      == Seq([name : STRING, base : Maybe(Relocatables)])

Machines ==
  [pc : Values, ap : Relocatables, fp : Values,
   memory : Memories(Relocatables), num_segments : Nat,
   segment_used_sizes : Maybe(Seq(Nat)),
   builtin_runners : Runners, verified_addresses : SUBSET Relocatables,
   hints : HintTables, trace : Maybe(Seq(TraceEntries)), current_step : Nat]

\* What holds of a vm whatever it is doing: its counter of segments is right,
\* and its registers and cells hold values of a machine with that many.
MachineInv(vm) ==
  /\ vm \in Machines
  /\ MachineMemory(vm.memory, vm.num_segments)
  /\ vm.pc \in Known(vm.num_segments)
  /\ vm.ap \in Known(vm.num_segments)
  /\ vm.fp \in Known(vm.num_segments)

\* What no step of a vm changes.
Continues(vm, w) ==
  /\ Extends(vm.memory, w.memory)
  /\ vm.num_segments <= w.num_segments
  /\ w.builtin_runners = vm.builtin_runners
  /\ w.hints = vm.hints
  /\ w.segment_used_sizes = vm.segment_used_sizes

\* A vm with another memory.
LEMMA WithMemory ==
  ASSUME NEW vm \in Machines, NEW m \in Memories(Relocatables),
         NEW w, w = [vm EXCEPT !.memory = m]
  PROVE  /\ w \in Machines /\ w.memory = m
         /\ w.pc = vm.pc /\ w.ap = vm.ap /\ w.fp = vm.fp
         /\ w.num_segments = vm.num_segments
         /\ w.segment_used_sizes = vm.segment_used_sizes
         /\ w.builtin_runners = vm.builtin_runners
         /\ w.verified_addresses = vm.verified_addresses
         /\ w.hints = vm.hints /\ w.trace = vm.trace
         /\ w.current_step = vm.current_step
  BY DEF Machines

-----------------------------------------------------------------------------
(* Hints.                                                                  *)

\* What hints do to a vm: they may add segments and assign the cell at ap.
Hinted(vm, w, err) ==
  /\ MachineInv(w)
  /\ Continues(vm, w)
  /\ w.pc = vm.pc /\ w.ap = vm.ap /\ w.fp = vm.fp
  /\ w.verified_addresses = vm.verified_addresses
  /\ w.trace = vm.trace /\ w.current_step = vm.current_step
  /\ \A b \in Relocatables :
       b = vm.ap \/ Cell(w.memory.data, b) = Cell(vm.memory.data, b)
  /\ err = "ok" => NewAreValidated(vm.memory, w.memory)

\* A vm is what no hint makes of it, and two hints are hints.
LEMMA HintedTransitive ==
  ASSUME NEW u, MachineInv(u), NEW v, NEW w, NEW err, Hinted(u, v, "ok"), Hinted(v, w, err)
  PROVE  Hinted(u, u, "ok") /\ Hinted(u, w, err)
<1>1. /\ Len(u.memory.data) \in Nat /\ Len(v.memory.data) \in Nat
      /\ Len(w.memory.data) \in Nat
  BY SegmentsCounted DEF MachineInv, MachineMemory, Hinted
<1>2. u.num_segments \in Nat /\ v.num_segments \in Nat /\ w.num_segments \in Nat
  BY DEF Hinted, MachineInv, Machines
<1>3. Extends(u.memory, u.memory) /\ NewAreValidated(u.memory, u.memory)
  BY <1>1, ExtendsItself
<1>4. /\ Extends(u.memory, w.memory)
      /\ NewAreValidated(u.memory, v.memory) /\ NewAreValidated(v.memory, w.memory) =>
           NewAreValidated(u.memory, w.memory)
  BY <1>1, ExtendsTransitive DEF Hinted, Continues
<1>5. Hinted(u, u, "ok")
  BY <1>2, <1>3 DEF Hinted, Continues
<1>6. Continues(u, w)
  BY <1>2, <1>4 DEF Hinted, Continues
<1>7. \A b \in Relocatables :
        b = u.ap \/ Cell(w.memory.data, b) = Cell(u.memory.data, b)
  BY DEF Hinted
<1>8. Hinted(u, w, err)
  BY <1>4, <1>6, <1>7 DEF Hinted
<1> QED
  BY <1>5, <1>8

\* A hint that inserts a value of the machine at ap.
LEMMA InsertHintStep ==
  ASSUME NEW vm, MachineInv(vm), NEW val \in Known(vm.num_segments)
  PROVE  LET r == InsertHint(vm, vm.ap, val) IN Hinted(vm, r.vm, r.err)
<1> DEFINE i == Insert(vm.memory, vm.ap, val)
           w == [vm EXCEPT !.memory = i.memory]
           n == vm.num_segments
<1>1. /\ vm \in Machines /\ n \in Nat /\ vm.ap \in Relocatables
      /\ MachineMemory(vm.memory, n) /\ MemoryInv(vm.memory, Relocatables)
  BY DEF MachineInv, Machines, MachineMemory
<1>2. /\ MachineMemory(i.memory, n) /\ Extends(vm.memory, i.memory)
      /\ i.err = "ok" => NewAreValidated(vm.memory, i.memory)
  BY <1>1, InsertKeeps
<1>3. \A b \in Relocatables : b = vm.ap \/ Cell(i.memory.data, b) = Cell(vm.memory.data, b)
  <2>1. val \in Values
    BY KnownKinds
  <2> QED
    BY <2>1, <1>1, InsertCells
<1>4. InsertHint(vm, vm.ap, val).vm = w /\ InsertHint(vm, vm.ap, val).err = i.err
  BY DEF InsertHint, Result
<1> HIDE DEF i
<1>5. i.memory \in Memories(Relocatables)
  BY <1>2 DEF MachineMemory, MemoryInv
<1> DEFINE w2 == w
<1>6. w2 = [vm EXCEPT !.memory = i.memory]
  OBVIOUS
<1> HIDE DEF w2, n
<1>7. /\ w2 \in Machines /\ w2.memory = i.memory
      /\ w2.pc = vm.pc /\ w2.ap = vm.ap /\ w2.fp = vm.fp
      /\ w2.num_segments = vm.num_segments
      /\ w2.segment_used_sizes = vm.segment_used_sizes
      /\ w2.builtin_runners = vm.builtin_runners
      /\ w2.verified_addresses = vm.verified_addresses
      /\ w2.hints = vm.hints /\ w2.trace = vm.trace
      /\ w2.current_step = vm.current_step
  BY <1>1, <1>5, <1>6, WithMemory
<1>8. MachineInv(w2)
  BY <1>2, <1>7 DEF MachineInv, n
<1>9. Continues(vm, w2)
  BY <1>1, <1>2, <1>7 DEF Continues, n
<1>10. Hinted(vm, w2, i.err)
  BY <1>2, <1>3, <1>7, <1>8, <1>9 DEF Hinted
<1> QED
  BY <1>4, <1>10 DEF w2

\* add_segment: the new segment exists before its base is stored.
LEMMA AddSegmentHintStep ==
  ASSUME NEW vm, MachineInv(vm)
  PROVE  LET r == AddSegmentHint(vm) IN Hinted(vm, r.vm, r.err)
<1> DEFINE n == vm.num_segments
           m == WithNewSegment(vm.memory)
           w == [vm EXCEPT !.memory = m, !.num_segments = n + 1]
           base == RelocatableValue(n, 0)
<1>1. vm \in Machines /\ n \in Nat /\ MachineMemory(vm.memory, n)
  BY DEF MachineInv, Machines
<1>2. /\ MachineMemory(m, n + 1) /\ Extends(vm.memory, m) /\ NewAreValidated(vm.memory, m)
      /\ \A b \in Relocatables : Cell(m.data, b) = Cell(vm.memory.data, b)
  BY <1>1, NewSegmentKeeps
<1>3. AddSegmentHint(vm) = InsertHint(w, vm.ap, base)
  <2>1. [vm EXCEPT !.memory = WithNewSegment(@), !.num_segments = @ + 1] = w
    BY <1>1 DEF Machines
  <2> QED
    BY <2>1 DEF AddSegmentHint
<1> DEFINE w2 == w
<1> HIDE DEF m
<1>4. w2 = [vm EXCEPT !.memory = m, !.num_segments = n + 1]
  OBVIOUS
<1> HIDE DEF w2
<1> DEFINE k == n + 1
<1>5. m \in Memories(Relocatables) /\ k \in Nat /\ w2 = [vm EXCEPT !.memory = m, !.num_segments = k]
  BY <1>1, <1>2, <1>4 DEF MachineMemory, MemoryInv
<1> HIDE DEF k
<1>6. /\ w2 \in Machines /\ w2.memory = m /\ w2.num_segments = k
      /\ w2.pc = vm.pc /\ w2.ap = vm.ap /\ w2.fp = vm.fp
      /\ w2.segment_used_sizes = vm.segment_used_sizes
      /\ w2.builtin_runners = vm.builtin_runners
      /\ w2.verified_addresses = vm.verified_addresses
      /\ w2.hints = vm.hints /\ w2.trace = vm.trace
      /\ w2.current_step = vm.current_step
  BY <1>1, <1>5 DEF Machines
<1> USE DEF k
<1>7. n <= n + 1 /\ Known(n) \subseteq Known(n + 1)
  BY <1>1, KnownGrows
<1>8. MachineInv(w2)
  BY <1>2, <1>6, <1>7 DEF MachineInv
<1>9. Hinted(vm, w2, "ok")
  BY <1>2, <1>6, <1>7, <1>8 DEF Hinted, Continues
<1>10. base \in Known(n + 1)
  BY <1>1, KnownMade
<1> DEFINE r == InsertHint(w2, w2.ap, base)
<1>11. Hinted(w2, r.vm, r.err)
  BY <1>6, <1>8, <1>10, InsertHintStep
<1>12. AddSegmentHint(vm) = r
  BY <1>3, <1>6 DEF w2
<1> HIDE DEF r
<1>13. Hinted(vm, r.vm, r.err)
  BY <1>9, <1>11, HintedTransitive
<1> QED
  BY <1>12, <1>13

\* The hints of the code, and those of the library that leave an integer at ap.
LEMMA ExecuteHintStep ==
  ASSUME NEW vm, MachineInv(vm), NEW code, NEW answer \in Maybe(Naturals)
  PROVE  LET r == ExecuteHint(vm, code, answer) IN Hinted(vm, r.vm, r.err)
<1> DEFINE r == ExecuteHint(vm, code, answer)
<1>0. Len(vm.memory.data) \in Nat /\ vm.num_segments \in Nat
  BY SegmentsCounted DEF MachineInv, MachineMemory, Machines
<1>1. \A err : Hinted(vm, vm, err)
  BY <1>0, ExtendsItself DEF Hinted, Continues
<1>2. CASE code = "ADD_SEGMENT"
  <2>1. r = AddSegmentHint(vm)
    BY <1>2 DEF ExecuteHint
  <2> QED
    BY <2>1, AddSegmentHintStep
<1>3. CASE code = "IS_NN" /\ answer # None
  <2>1. r = InsertHint(vm, vm.ap, answer)
    BY <1>3 DEF ExecuteHint
  <2>2. answer \in Known(vm.num_segments)
    BY <1>3 DEF Maybe, Known
  <2> QED
    BY <2>1, <2>2, InsertHintStep
<1>4. CASE code # "ADD_SEGMENT" /\ ~(code = "IS_NN" /\ answer # None)
  <2>1. r.vm = vm
    BY <1>4 DEF ExecuteHint, Result
  <2> QED
    BY <2>1, <1>1
<1> QED
  BY <1>2, <1>3, <1>4

\* The hints of a pc do to the vm what each of them does.
LEMMA ExecuteHintsStep ==
  ASSUME NEW vm, MachineInv(vm), NEW answer \in Maybe(Naturals)
  PROVE  LET r == ExecuteHints(vm, answer)
         IN  /\ Hinted(vm, r.vm, r.err)
             /\ vm.pc \notin DOMAIN vm.hints => r = Result(vm, "ok")
<1> DEFINE codes   == HintsAt(vm)
           N       == Len(codes)
           first   == Result(vm, "ok")
           F(n, s) == IF s.err # "ok" THEN s ELSE ExecuteHint(s.vm, codes[n], answer)
           E(f)    == [n \in 0..N |-> IF n = 0 THEN first ELSE F(n, f[n - 1])]
           after   == CHOOSE f : f = E(f)
           errors  == {"ok"} \union {ExecuteHint(v, codes[n], answer).err :
                                       v \in Machines, n \in 1..N}
           S       == {s \in [vm : Machines, err : errors] : Hinted(vm, s.vm, s.err)}
           step    == [n \in 1..N |-> [s \in S |-> F(n, s)]]
<1>1. ExecuteHints(vm, answer) = after[N]
  <2>1. after = CHOOSE f : f = [n \in 0..N |->
                  IF n = 0 THEN first
                  ELSE IF f[n - 1].err # "ok" THEN f[n - 1]
                  ELSE ExecuteHint(f[n - 1].vm, codes[n], answer)]
    OBVIOUS
  <2> QED
    BY DEF ExecuteHints
<1>2. codes \in Seq(STRING) /\ N \in Nat
  <2>1. vm.hints \in HintTables
    BY DEF MachineInv, Machines
  <2>2. PICK D \in SUBSET Relocatables : vm.hints \in [D -> Seq(STRING)]
    BY <2>1 DEF HintTables
  <2>3. codes \in Seq(STRING)
    <3>1. vm.pc \in DOMAIN vm.hints => vm.hints[vm.pc] \in Seq(STRING)
      BY <2>2
    <3>2. << >> \in Seq(STRING)
      OBVIOUS
    <3> QED
      BY <3>1, <3>2 DEF HintsAt
  <2> QED
    BY <2>3, LenProperties
<1>3. first \in S
  <2>1. Len(vm.memory.data) \in Nat /\ vm.num_segments \in Nat /\ vm \in Machines
    BY SegmentsCounted DEF MachineInv, MachineMemory, Machines
  <2>2. Hinted(vm, vm, "ok")
    BY <2>1, ExtendsItself DEF Hinted, Continues
  <2> QED
    BY <2>1, <2>2 DEF Result
<1>4. ASSUME NEW n \in 1..N, NEW s \in S
      PROVE  F(n, s) \in S
  <2>1. s.vm \in Machines /\ Hinted(vm, s.vm, s.err) /\ MachineInv(s.vm)
    BY DEF Hinted
  <2>2. CASE s.err # "ok"
    BY <2>2
  <2>3. CASE s.err = "ok"
    <3> DEFINE r == ExecuteHint(s.vm, codes[n], answer)
    <3>1. Hinted(s.vm, r.vm, r.err)
      BY <2>1, ExecuteHintStep
    <3>2. Hinted(vm, r.vm, r.err)
      BY <2>1, <2>3, <3>1, HintedTransitive
    <3>3. r.vm \in Machines
      BY <3>2 DEF Hinted, MachineInv
    <3>4. r.err \in errors
      BY <2>1
    <3>5. r = [vm |-> r.vm, err |-> r.err]
      BY DEF ExecuteHint, AddSegmentHint, InsertHint, Result
    <3>6. F(n, s) = r
      BY <2>3
    <3> HIDE DEF r, F, errors
    <3>7. r \in S
      BY <3>2, <3>3, <3>4, <3>5
    <3> QED
      BY <3>6, <3>7
  <2> QED
    BY <2>2, <2>3
<1> HIDE DEF codes, N, first, F, S
<1>5. step \in [1..N -> [S -> S]]
  BY <1>4
<1>6. \A n \in 1..N : \A s \in S : step[n][s] = F(n, s)
  OBVIOUS
<1> HIDE DEF step
<1>7. Recursions(N, S, first, step) # {}
  BY <1>2, <1>3, <1>5, RecursionExists
<1>8. PICK f \in [0..N -> S] : f[0] = first /\ \A n \in 1..N : f[n] = step[n][f[n - 1]]
  BY <1>7 DEF Recursions
<1>9. f = E(f)
  <2>1. \A n \in 0..N : f[n] = IF n = 0 THEN first ELSE F(n, f[n - 1])
    BY <1>2, <1>6, <1>8
  <2> QED
    BY <2>1, <1>8
<1>10. after = E(after)
  BY <1>9
<1> HIDE DEF after
<1>11. after[0] = first /\ \A n \in 1..N : after[n] = F(n, after[n - 1])
  BY <1>2, <1>10
<1>12. after[N] \in S
  <2>1. \A n \in 1..N : after[n - 1] \in S => after[n] \in S
    BY <1>4, <1>11
  <2>2. \A n \in 0..N : after[n] \in S
    BY <2>1, <1>2, <1>3, <1>11, RecursionStays
  <2> QED
    BY <2>2, <1>2
<1>13. vm.pc \notin DOMAIN vm.hints => after[N] = first
  <2> SUFFICES ASSUME vm.pc \notin DOMAIN vm.hints
               PROVE  after[N] = first
    OBVIOUS
  <2>1. N = 0
    BY DEF N, codes, HintsAt
  <2> QED
    BY <2>1, <1>11
<1> QED
  BY <1>1, <1>12, <1>13 DEF S, first

-----------------------------------------------------------------------------
(* Instructions.                                                           *)

\* The fields of a decoded instruction, as far as they decide what to do.
IsInstruction(i) ==
  /\ i.op1_addr \in {"Op0", "Imm", "FP", "AP"}
  /\ i.pc_update \in {"Regular", "Jump", "JumpRel", "Jnz"}
  /\ i.res \in {"Add", "Mul", "Op1", "Unconstrained"}
  /\ i.ap_update \in {"Add", "Add1", "Add2", "Regular"}
  /\ i.opcode \in {"NOp", "Call", "Ret", "AssertEq"}
  /\ i.fp_update = CASE i.opcode = "Call" -> "APPlus2"
                     [] i.opcode = "Ret"  -> "Dst"
                     [] OTHER             -> "Regular"

\* A word that decodes is an instruction.
LEMMA DecodedInstruction ==
  ASSUME NEW word, NEW imm, DecodeError(word, imm) = "ok"
  PROVE  IsInstruction(Instruction(word, imm))
<1>1. Op1Src(word) \in {0, 1, 2, 4}
  BY DEF DecodeError
<1>2. PcFlag(word) \in {0, 1, 2, 4}
  BY DEF DecodeError
<1>3. OpcodeOf(word) \in {0, 1, 2, 4}
  BY DEF DecodeError
<1> DEFINE i == Instruction(word, imm)
<1>4. i.op1_addr \in {"Op0", "Imm", "FP", "AP"}
  BY <1>1 DEF Instruction
<1>5. i.pc_update \in {"Regular", "Jump", "JumpRel", "Jnz"}
  BY <1>2 DEF Instruction
<1>6. i.opcode \in {"NOp", "Call", "Ret", "AssertEq"}
  BY <1>3 DEF Instruction
<1>7. i.res \in {"Add", "Mul", "Op1", "Unconstrained"}
  BY DEF Instruction
<1>8. i.ap_update \in {"Add", "Add1", "Add2", "Regular"}
  BY DEF Instruction
<1>9. i.fp_update = CASE i.opcode = "Call" -> "APPlus2"
                      [] i.opcode = "Ret"  -> "Dst"
                      [] OTHER             -> "Regular"
  BY DEF Instruction
<1> QED
  BY <1>4, <1>5, <1>6, <1>7, <1>8, <1>9 DEF IsInstruction

\* A size is one or two.
LEMMA SizeNatural == ASSUME NEW i PROVE Size(i) \in Nat
  BY DEF Size

-----------------------------------------------------------------------------
(* Operands.                                                               *)

\* The cell of an operand, and its contents.
IsOperand(operand, data, n) ==
  /\ operand.addr \in Relocatables
  /\ operand.val = Cell(data, operand.addr)
  /\ operand.val \in Maybe(Known(n))

\* The operand at a computed address.
LEMMA OperandAt ==
  ASSUME NEW n, NEW data, CellsKnown(data, n),
         NEW addr, addr.err = "ok" /\ IsRel(addr.val) => addr.val \in Known(n),
         Operand(data, addr).err = "ok"
  PROVE  /\ addr.err = "ok"
         /\ Operand(data, addr).addr = addr.val
         /\ IsOperand(Operand(data, addr), data, n)
<1>1. addr.err = "ok" /\ IsRel(addr.val)
  BY DEF Operand
<1>2. addr.val \in Relocatables
  BY <1>1, KnownKinds
<1>3. Operand(data, addr).addr = addr.val /\ Operand(data, addr).val = Cell(data, addr.val)
  BY <1>1 DEF Operand
<1> QED
  BY <1>1, <1>2, <1>3 DEF IsOperand, CellsKnown

\* The operands that an instruction fetches: their cells are where the
\* registers and the offsets say.
LEMMA FetchKnown ==
  ASSUME NEW vm, MachineInv(vm), NEW i, IsInstruction(i), NEW f, f = Fetch(vm, i),
         FetchError(f) = "ok"
  PROVE  LET n == vm.num_segments
             data == vm.memory.data
         IN  /\ IsOperand(f.dst, data, n)
             /\ IsOperand(f.op0, data, n)
             /\ IsOperand(f.op1, data, n)
             /\ f.dst.addr = DstAddr(vm, i).val
             /\ f.op0.addr = Op0Addr(vm, i).val
             /\ Op1Addr(vm, i, f.op0.val).err = "ok"
             /\ f.op1.addr = Op1Addr(vm, i, f.op0.val).val
<1> DEFINE n == vm.num_segments
           data == vm.memory.data
<1>1. CellsKnown(data, n) /\ vm.pc \in Known(n) /\ vm.ap \in Known(n) /\ vm.fp \in Known(n)
  BY DEF MachineInv, MachineMemory
<1>2. /\ f.dst = Operand(data, DstAddr(vm, i))
      /\ f.op0 = Operand(data, Op0Addr(vm, i))
      /\ f.op1 = IF f.op0.err # "ok" THEN f.op0
                 ELSE Operand(data, Op1Addr(vm, i, f.op0.val))
  BY DEF Fetch
<1>3. f.dst.err = "ok" /\ f.op0.err = "ok" /\ f.op1.err = "ok"
  BY DEF FetchError
<1>4. \A register : RegisterOf(vm, register) \in Known(n)
  BY <1>1 DEF RegisterOf
<1>5. \A v \in Known(n) : \A k :
        LET addr == AddIntMod(v, k)
        IN  addr.err = "ok" /\ IsRel(addr.val) => addr.val \in Known(n)
  BY AddIntModKnown
<1> HIDE DEF n, data
<1>6. /\ f.dst.addr = DstAddr(vm, i).val
      /\ IsOperand(f.dst, data, n)
  <2> DEFINE addr == DstAddr(vm, i)
  <2>1. addr.err = "ok" /\ IsRel(addr.val) => addr.val \in Known(n)
    BY <1>4, <1>5 DEF DstAddr
  <2> HIDE DEF addr
  <2>2. f.dst = Operand(data, addr)
    BY <1>2 DEF addr
  <2> QED
    BY <2>1, <2>2, <1>1, <1>3, OperandAt DEF addr
<1>7. /\ f.op0.addr = Op0Addr(vm, i).val
      /\ IsOperand(f.op0, data, n)
  <2> DEFINE addr == Op0Addr(vm, i)
  <2>1. addr.err = "ok" /\ IsRel(addr.val) => addr.val \in Known(n)
    BY <1>4, <1>5 DEF Op0Addr
  <2> HIDE DEF addr
  <2>2. f.op0 = Operand(data, addr)
    BY <1>2 DEF addr
  <2> QED
    BY <2>1, <2>2, <1>1, <1>3, OperandAt DEF addr
<1>8. /\ Op1Addr(vm, i, f.op0.val).err = "ok"
      /\ f.op1.addr = Op1Addr(vm, i, f.op0.val).val
      /\ IsOperand(f.op1, data, n)
  <2> DEFINE addr == Op1Addr(vm, i, f.op0.val)
  <2>1. addr.err = "ok" /\ IsRel(addr.val) => addr.val \in Known(n)
    <3> SUFFICES ASSUME addr.err = "ok", IsRel(addr.val)
                 PROVE  addr.val \in Known(n)
      OBVIOUS
    <3>1. CASE i.op1_addr \in {"AP", "FP"}
      <4>1. addr = AddIntMod(RegisterOf(vm, i.op1_addr), i.off2)
        BY <3>1 DEF Op1Addr
      <4> QED
        BY <4>1, <1>4, <1>5
    <3>2. CASE i.op1_addr = "Imm"
      <4>1. addr = IF i.off2 = 1 THEN AddIntMod(vm.pc, 1) ELSE Err("ImmShouldBe1")
        BY <3>2 DEF Op1Addr
      <4>2. addr = AddIntMod(vm.pc, 1)
        BY <4>1 DEF Err
      <4> QED
        BY <4>2, <1>1, <1>5
    <3>3. CASE i.op1_addr = "Op0"
      <4>1. addr = IF f.op0.val = None THEN Err("UnknownOp0")
                   ELSE AddIntMod(f.op0.val, i.off2)
        BY <3>3 DEF Op1Addr
      <4>2. f.op0.val # None /\ addr = AddIntMod(f.op0.val, i.off2)
        BY <4>1 DEF Err
      <4>3. f.op0.val \in Known(n)
        BY <4>2, <1>7 DEF IsOperand, Maybe
      <4> QED
        BY <4>2, <4>3, <1>5
    <3> QED
      BY <3>1, <3>2, <3>3 DEF IsInstruction
  <2> HIDE DEF addr
  <2>2. f.op1 = Operand(data, addr)
    BY <1>2, <1>3 DEF addr
  <2> QED
    BY <2>1, <2>2, <1>1, <1>3, OperandAt DEF addr
<1> QED
  BY <1>6, <1>7, <1>8 DEF n, data

\* What the instruction makes of an operand.
DeductionKnown(d, n) ==
  d.err = "ok" => d.val \in Maybe(Known(n)) /\ d.res \in Maybe(Known(n))

\* A factor or a term that is deduced is a value of the machine.
LEMMA DeduceTermKnown ==
  ASSUME NEW n, NEW i, NEW dst \in Maybe(Known(n)), NEW op \in Maybe(Known(n))
  PROVE  DeductionKnown(DeduceTerm(i, dst, op), n)
<1>1. DeductionKnown(NoDeduction, n)
  BY DEF NoDeduction, Deduction, DeductionKnown, Maybe
<1>2. CASE i.opcode # "AssertEq" \/ dst = None \/ op = None
  BY <1>1, <1>2 DEF DeduceTerm
<1>3. CASE ~(i.opcode # "AssertEq" \/ dst = None \/ op = None)
  <2>1. dst \in Known(n) /\ op \in Known(n)
    BY <1>3 DEF Maybe
  <2>2. CASE i.res = "Add"
    <3>1. DeduceTerm(i, dst, op) = DeductionFrom(Sub(dst, op), dst)
      BY <1>3, <2>2 DEF DeduceTerm
    <3> QED
      BY <2>1, <3>1, SubKnown DEF DeductionFrom, DeductionKnown, Maybe
  <2>3. CASE i.res = "Mul"
    <3>1. DeduceTerm(i, dst, op) = DeduceFactor(dst, op)
      BY <1>3, <2>3 DEF DeduceTerm
    <3>2. CASE IsInt(dst) /\ IsInt(op) /\ op.num # 0
      <4> DEFINE q == TruncDiv(dst.num, op.num)
      <4>1. dst.num \in Nat /\ op.num \in Nat /\ op.num > 0 /\ Prime \in Nat /\ Prime > 0
        BY <2>1, <3>2, KnownKinds, FieldAssumption
      <4>2. q \in Nat
        BY <4>1, TruncNatural
      <4> HIDE DEF q
      <4>3. TruncMod(q, Prime) \in Nat
        BY <4>1, <4>2, TruncNatural
      <4>4. DeduceFactor(dst, op) = Deduction(IntValue(TruncMod(q, Prime)), dst)
        BY <3>2 DEF DeduceFactor, q
      <4> QED
        BY <2>1, <3>1, <4>3, <4>4, KnownMade DEF Deduction, DeductionKnown, Maybe
    <3>3. CASE ~(IsInt(dst) /\ IsInt(op) /\ op.num # 0)
      BY <1>1, <3>1, <3>3 DEF DeduceFactor
    <3> QED
      BY <3>2, <3>3
  <2>4. CASE i.res \notin {"Add", "Mul"}
    BY <1>1, <1>3, <2>4 DEF DeduceTerm
  <2> QED
    BY <2>2, <2>3, <2>4
<1> QED
  BY <1>2, <1>3

\* The same of deduce_op0 and deduce_op1.
LEMMA DeduceKnown ==
  ASSUME NEW vm, MachineInv(vm), NEW i, NEW n, n = vm.num_segments,
         NEW dst \in Maybe(Known(n)), NEW op \in Maybe(Known(n))
  PROVE  /\ DeductionKnown(DeduceOp0(vm, i, dst, op), n)
         /\ DeductionKnown(DeduceOp1(i, dst, op), n)
<1>1. DeductionKnown(DeduceOp0(vm, i, dst, op), n)
  <2>1. CASE i.opcode = "Call"
    <3>1. DeduceOp0(vm, i, dst, op) = DeductionFrom(AddUsize(vm.pc, Size(i)), None)
      BY <2>1 DEF DeduceOp0
    <3>2. vm.pc \in Known(n) /\ Size(i) \in Nat
      BY SizeNatural DEF MachineInv
    <3> QED
      BY <3>1, <3>2, AddUsizeKnown DEF DeductionFrom, DeductionKnown, Maybe
  <2>2. CASE i.opcode # "Call"
    BY <2>2, DeduceTermKnown DEF DeduceOp0
  <2> QED
    BY <2>1, <2>2
<1>2. DeductionKnown(DeduceOp1(i, dst, op), n)
  <2>1. CASE i.opcode = "AssertEq" /\ i.res = "Op1" /\ dst # None
    <3>1. DeduceOp1(i, dst, op) = Deduction(dst, dst)
      BY <2>1 DEF DeduceOp1
    <3> QED
      BY <3>1 DEF Deduction, DeductionKnown
  <2>2. CASE ~(i.opcode = "AssertEq" /\ i.res = "Op1" /\ dst # None)
    BY <2>2, DeduceTermKnown DEF DeduceOp1
  <2> QED
    BY <2>1, <2>2
<1> QED
  BY <1>1, <1>2

\* Whatever it answers, deduce_memory_cell marks no cell but its own.
LEMMA DeduceMarks ==
  ASSUME NEW runners, NEW memory, NEW verified, NEW a
  PROVE  DeduceMemoryCell(runners, memory, verified, a).verified \in
           {verified, verified \union {a}}
<1>1. \A runner : DeduceBy(runner, memory, verified, a).verified \in
                    {verified, verified \union {a}}
  <2> TAKE runner
  <2>1. DeduceHash(memory, verified, a).verified \in {verified, verified \union {a}}
    BY DEF DeduceHash, Deduced
  <2>2. \A r : Deduced(r, verified).verified = verified
    BY DEF Deduced
  <2> QED
    BY <2>1, <2>2 DEF DeduceBy
<1>2. \A r : Deduced(r, verified).verified = verified
  BY DEF Deduced
<1> QED
  BY <1>1, <1>2 DEF DeduceMemoryCell

\* A hash that is handed out for an operand.
HandsOut(memory, a, v) == HasInputs(memory, a) /\ v = HashOf(memory, a)

\* An operand c as it is once completed, from the operand that was fetched and
\* from d, what the instruction makes of it: a value it had stays; a res comes
\* from the instruction, with the value; and so does the value if the cell is
\* in no builtin's segment.
Completes(c, vm, verified, operand, d) ==
  /\ c.val \in Maybe(Known(vm.num_segments)) /\ c.res \in Maybe(Known(vm.num_segments))
  /\ operand.val # None => c.val = operand.val /\ c.res = None
  /\ \/ c.verified = verified
     \/ /\ c.verified = verified \union {operand.addr}
        /\ operand.val = None
        /\ HandsOut(vm.memory, operand.addr, c.val)
  /\ c.res # None => operand.val = None /\ d.err = "ok" /\ c.val = d.val /\ c.res = d.res
  /\ (operand.val = None /\ RunnersOf(vm.builtin_runners, operand.addr.seg) = {}) =>
       d.err = "ok" /\ c.val = d.val /\ c.res = d.res

\* So it is when nothing fails.
LEMMA CompleteKnown ==
  ASSUME NEW vm, MachineInv(vm), NEW verified, NEW operand,
         IsOperand(operand, vm.memory.data, vm.num_segments),
         NEW d, DeductionKnown(d, vm.num_segments)
  PROVE  LET c == Complete(vm, verified, operand, d)
         IN  c.err = "ok" => Completes(c, vm, verified, operand, d)
<1> DEFINE n == vm.num_segments
           c == Complete(vm, verified, operand, d)
<1> SUFFICES ASSUME c.err = "ok"
             PROVE  Completes(c, vm, verified, operand, d)
  OBVIOUS
<1> DEFINE a == operand.addr
           b == DeduceMemoryCell(vm.builtin_runners, vm.memory, verified, a)
<1>1. CellsKnown(vm.memory.data, n) /\ a \in Relocatables
  BY DEF MachineInv, MachineMemory, IsOperand, n
<1>2. b.err = "ok" =>
        /\ b.val \in Maybe(Known(n))
        /\ \/ b.verified = verified
           \/ /\ b.verified = verified \union {a}
              /\ HasInputs(vm.memory, a) /\ b.val = HashOf(vm.memory, a)
  BY <1>1, DeduceMemoryCellKnown
<1>3. RunnersOf(vm.builtin_runners, a.seg) = {} => b.err = "ok" /\ b.val = None
  BY <1>1, RelocatableFields DEF DeduceMemoryCell, Deduced, Ok
<1>4. c = Completed(operand, b, d, verified)
  BY DEF Complete
<1> HIDE DEF b, c
<1>0. c.err = "ok" /\ n = vm.num_segments
  BY DEF c
<1> HIDE DEF n
<1>5. CASE operand.val # None
  <2>1. c = [err |-> "ok", val |-> operand.val, res |-> None, verified |-> verified]
    BY <1>4, <1>5 DEF Completed
  <2> QED
    BY <1>0, <1>5, <2>1 DEF Completes, IsOperand, Maybe
<1>6. CASE operand.val = None /\ (b.err # "ok" \/ b.val # None)
  <2>1. c = [err |-> b.err, val |-> b.val, res |-> None, verified |-> b.verified]
    BY <1>4, <1>6 DEF Completed, DeductionFrom
  <2>2. b.err = "ok"
    BY <1>0, <2>1
  <2> QED
    BY <1>0, <1>2, <1>3, <1>6, <2>1, <2>2 DEF Completes, HandsOut, Maybe
<1>7. CASE operand.val = None /\ ~(b.err # "ok" \/ b.val # None)
  <2>1. c = [err |-> d.err, val |-> d.val, res |-> d.res, verified |-> b.verified]
    BY <1>4, <1>7 DEF Completed
  <2>2. d.err = "ok"
    BY <1>0, <2>1
  <2>3. b.verified = verified
    BY <1>2, <1>7, HashKnown, KnownKinds
  <2> QED
    BY <1>0, <1>2, <1>7, <2>1, <2>2, <2>3 DEF Completes, DeductionKnown, HandsOut
<1> QED
  BY <1>0, <1>5, <1>6, <1>7 DEF Completes

\* The operands of an instruction, one after the other.
FirstOperand(vm, i, f) ==
  Complete(vm, vm.verified_addresses, f.op0, DeduceOp0(vm, i, f.dst.val, f.op1.val))
SecondOperand(vm, i, f) ==
  LET first == FirstOperand(vm, i, f)
  IN  Complete(vm, first.verified, f.op1, DeduceOp1(i, f.dst.val, first.val))
ResultOf(vm, i, f) == CompleteRes(i, FirstOperand(vm, i, f), SecondOperand(vm, i, f))

\* The operands are what these make of them.
LEMMA OperandsMade ==
  ASSUME NEW vm, NEW i, NEW f
  PROVE  LET c0  == FirstOperand(vm, i, f)
             c1  == SecondOperand(vm, i, f)
             res == ResultOf(vm, i, f)
             dst == CompleteDst(vm, i, f.dst, res.val)
             o   == Operands(vm, i, f)
         IN  /\ o = OperandsFrom(c0, c1, res, dst)
             /\ o.op0 = c0.val /\ o.op1 = c1.val /\ o.res = res.val /\ o.dst = dst.val
             /\ o.err = "ok" => /\ c0.err = "ok" /\ c1.err = "ok"
                                /\ res.err = "ok" /\ dst.err = "ok"
                                /\ o.verified = c1.verified
             /\ o.verified \in {c0.verified, c1.verified}
<1> DEFINE c0  == FirstOperand(vm, i, f)
           c1  == SecondOperand(vm, i, f)
           res == ResultOf(vm, i, f)
           dst == CompleteDst(vm, i, f.dst, res.val)
           o   == Operands(vm, i, f)
<1>1. o = OperandsFrom(c0, c1, res, dst)
  BY DEF Operands, OperandsWithOp0, OperandsWithOp1, OperandsWithRes,
         FirstOperand, SecondOperand, ResultOf
<1> HIDE DEF c0, c1, res, dst, o
<1>2. /\ o.op0 = c0.val /\ o.op1 = c1.val /\ o.res = res.val /\ o.dst = dst.val
      /\ o.err = "ok" => /\ c0.err = "ok" /\ c1.err = "ok"
                         /\ res.err = "ok" /\ dst.err = "ok"
                         /\ o.verified = c1.verified
      /\ o.verified \in {c0.verified, c1.verified}
  BY <1>1 DEF OperandsFrom
<1> QED
  BY <1>1, <1>2 DEF c0, c1, res, dst, o

\* compute_res gives a value of the machine, or none.
LEMMA ComputeResKnown ==
  ASSUME NEW n, NEW i, i.res \in {"Add", "Mul", "Op1", "Unconstrained"},
         NEW v \in Known(n), NEW w \in Known(n), ComputeRes(i, v, w).err = "ok"
  PROVE  ComputeRes(i, v, w).val \in Maybe(Known(n))
<1>1. CASE i.res = "Op1"
  BY <1>1 DEF ComputeRes, Ok, Maybe
<1>2. CASE i.res = "Add"
  <2>1. ComputeRes(i, v, w) = AddMod(v, w)
    BY <1>2 DEF ComputeRes
  <2> QED
    BY <2>1, AddModKnown DEF Maybe
<1>3. CASE i.res = "Mul"
  <2>1. ComputeRes(i, v, w) = IF IsInt(v) /\ IsInt(w)
                              THEN Ok(IntValue(TruncMod(v.num * w.num, Prime)))
                              ELSE Err("PureValue")
    BY <1>3 DEF ComputeRes
  <2>2. IsInt(v) /\ IsInt(w) /\ ComputeRes(i, v, w).val = IntValue(TruncMod(v.num * w.num, Prime))
    BY <2>1 DEF Ok, Err
  <2>3. v.num \in Nat /\ w.num \in Nat /\ Prime \in Nat /\ Prime > 0
    BY <2>2, KnownKinds, FieldAssumption
  <2>4. v.num * w.num \in Nat
    BY <2>3
  <2>5. TruncMod(v.num * w.num, Prime) \in Nat
    BY <2>3, <2>4, TruncNatural
  <2> QED
    BY <2>2, <2>5, KnownMade DEF Maybe
<1>4. CASE i.res = "Unconstrained"
  BY <1>4 DEF ComputeRes, Ok, Maybe
<1> QED
  BY <1>1, <1>2, <1>3, <1>4

\* The operands fetched at their cells.
Fetched(vm, f) ==
  /\ IsOperand(f.dst, vm.memory.data, vm.num_segments)
  /\ IsOperand(f.op0, vm.memory.data, vm.num_segments)
  /\ IsOperand(f.op1, vm.memory.data, vm.num_segments)

\* The values of the operands are values of the machine, and what an operand
\* has already is kept.
LEMMA OperandsKnown ==
  ASSUME NEW vm, MachineInv(vm), NEW n, n = vm.num_segments,
         NEW i, IsInstruction(i), NEW f, Fetched(vm, f),
         NEW o, o = Operands(vm, i, f), o.err = "ok"
  PROVE  /\ o.dst \in Known(n)
         /\ o.op0 \in Maybe(Known(n)) /\ o.op1 \in Maybe(Known(n))
         /\ o.res \in Maybe(Known(n))
         /\ f.dst.val # None => o.dst = f.dst.val
         /\ f.op0.val # None => o.op0 = f.op0.val
         /\ f.op1.val # None => o.op1 = f.op1.val
         /\ \A a \in o.verified \ vm.verified_addresses :
              \/ a = f.op0.addr /\ f.op0.val = None /\ HandsOut(vm.memory, a, o.op0)
              \/ a = f.op1.addr /\ f.op1.val = None /\ HandsOut(vm.memory, a, o.op1)
         /\ vm.verified_addresses \subseteq o.verified
<1> DEFINE d0  == DeduceOp0(vm, i, f.dst.val, f.op1.val)
           c0  == FirstOperand(vm, i, f)
           d1  == DeduceOp1(i, f.dst.val, c0.val)
           c1  == SecondOperand(vm, i, f)
           res == ResultOf(vm, i, f)
           dst == CompleteDst(vm, i, f.dst, res.val)
<1>1. /\ o.op0 = c0.val /\ o.op1 = c1.val /\ o.res = res.val /\ o.dst = dst.val
      /\ c0.err = "ok" /\ c1.err = "ok" /\ res.err = "ok" /\ dst.err = "ok"
      /\ o.verified = c1.verified
  BY OperandsMade
<1>2. /\ f.dst.val \in Maybe(Known(n)) /\ f.op0.val \in Maybe(Known(n))
      /\ f.op1.val \in Maybe(Known(n))
      /\ IsOperand(f.op0, vm.memory.data, n) /\ IsOperand(f.op1, vm.memory.data, n)
  BY DEF Fetched, IsOperand
<1>3. c0 = Complete(vm, vm.verified_addresses, f.op0, d0)
  BY DEF FirstOperand
<1>4. c1 = Complete(vm, c0.verified, f.op1, d1)
  BY DEF SecondOperand
<1>5. DeductionKnown(d0, n)
  BY <1>2, DeduceKnown
<1> HIDE DEF c0, c1, res, dst, d0
<1>6. /\ c0.val \in Maybe(Known(n)) /\ c0.res \in Maybe(Known(n))
      /\ f.op0.val # None => c0.val = f.op0.val /\ c0.res = None
      /\ \/ c0.verified = vm.verified_addresses
         \/ /\ c0.verified = vm.verified_addresses \union {f.op0.addr}
            /\ f.op0.val = None
            /\ HandsOut(vm.memory, f.op0.addr, c0.val)
  <2>1. Completes(c0, vm, vm.verified_addresses, f.op0, d0)
    BY <1>1, <1>2, <1>3, <1>5, CompleteKnown
  <2> QED
    BY <2>1 DEF Completes
<1>7. DeductionKnown(d1, n)
  BY <1>2, <1>6, DeduceKnown
<1> HIDE DEF d1
<1>8. /\ c1.val \in Maybe(Known(n)) /\ c1.res \in Maybe(Known(n))
      /\ f.op1.val # None => c1.val = f.op1.val /\ c1.res = None
      /\ \/ c1.verified = c0.verified
         \/ /\ c1.verified = c0.verified \union {f.op1.addr}
            /\ f.op1.val = None
            /\ HandsOut(vm.memory, f.op1.addr, c1.val)
  <2>1. Completes(c1, vm, c0.verified, f.op1, d1)
    BY <1>1, <1>2, <1>4, <1>7, CompleteKnown
  <2> QED
    BY <2>1 DEF Completes
<1>9. res.val \in Maybe(Known(n))
  <2>1. res = CompleteRes(i, c0, c1)
    BY DEF res, ResultOf, c0, c1
  <2>2. CASE c0.res # None
    BY <2>1, <2>2, <1>6 DEF CompleteRes, Ok
  <2>3. CASE c0.res = None /\ c1.res # None
    BY <2>1, <2>3, <1>8 DEF CompleteRes, Ok
  <2>4. CASE c0.res = None /\ c1.res = None
    <3>1. res = IF c0.val = None \/ c1.val = None THEN Err("InvalidInstructionEncoding")
                ELSE ComputeRes(i, c0.val, c1.val)
      BY <2>1, <2>4 DEF CompleteRes
    <3>2. c0.val # None /\ c1.val # None /\ res = ComputeRes(i, c0.val, c1.val)
      BY <3>1, <1>1 DEF Err
    <3>3. c0.val \in Known(n) /\ c1.val \in Known(n)
      BY <3>2, <1>6, <1>8 DEF Maybe
    <3> QED
      BY <3>2, <3>3, <1>1, ComputeResKnown DEF IsInstruction
  <2> QED
    BY <2>2, <2>3, <2>4
<1>10. dst.val \in Known(n) /\ (f.dst.val # None => dst.val = f.dst.val)
  <2>1. dst = CompleteDst(vm, i, f.dst, res.val)
    BY DEF dst
  <2>2. CASE f.dst.val # None
    BY <2>1, <2>2, <1>2 DEF CompleteDst, Ok, Maybe
  <2>3. CASE f.dst.val = None
    <3>1. dst = DeduceDst(vm, i, res.val)
      BY <2>1, <2>3 DEF CompleteDst
    <3>2. vm.fp \in Known(n)
      BY DEF MachineInv
    <3>3. (i.opcode = "AssertEq" /\ res.val # None) \/ i.opcode = "Call"
      BY <3>1, <1>1 DEF DeduceDst, Err
    <3> QED
      BY <2>3, <3>1, <3>2, <3>3, <1>9 DEF DeduceDst, Ok, Maybe
  <2> QED
    BY <2>2, <2>3
<1> QED
  BY <1>1, <1>6, <1>8, <1>9, <1>10

\* What writing an operand does: one that has no value is there if this
\* succeeds, and no other cell is new.
Stores(r, s, operand, val, n) ==
  /\ MachineMemory(s.memory, n) /\ Extends(r.memory, s.memory)
  /\ s.err = "ok" =>
       /\ r.err = "ok"
       /\ NewAreValidated(r.memory, s.memory)
       /\ operand.val = None => val # None /\ Cell(s.memory.data, operand.addr) = val
       /\ \A b \in Relocatables :
            \/ Cell(s.memory.data, b) = Cell(r.memory.data, b)
            \/ b = operand.addr /\ operand.val = None

\* This is what store_missing does to any memory of a machine.
LEMMA StoreMissingKeeps ==
  ASSUME NEW n \in Nat, NEW r, MachineMemory(r.memory, n),
         NEW operand, operand.addr \in Relocatables, NEW val \in Maybe(Known(n))
  PROVE  Stores(r, StoreMissing(r, operand, val), operand, val, n)
<1> DEFINE inserted == Insert(r.memory, operand.addr, val)
           s == StoreMissing(r, operand, val)
<1> SUFFICES Stores(r, s, operand, val, n)
  OBVIOUS
<1>1. MemoryInv(r.memory, Relocatables) /\ Len(r.memory.data) \in Nat
  BY SegmentsCounted DEF MachineMemory
<1>2. CASE r.err # "ok" \/ operand.val # None
  <2>1. s = r
    BY <1>2 DEF StoreMissing
  <2> QED
    BY <1>1, <1>2, <2>1, ExtendsItself DEF Stores
<1>3. CASE ~(r.err # "ok" \/ operand.val # None) /\ val = None
  <2>1. s = [memory |-> r.memory, err |-> "InvalidInstructionEncoding"]
    BY <1>3 DEF StoreMissing
  <2> QED
    BY <1>1, <1>3, <2>1, ExtendsItself DEF Stores
<1>4. CASE ~(r.err # "ok" \/ operand.val # None) /\ val # None
  <2>1. s = [memory |-> inserted.memory,
             err    |-> IF inserted.err = "ok" THEN "ok" ELSE "InvalidInstructionEncoding"]
    BY <1>4 DEF StoreMissing
  <2> HIDE DEF s
  <2>2. val \in Known(n) /\ val \in Values
    BY <1>4, KnownKinds DEF Maybe
  <2>3. /\ MachineMemory(inserted.memory, n) /\ Extends(r.memory, inserted.memory)
        /\ inserted.err = "ok" => NewAreValidated(r.memory, inserted.memory)
    BY <2>2, InsertKeeps
  <2>4. /\ \A b \in Relocatables :
             \/ Cell(inserted.memory.data, b) = Cell(r.memory.data, b)
             \/ b = operand.addr /\ Cell(inserted.memory.data, b) = val
        /\ inserted.err = "ok" => Cell(inserted.memory.data, operand.addr) = val
    BY <1>1, <2>2, InsertCells
  <2> HIDE DEF inserted
  <2> QED
    BY <1>4, <2>1, <2>2, <2>3, <2>4 DEF Stores
<1> QED
  BY <1>2, <1>3, <1>4

\* When the missing operands are written, the three cells hold the operands,
\* and no cell is new but those of operands that had no value.
LEMMA StoreOperandsKeeps ==
  ASSUME NEW vm, MachineInv(vm), NEW n, n = vm.num_segments, NEW f, Fetched(vm, f),
         NEW o, o.dst \in Maybe(Known(n)), o.op0 \in Maybe(Known(n)), o.op1 \in Maybe(Known(n)),
         f.dst.val # None => o.dst = f.dst.val,
         f.op0.val # None => o.op0 = f.op0.val,
         f.op1.val # None => o.op1 = f.op1.val,
         NEW s, s = StoreOperands(vm.memory, f, o)
  PROVE  /\ MachineMemory(s.memory, n) /\ Extends(vm.memory, s.memory)
         /\ s.err = "ok" =>
              /\ NewAreValidated(vm.memory, s.memory)
              /\ o.dst # None /\ o.op0 # None /\ o.op1 # None
              /\ Cell(s.memory.data, f.dst.addr) = o.dst
              /\ Cell(s.memory.data, f.op0.addr) = o.op0
              /\ Cell(s.memory.data, f.op1.addr) = o.op1
              /\ \A b \in Relocatables :
                   \/ Cell(s.memory.data, b) = Cell(vm.memory.data, b)
                   \/ b = f.dst.addr /\ f.dst.val = None
                   \/ b = f.op0.addr /\ f.op0.val = None
                   \/ b = f.op1.addr /\ f.op1.val = None
<1> DEFINE r0 == [memory |-> vm.memory, err |-> "ok"]
           r1 == StoreMissing(r0, f.dst, o.dst)
           r2 == StoreMissing(r1, f.op0, o.op0)
<1>1. s = StoreMissing(r2, f.op1, o.op1)
  BY DEF StoreOperands
<1>2. n \in Nat /\ MachineMemory(r0.memory, n)
  BY DEF MachineInv, Machines
<1>3. /\ f.dst.addr \in Relocatables /\ f.op0.addr \in Relocatables /\ f.op1.addr \in Relocatables
      /\ f.dst.val = Cell(r0.memory.data, f.dst.addr)
      /\ f.op0.val = Cell(r0.memory.data, f.op0.addr)
      /\ f.op1.val = Cell(r0.memory.data, f.op1.addr)
  BY DEF Fetched, IsOperand
<1>4. r0.memory = vm.memory
  OBVIOUS
<1> HIDE DEF r0, r1, r2
<1>5. /\ MachineMemory(r1.memory, n) /\ Extends(r0.memory, r1.memory)
      /\ r1.err = "ok" =>
           /\ NewAreValidated(r0.memory, r1.memory)
           /\ f.dst.val = None => o.dst # None /\ Cell(r1.memory.data, f.dst.addr) = o.dst
           /\ \A b \in Relocatables :
                \/ Cell(r1.memory.data, b) = Cell(r0.memory.data, b)
                \/ b = f.dst.addr /\ f.dst.val = None
  <2>1. Stores(r0, r1, f.dst, o.dst, n)
    BY <1>2, <1>3, StoreMissingKeeps DEF r1
  <2> QED
    BY <2>1 DEF Stores
<1>6. /\ MachineMemory(r2.memory, n) /\ Extends(r1.memory, r2.memory)
      /\ r2.err = "ok" =>
           /\ r1.err = "ok"
           /\ NewAreValidated(r1.memory, r2.memory)
           /\ f.op0.val = None => o.op0 # None /\ Cell(r2.memory.data, f.op0.addr) = o.op0
           /\ \A b \in Relocatables :
                \/ Cell(r2.memory.data, b) = Cell(r1.memory.data, b)
                \/ b = f.op0.addr /\ f.op0.val = None
  <2>1. Stores(r1, r2, f.op0, o.op0, n)
    BY <1>2, <1>3, <1>5, StoreMissingKeeps DEF r2
  <2> QED
    BY <2>1 DEF Stores
<1>7. /\ MachineMemory(s.memory, n) /\ Extends(r2.memory, s.memory)
      /\ s.err = "ok" =>
           /\ r2.err = "ok"
           /\ NewAreValidated(r2.memory, s.memory)
           /\ f.op1.val = None => o.op1 # None /\ Cell(s.memory.data, f.op1.addr) = o.op1
           /\ \A b \in Relocatables :
                \/ Cell(s.memory.data, b) = Cell(r2.memory.data, b)
                \/ b = f.op1.addr /\ f.op1.val = None
  <2>1. Stores(r2, s, f.op1, o.op1, n)
    BY <1>1, <1>2, <1>3, <1>6, StoreMissingKeeps
  <2> QED
    BY <2>1 DEF Stores
<1>8. /\ Len(r0.memory.data) \in Nat /\ Len(r1.memory.data) \in Nat
      /\ Len(r2.memory.data) \in Nat /\ Len(s.memory.data) \in Nat
  BY <1>2, <1>5, <1>6, <1>7 DEF MachineMemory
<1>9. /\ Extends(r0.memory, r2.memory)
      /\ NewAreValidated(r0.memory, r1.memory) /\ NewAreValidated(r1.memory, r2.memory) =>
           NewAreValidated(r0.memory, r2.memory)
  BY <1>5, <1>6, <1>8, ExtendsTransitive
<1>10. /\ Extends(r0.memory, s.memory) /\ Extends(r1.memory, s.memory)
       /\ NewAreValidated(r0.memory, r2.memory) /\ NewAreValidated(r2.memory, s.memory) =>
            NewAreValidated(r0.memory, s.memory)
  BY <1>6, <1>7, <1>8, <1>9, ExtendsTransitive
<1>11. ASSUME s.err = "ok"
       PROVE  /\ NewAreValidated(r0.memory, s.memory)
              /\ \A b \in Relocatables :
                   \/ Cell(s.memory.data, b) = Cell(r0.memory.data, b)
                   \/ b = f.dst.addr /\ f.dst.val = None
                   \/ b = f.op0.addr /\ f.op0.val = None
                   \/ b = f.op1.addr /\ f.op1.val = None
  BY <1>5, <1>6, <1>7, <1>9, <1>10, <1>11
<1>12. ASSUME s.err = "ok"
       PROVE  o.dst # None /\ Cell(s.memory.data, f.dst.addr) = o.dst
  <2>1. CASE f.dst.val # None
    BY <2>1, <1>3, <1>10 DEF Extends
  <2>2. CASE f.dst.val = None
    BY <2>2, <1>3, <1>5, <1>6, <1>7, <1>10, <1>12 DEF Extends
  <2> QED
    BY <2>1, <2>2
<1>13. ASSUME s.err = "ok"
       PROVE  o.op0 # None /\ Cell(s.memory.data, f.op0.addr) = o.op0
  <2>1. CASE f.op0.val # None
    BY <2>1, <1>3, <1>10 DEF Extends
  <2>2. CASE f.op0.val = None
    BY <2>2, <1>3, <1>6, <1>7, <1>13 DEF Extends
  <2> QED
    BY <2>1, <2>2
<1>14. ASSUME s.err = "ok"
       PROVE  o.op1 # None /\ Cell(s.memory.data, f.op1.addr) = o.op1
  <2>1. CASE f.op1.val # None
    BY <2>1, <1>3, <1>10 DEF Extends
  <2>2. CASE f.op1.val = None
    BY <2>2, <1>7, <1>14
  <2> QED
    BY <2>1, <2>2
<1> QED
  BY <1>4, <1>7, <1>10, <1>11, <1>12, <1>13, <1>14

\* The pedersen runner's answers are in their cells.
HashesStored(vm) ==
  \A a \in vm.verified_addresses :
    HasInputs(vm.memory, a) /\ Cell(vm.memory.data, a) = HashOf(vm.memory, a)

\* What computing the operands changes of a vm, whether it succeeds or not.
Computing(vm, w) ==
  /\ MachineInv(w) /\ Continues(vm, w)
  /\ w.pc = vm.pc /\ w.ap = vm.ap /\ w.fp = vm.fp
  /\ w.trace = vm.trace /\ w.current_step = vm.current_step
  /\ w.num_segments = vm.num_segments

\* The operands of i at f, of vm, that w holds: those that were missing are the
\* only new cells.
HoldsAll(vm, w, f, o) ==
  /\ o.dst \in Known(vm.num_segments) /\ o.op0 \in Known(vm.num_segments)
  /\ o.op1 \in Known(vm.num_segments) /\ o.res \in Maybe(Known(vm.num_segments))
  /\ Cell(w.memory.data, f.dst.addr) = o.dst
  /\ Cell(w.memory.data, f.op0.addr) = o.op0
  /\ Cell(w.memory.data, f.op1.addr) = o.op1
  /\ \A b \in Relocatables :
       \/ Cell(w.memory.data, b) = Cell(vm.memory.data, b)
       \/ b = f.dst.addr /\ f.dst.val = None
       \/ b = f.op0.addr /\ f.op0.val = None
       \/ b = f.op1.addr /\ f.op1.val = None

\* An instruction whose operands are all computed.
LEMMA OperandsMarks ==
  ASSUME NEW vm, vm.verified_addresses \in SUBSET Relocatables, NEW i, NEW f,
         f.op0.addr \in Relocatables, f.op1.addr \in Relocatables
  PROVE  Operands(vm, i, f).verified \in SUBSET Relocatables
<1> DEFINE d0 == DeduceOp0(vm, i, f.dst.val, f.op1.val)
           c0 == FirstOperand(vm, i, f)
           d1 == DeduceOp1(i, f.dst.val, c0.val)
           c1 == SecondOperand(vm, i, f)
           o  == Operands(vm, i, f)
<1>1. c0 = Complete(vm, vm.verified_addresses, f.op0, d0)
  BY DEF FirstOperand
<1>2. c1 = Complete(vm, c0.verified, f.op1, d1)
  BY DEF SecondOperand
<1>3. o.verified \in {c0.verified, c1.verified}
  BY OperandsMade
<1>4. ASSUME NEW verified \in SUBSET Relocatables, NEW operand,
             operand.addr \in Relocatables, NEW d
      PROVE  Complete(vm, verified, operand, d).verified \in SUBSET Relocatables
  <2> DEFINE b == DeduceMemoryCell(vm.builtin_runners, vm.memory, verified, operand.addr)
  <2>1. b.verified \in {verified, verified \union {operand.addr}}
    BY DeduceMarks
  <2>2. Complete(vm, verified, operand, d) = Completed(operand, b, d, verified)
    BY DEF Complete
  <2> HIDE DEF b
  <2>3. Completed(operand, b, d, verified).verified \in {verified, b.verified}
    BY DEF Completed
  <2>4. b.verified \in SUBSET Relocatables
    BY <2>1, <1>4
  <2> QED
    BY <1>4, <2>2, <2>3, <2>4
<1> HIDE DEF d0, c0, d1, c1, o
<1>5. c0.verified \in SUBSET Relocatables
  BY <1>1, <1>4
<1>6. c1.verified \in SUBSET Relocatables
  BY <1>2, <1>4, <1>5
<1> QED
  BY <1>3, <1>5, <1>6 DEF o

\* A vm whose verified addresses, and perhaps its memory, are others.
LEMMA WithOperandsStep ==
  ASSUME NEW vm, MachineInv(vm), NEW o, o.verified \in SUBSET Relocatables,
         NEW stored, MachineMemory(stored.memory, vm.num_segments),
         Extends(vm.memory, stored.memory)
  PROVE  LET c == WithOperands(vm, o, stored)
         IN  /\ Computing(vm, c.vm)
             /\ c.vm.verified_addresses = o.verified
             /\ c.operands = o
             /\ c.err = "ok" => o.err = "ok" /\ stored.err = "ok" /\ c.vm.memory = stored.memory
<1> DEFINE c == WithOperands(vm, o, stored)
           w == c.vm
           n == vm.num_segments
<1>1. vm \in Machines /\ stored.memory \in Memories(Relocatables)
  BY DEF MachineInv, MachineMemory, MemoryInv
<1>2. Len(vm.memory.data) \in Nat /\ MachineMemory(vm.memory, n) /\ n \in Nat
  BY SegmentsCounted DEF MachineInv, MachineMemory, Machines
<1>3. Extends(vm.memory, vm.memory)
  BY <1>2, ExtendsItself
<1>4. w \in Machines
  <2>1. CASE o.err # "ok"
    <3>1. w = [vm EXCEPT !.verified_addresses = o.verified]
      BY <2>1 DEF WithOperands
    <3> QED
      BY <1>1, <3>1 DEF Machines
  <2>2. CASE o.err = "ok"
    <3>1. w = [vm EXCEPT !.verified_addresses = o.verified, !.memory = stored.memory]
      BY <2>2 DEF WithOperands
    <3> QED
      BY <1>1, <3>1 DEF Machines
  <2> QED
    BY <2>1, <2>2
<1>5. /\ w.pc = vm.pc /\ w.ap = vm.ap /\ w.fp = vm.fp
      /\ w.trace = vm.trace /\ w.current_step = vm.current_step
      /\ w.num_segments = vm.num_segments
      /\ w.builtin_runners = vm.builtin_runners /\ w.hints = vm.hints
      /\ w.segment_used_sizes = vm.segment_used_sizes
      /\ w.verified_addresses = o.verified
      /\ w.memory = IF o.err # "ok" THEN vm.memory ELSE stored.memory
  BY <1>1 DEF WithOperands, Machines
<1>6. /\ c.operands = o
      /\ c.err = IF o.err # "ok" THEN o.err ELSE stored.err
  BY DEF WithOperands
<1> HIDE DEF c, w
<1>7. MachineMemory(w.memory, n) /\ Extends(vm.memory, w.memory)
  BY <1>2, <1>3, <1>5
<1>8. MachineInv(w)
  BY <1>4, <1>5, <1>7 DEF MachineInv
<1>9. Continues(vm, w)
  BY <1>2, <1>5, <1>7 DEF Continues
<1>10. w = c.vm
  BY DEF w
<1> QED
  BY <1>5, <1>6, <1>8, <1>9, <1>10 DEF Computing, c

\* What compute_operands leaves; and when it succeeds, the operands were found
\* at their addresses, their cells hold them, and a hash that was handed out is
\* stored.
LEMMA ComputeOperandsStep ==
  ASSUME NEW vm, MachineInv(vm), NEW i, IsInstruction(i)
  PROVE  LET c == ComputeOperands(vm, i)
             f == Fetch(vm, i)
             o == Operands(vm, i, f)
         IN  /\ Computing(vm, c.vm)
             /\ c.err = "ok" =>
                  /\ FetchError(f) = "ok" /\ o.err = "ok" /\ c.operands = o
                  /\ HoldsAll(vm, c.vm, f, o)
                  /\ NewAreValidated(vm.memory, c.vm.memory)
                  /\ HashesStored(vm) => HashesStored(c.vm)
<1> DEFINE c == ComputeOperands(vm, i)
           f == Fetch(vm, i)
           o == Operands(vm, i, f)
           n == vm.num_segments
           s == StoreOperands(vm.memory, f, o)
<1>1. vm \in Machines /\ n \in Nat /\ MachineMemory(vm.memory, n)
      /\ Len(vm.memory.data) \in Nat
  BY SegmentsCounted DEF MachineInv, MachineMemory, Machines
<1>2. c = IF FetchError(f) # "ok" THEN [vm |-> vm, err |-> FetchError(f), operands |-> None]
          ELSE StoreOperandsOf(vm, f, o)
  BY DEF ComputeOperands, ComputeFetched
<1>3. CASE FetchError(f) # "ok"
  <2>1. c.vm = vm /\ c.err # "ok"
    BY <1>2, <1>3
  <2>2. Computing(vm, vm)
    BY <1>1, ExtendsItself DEF Computing, Continues
  <2> QED
    BY <2>1, <2>2
<1>4. CASE FetchError(f) = "ok"
  <2>1. Fetched(vm, f)
    BY <1>4, FetchKnown DEF Fetched
  <2>2. c = WithOperands(vm, o, s)
    BY <1>2, <1>4 DEF StoreOperandsOf
  <2>3. f.dst.addr \in Relocatables /\ f.op0.addr \in Relocatables /\ f.op1.addr \in Relocatables
    BY <2>1 DEF Fetched, IsOperand
  <2>4. vm.verified_addresses \in SUBSET Relocatables
    BY <1>1 DEF Machines
  <2>5. o.verified \in SUBSET Relocatables
    BY <2>3, <2>4, OperandsMarks
  <2> HIDE DEF c, f, o, s
  <2>6. CASE o.err # "ok"
    <3> DEFINE kept == [memory |-> vm.memory, err |-> "ok"]
    <3>1. WithOperands(vm, o, s) = WithOperands(vm, o, kept)
      BY <2>6 DEF WithOperands
    <3>2. kept.memory = vm.memory
      OBVIOUS
    <3> HIDE DEF kept
    <3>3. MachineMemory(kept.memory, n) /\ Extends(vm.memory, kept.memory)
      BY <1>1, <3>2, ExtendsItself
    <3>4. Computing(vm, c.vm) /\ c.err # "ok"
      BY <2>2, <2>5, <2>6, <3>1, <3>3, WithOperandsStep
    <3> QED
      BY <3>4 DEF c, f, o
  <2>7. CASE o.err = "ok"
    <3> HIDE DEF n
    <3>1. /\ o.dst \in Known(n)
          /\ o.op0 \in Maybe(Known(n)) /\ o.op1 \in Maybe(Known(n))
          /\ o.res \in Maybe(Known(n))
          /\ f.dst.val # None => o.dst = f.dst.val
          /\ f.op0.val # None => o.op0 = f.op0.val
          /\ f.op1.val # None => o.op1 = f.op1.val
          /\ \A a \in o.verified \ vm.verified_addresses :
               \/ a = f.op0.addr /\ f.op0.val = None /\ HandsOut(vm.memory, a, o.op0)
               \/ a = f.op1.addr /\ f.op1.val = None /\ HandsOut(vm.memory, a, o.op1)
          /\ vm.verified_addresses \subseteq o.verified
      BY <2>1, <2>7, OperandsKnown DEF o, n
    <3>2. o.dst \in Maybe(Known(n))
      BY <3>1 DEF Maybe
    <3>3. /\ MachineMemory(s.memory, n) /\ Extends(vm.memory, s.memory)
          /\ s.err = "ok" =>
              /\ NewAreValidated(vm.memory, s.memory)
              /\ o.dst # None /\ o.op0 # None /\ o.op1 # None
              /\ Cell(s.memory.data, f.dst.addr) = o.dst
              /\ Cell(s.memory.data, f.op0.addr) = o.op0
              /\ Cell(s.memory.data, f.op1.addr) = o.op1
              /\ \A b \in Relocatables :
                   \/ Cell(s.memory.data, b) = Cell(vm.memory.data, b)
                   \/ b = f.dst.addr /\ f.dst.val = None
                   \/ b = f.op0.addr /\ f.op0.val = None
                   \/ b = f.op1.addr /\ f.op1.val = None
      BY <2>1, <3>1, <3>2, StoreOperandsKeeps DEF s, n
    <3>4. /\ Computing(vm, c.vm) /\ c.vm.verified_addresses = o.verified /\ c.operands = o
          /\ c.err = "ok" => s.err = "ok" /\ c.vm.memory = s.memory
      BY <2>2, <2>5, <3>3, WithOperandsStep DEF n
    <3>5. ASSUME c.err = "ok"
          PROVE  HoldsAll(vm, c.vm, f, o)
      BY <3>1, <3>3, <3>4, <3>5 DEF HoldsAll, Maybe, n
    <3>6. ASSUME c.err = "ok", HashesStored(vm)
          PROVE  HashesStored(c.vm)
      <4> SUFFICES ASSUME NEW a \in c.vm.verified_addresses
                   PROVE  /\ HasInputs(c.vm.memory, a)
                          /\ Cell(c.vm.memory.data, a) = HashOf(c.vm.memory, a)
        BY DEF HashesStored
      <4>1. a \in Relocatables /\ a \in o.verified
        BY <2>5, <3>4
      <4>2. /\ s.err = "ok" /\ c.vm.memory = s.memory /\ Extends(vm.memory, c.vm.memory)
            /\ Cell(c.vm.memory.data, f.op0.addr) = o.op0
            /\ Cell(c.vm.memory.data, f.op1.addr) = o.op1
        BY <3>3, <3>4, <3>6
      <4>3. CASE a \in vm.verified_addresses
        <5>1. HasInputs(vm.memory, a) /\ Cell(vm.memory.data, a) = HashOf(vm.memory, a)
          BY <3>6, <4>3 DEF HashesStored
        <5>2. HasInputs(c.vm.memory, a) /\ HashOf(c.vm.memory, a) = HashOf(vm.memory, a)
          BY <4>1, <4>2, <5>1, InputsStay
        <5>3. Cell(vm.memory.data, a) # None
          BY <5>1, HashKnown, KnownKinds
        <5>4. Cell(c.vm.memory.data, a) = Cell(vm.memory.data, a)
          BY <4>1, <4>2, <5>3 DEF Extends
        <5> QED
          BY <5>1, <5>2, <5>4
      <4>4. CASE a \notin vm.verified_addresses
        <5>1. HasInputs(vm.memory, a) /\ Cell(c.vm.memory.data, a) = HashOf(vm.memory, a)
          BY <3>1, <4>1, <4>2, <4>4 DEF HandsOut
        <5>2. HasInputs(c.vm.memory, a) /\ HashOf(c.vm.memory, a) = HashOf(vm.memory, a)
          BY <4>1, <4>2, <5>1, InputsStay
        <5> QED
          BY <5>1, <5>2
      <4> QED
        BY <4>3, <4>4
    <3> QED
      BY <1>4, <2>7, <3>3, <3>4, <3>5, <3>6 DEF c, f, o
  <2> QED
    BY <2>6, <2>7
<1> QED
  BY <1>3, <1>4

-----------------------------------------------------------------------------
(* The registers.                                                          *)

\* The registers that an instruction leaves are values of the machine, and ap
\* stays an address.
LEMMA RegistersKnown ==
  ASSUME NEW vm, MachineInv(vm), NEW n, n = vm.num_segments,
         NEW i, IsInstruction(i),
         NEW o, o.dst \in Known(n), o.op1 \in Known(n), o.res \in Maybe(Known(n))
  PROVE  /\ NewFp(vm, i, o).err = "ok" => NewFp(vm, i, o).val \in Known(n)
         /\ NewAp(vm, i, o).err = "ok" => /\ NewAp(vm, i, o).val \in Known(n)
                                          /\ NewAp(vm, i, o).val \in Relocatables
         /\ NewPc(vm, i, o).err = "ok" => NewPc(vm, i, o).val \in Known(n)
<1>1. vm.pc \in Known(n) /\ vm.ap \in Known(n) /\ vm.fp \in Known(n)
      /\ vm.ap \in Relocatables /\ IsRel(vm.ap) /\ Size(i) \in Nat
  BY SizeNatural, KnownKinds, RelocatableFields DEF MachineInv, Machines
<1>2. ASSUME NewFp(vm, i, o).err = "ok"
      PROVE  NewFp(vm, i, o).val \in Known(n)
  <2>1. CASE i.fp_update = "APPlus2"
    <3>1. NewFp(vm, i, o) = AddUsize(vm.ap, 2)
      BY <2>1 DEF NewFp
    <3> QED
      BY <3>1, <1>1, <1>2, AddUsizeKnown
  <2>2. CASE i.fp_update = "Dst"
    BY <2>2 DEF NewFp, Ok
  <2>3. CASE i.fp_update = "Regular"
    BY <2>3, <1>1 DEF NewFp, Ok
  <2> QED
    BY <2>1, <2>2, <2>3 DEF IsInstruction
<1>3. ASSUME NewAp(vm, i, o).err = "ok"
      PROVE  NewAp(vm, i, o).val \in Known(n) /\ IsRel(NewAp(vm, i, o).val)
  <2>1. CASE i.ap_update = "Add"
    <3>1. o.res \in Known(n) /\ NewAp(vm, i, o) = AddMod(vm.ap, o.res)
      BY <1>3, <2>1 DEF NewAp, Err, Maybe
    <3> QED
      BY <3>1, <1>1, <1>3, AddModKnown
  <2>2. CASE i.ap_update = "Add1"
    <3>1. NewAp(vm, i, o) = AddUsize(vm.ap, 1)
      BY <2>2 DEF NewAp
    <3> QED
      BY <3>1, <1>1, <1>3, AddUsizeKnown
  <2>3. CASE i.ap_update = "Add2"
    <3>1. NewAp(vm, i, o) = AddUsize(vm.ap, 2)
      BY <2>3 DEF NewAp
    <3> QED
      BY <3>1, <1>1, <1>3, AddUsizeKnown
  <2>4. CASE i.ap_update = "Regular"
    BY <2>4, <1>1 DEF NewAp, Ok
  <2> QED
    BY <2>1, <2>2, <2>3, <2>4 DEF IsInstruction
<1>4. ASSUME NewPc(vm, i, o).err = "ok"
      PROVE  NewPc(vm, i, o).val \in Known(n)
  <2>1. CASE i.pc_update = "Regular"
    <3>1. NewPc(vm, i, o) = AddUsizeMod(vm.pc, Size(i))
      BY <2>1 DEF NewPc
    <3> QED
      BY <3>1, <1>1, <1>4, AddUsizeModKnown
  <2>2. CASE i.pc_update = "Jump"
    BY <1>4, <2>2 DEF NewPc, Ok, Err, Maybe
  <2>3. CASE i.pc_update = "JumpRel"
    <3>1. /\ o.res \in Known(n) /\ IsInt(o.res)
          /\ NewPc(vm, i, o) = AddIntMod(vm.pc, o.res.num)
      BY <1>4, <2>3 DEF NewPc, Err, Maybe
    <3>2. o.res.num \in Int
      BY <3>1, KnownKinds
    <3> QED
      BY <3>1, <3>2, <1>1, <1>4, AddIntModKnown
  <2>4. CASE i.pc_update = "Jnz"
    <3>1. CASE o.dst.num = 0
      <4>1. NewPc(vm, i, o) = AddUsize(vm.pc, Size(i))
        BY <1>4, <2>4, <3>1 DEF NewPc, Err
      <4> QED
        BY <4>1, <1>1, <1>4, AddUsizeKnown
    <3>2. CASE o.dst.num # 0
      <4>1. NewPc(vm, i, o) = AddMod(vm.pc, o.op1)
        BY <1>4, <2>4, <3>2 DEF NewPc, Err
      <4> QED
        BY <4>1, <1>1, <1>4, AddModKnown
    <3> QED
      BY <3>1, <3>2
  <2> QED
    BY <2>1, <2>2, <2>3, <2>4 DEF IsInstruction
<1>5. ASSUME NEW v \in Known(n), IsRel(v)
      PROVE  v \in Relocatables
  BY <1>5, KnownKinds
<1> QED
  BY <1>2, <1>3, <1>4, <1>5

\* What updating the registers changes of a vm.
Updating(vm, w) ==
  /\ MachineInv(w)
  /\ w.memory = vm.memory /\ w.num_segments = vm.num_segments
  /\ w.builtin_runners = vm.builtin_runners /\ w.hints = vm.hints
  /\ w.segment_used_sizes = vm.segment_used_sizes
  /\ w.verified_addresses = vm.verified_addresses
  /\ w.current_step \in {vm.current_step, vm.current_step + 1}

\* update_registers.
LEMMA UpdateRegistersStep ==
  ASSUME NEW vm, MachineInv(vm), NEW i, IsInstruction(i),
         NEW o, o.dst \in Known(vm.num_segments), o.op1 \in Known(vm.num_segments),
         o.res \in Maybe(Known(vm.num_segments))
  PROVE  LET r == UpdateRegisters(vm, i, o)
         IN  /\ Updating(vm, r.vm)
             /\ r.vm.trace = vm.trace
             /\ r.err = "ok" =>
                  /\ NewFp(vm, i, o).err = "ok" /\ r.vm.fp = NewFp(vm, i, o).val
                  /\ NewAp(vm, i, o).err = "ok" /\ r.vm.ap = NewAp(vm, i, o).val
                  /\ NewPc(vm, i, o).err = "ok" /\ r.vm.pc = NewPc(vm, i, o).val
                  /\ r.vm.current_step = vm.current_step + 1
<1> DEFINE n  == vm.num_segments
           fp == NewFp(vm, i, o)
           ap == NewAp(vm, i, o)
           pc == NewPc(vm, i, o)
           r  == UpdateRegisters(vm, i, o)
           w  == r.vm
<1>1. vm \in Machines /\ vm.current_step \in Nat
      /\ vm.pc \in Known(n) /\ vm.ap \in Known(n) /\ vm.fp \in Known(n)
      /\ MachineMemory(vm.memory, n) /\ vm.ap \in Relocatables
  BY DEF MachineInv, Machines
<1>2. /\ fp.err = "ok" => fp.val \in Known(n)
      /\ ap.err = "ok" => ap.val \in Known(n) /\ ap.val \in Relocatables
      /\ pc.err = "ok" => pc.val \in Known(n)
  BY RegistersKnown
<1>3. /\ fp.err = "ok" => fp.val \in Values
      /\ pc.err = "ok" => pc.val \in Values
  BY <1>2, KnownKinds
<1>4. r = IF fp.err # "ok" THEN Result(vm, fp.err)
          ELSE IF ap.err # "ok" THEN Result([vm EXCEPT !.fp = fp.val], ap.err)
          ELSE IF pc.err # "ok" THEN Result([vm EXCEPT !.fp = fp.val, !.ap = ap.val], pc.err)
          ELSE Result([vm EXCEPT !.fp = fp.val, !.ap = ap.val, !.pc = pc.val,
                                 !.current_step = @ + 1], "ok")
  BY DEF UpdateRegisters
<1> HIDE DEF n, fp, ap, pc, r
<1> DEFINE kept == /\ w.memory = vm.memory /\ w.num_segments = n
                   /\ w.builtin_runners = vm.builtin_runners /\ w.hints = vm.hints
                   /\ w.segment_used_sizes = vm.segment_used_sizes
                   /\ w.verified_addresses = vm.verified_addresses
                   /\ w.trace = vm.trace
<1>5. n = vm.num_segments
  BY DEF n
<1>6. CASE fp.err # "ok"
  <2>1. r = [vm |-> vm, err |-> fp.err]
    BY <1>4, <1>6 DEF Result
  <2> QED
    BY <1>1, <1>6, <2>1 DEF Updating, r, fp
<1>7. CASE fp.err = "ok" /\ ap.err # "ok"
  <2>1. w = [vm EXCEPT !.fp = fp.val] /\ r.err # "ok"
    BY <1>4, <1>7 DEF Result
  <2>2. w \in Machines
    BY <1>1, <1>3, <1>7, <2>1 DEF Machines
  <2>3. kept /\ w.pc = vm.pc /\ w.ap = vm.ap /\ w.fp = fp.val
        /\ w.current_step = vm.current_step
    BY <1>1, <1>5, <2>1 DEF Machines
  <2> HIDE DEF w
  <2>4. MachineInv(w)
    BY <1>1, <1>2, <1>7, <2>2, <2>3 DEF MachineInv
  <2> QED
    BY <1>5, <2>1, <2>3, <2>4 DEF Updating, r, w
<1>8. CASE fp.err = "ok" /\ ap.err = "ok" /\ pc.err # "ok"
  <2>1. w = [vm EXCEPT !.fp = fp.val, !.ap = ap.val] /\ r.err # "ok"
    BY <1>4, <1>8 DEF Result
  <2>2. w \in Machines
    BY <1>1, <1>2, <1>3, <1>8, <2>1 DEF Machines
  <2>3. kept /\ w.pc = vm.pc /\ w.ap = ap.val /\ w.fp = fp.val
        /\ w.current_step = vm.current_step
    BY <1>1, <1>5, <2>1 DEF Machines
  <2> HIDE DEF w
  <2>4. MachineInv(w)
    BY <1>1, <1>2, <1>8, <2>2, <2>3 DEF MachineInv
  <2> QED
    BY <1>5, <2>1, <2>3, <2>4 DEF Updating, r, w
<1>9. CASE fp.err = "ok" /\ ap.err = "ok" /\ pc.err = "ok"
  <2> DEFINE next == vm.current_step + 1
  <2>1. w = [vm EXCEPT !.fp = fp.val, !.ap = ap.val, !.pc = pc.val, !.current_step = next]
    BY <1>4, <1>9 DEF Result
  <2>5. next \in Nat
    BY <1>1
  <2> HIDE DEF next
  <2>2. w \in Machines
    BY <1>1, <1>2, <1>3, <1>9, <2>1, <2>5 DEF Machines
  <2>3. kept /\ w.pc = pc.val /\ w.ap = ap.val /\ w.fp = fp.val
        /\ w.current_step = vm.current_step + 1
    BY <1>1, <1>5, <2>1 DEF Machines, next
  <2> HIDE DEF w
  <2>4. MachineInv(w)
    BY <1>1, <1>2, <1>9, <2>2, <2>3 DEF MachineInv
  <2> QED
    BY <1>5, <1>9, <2>3, <2>4 DEF Updating, r, w, fp, ap, pc
<1> QED
  BY <1>6, <1>7, <1>8, <1>9

\* An entry of the trace.
LEMMA TracedStep ==
  ASSUME NEW vm, MachineInv(vm)
  PROVE  LET w == Traced(vm)
         IN  /\ Updating(vm, w) /\ w.current_step = vm.current_step
             /\ w.pc = vm.pc /\ w.ap = vm.ap /\ w.fp = vm.fp
             /\ w.trace = IF vm.trace # None /\ IsRel(vm.pc) /\ IsRel(vm.ap) /\ IsRel(vm.fp)
                          THEN Append(vm.trace, [pc |-> vm.pc, ap |-> vm.ap, fp |-> vm.fp])
                          ELSE vm.trace
<1> DEFINE n == vm.num_segments
           entry == [pc |-> vm.pc, ap |-> vm.ap, fp |-> vm.fp]
           w == Traced(vm)
<1>1. vm \in Machines /\ vm.trace \in Maybe(Seq(TraceEntries))
      /\ vm.pc \in Known(n) /\ vm.ap \in Known(n) /\ vm.fp \in Known(n)
  BY DEF MachineInv, Machines
<1>2. CASE vm.trace # None /\ IsRel(vm.pc) /\ IsRel(vm.ap) /\ IsRel(vm.fp)
  <2>1. w = [vm EXCEPT !.trace = Append(vm.trace, entry)]
    BY <1>2 DEF Traced
  <2>2. entry \in TraceEntries
    BY <1>1, <1>2, KnownKinds DEF TraceEntries
  <2>3. Append(vm.trace, entry) \in Seq(TraceEntries)
    BY <1>1, <1>2, <2>2 DEF Maybe
  <2> HIDE DEF entry
  <2>4. w \in Machines
    BY <1>1, <2>1, <2>3 DEF Machines, Maybe
  <2>5. /\ w.memory = vm.memory /\ w.num_segments = n
        /\ w.builtin_runners = vm.builtin_runners /\ w.hints = vm.hints
        /\ w.segment_used_sizes = vm.segment_used_sizes
        /\ w.verified_addresses = vm.verified_addresses
        /\ w.pc = vm.pc /\ w.ap = vm.ap /\ w.fp = vm.fp
        /\ w.current_step = vm.current_step
        /\ w.trace = Append(vm.trace, entry)
    BY <1>1, <2>1 DEF Machines
  <2> HIDE DEF w
  <2>6. MachineInv(w)
    BY <2>4, <2>5 DEF MachineInv
  <2> QED
    BY <1>2, <2>5, <2>6 DEF Updating, w, entry
<1>3. CASE ~(vm.trace # None /\ IsRel(vm.pc) /\ IsRel(vm.ap) /\ IsRel(vm.fp))
  BY <1>3 DEF Traced, Updating
<1> QED
  BY <1>2, <1>3

-----------------------------------------------------------------------------
(* The step.                                                               *)

\* What a step changes of a vm, whether it succeeds or not.
Stepping(vm, w) ==
  /\ MachineInv(w) /\ Continues(vm, w)
  /\ w.current_step \in {vm.current_step, vm.current_step + 1}

\* The instruction i has been executed by vm, which it left as w.
RanInstruction(vm, w, i) ==
  LET f == Fetch(vm, i)
      o == Operands(vm, i, f)
  IN  /\ FetchError(f) = "ok" /\ o.err = "ok"
      /\ HoldsAll(vm, w, f, o)
      /\ OpcodeAssertion(vm, i, o) = "ok"
      /\ NewFp(vm, i, o).err = "ok" /\ w.fp = NewFp(vm, i, o).val
      /\ NewAp(vm, i, o).err = "ok" /\ w.ap = NewAp(vm, i, o).val
      /\ NewPc(vm, i, o).err = "ok" /\ w.pc = NewPc(vm, i, o).val
      /\ w.trace = Traced(vm).trace
      /\ w.current_step = vm.current_step + 1
      /\ NewAreValidated(vm.memory, w.memory)
      /\ HashesStored(vm) => HashesStored(w)

\* The updates of the registers, and what opcode_assertions finds, depend on
\* the registers alone.
LEMMA RegistersDecide ==
  ASSUME NEW vm, NEW w, w.pc = vm.pc, w.ap = vm.ap, w.fp = vm.fp, NEW i, NEW o
  PROVE  /\ OpcodeAssertion(w, i, o) = OpcodeAssertion(vm, i, o)
         /\ NewFp(w, i, o) = NewFp(vm, i, o)
         /\ NewAp(w, i, o) = NewAp(vm, i, o)
         /\ NewPc(w, i, o) = NewPc(vm, i, o)
<1>1. OpcodeAssertion(w, i, o) = OpcodeAssertion(vm, i, o)
  BY DEF OpcodeAssertion
<1>2. NewFp(w, i, o) = NewFp(vm, i, o)
  BY DEF NewFp
<1>3. NewAp(w, i, o) = NewAp(vm, i, o)
  BY DEF NewAp
<1>4. NewPc(w, i, o) = NewPc(vm, i, o)
  BY DEF NewPc
<1> QED
  BY <1>1, <1>2, <1>3, <1>4

\* run_instruction.
LEMMA RunInstructionStep ==
  ASSUME NEW vm, MachineInv(vm), NEW i, IsInstruction(i)
  PROVE  LET r == RunInstruction(vm, i)
         IN  /\ Stepping(vm, r.vm)
             /\ r.err = "ok" => RanInstruction(vm, r.vm, i)
<1> DEFINE r == RunInstruction(vm, i)
           c == ComputeOperands(vm, i)
           f == Fetch(vm, i)
           o == Operands(vm, i, f)
           t == Traced(c.vm)
           u == UpdateRegisters(t, i, o)
           a == OpcodeAssertion(c.vm, i, c.operands)
           n == vm.num_segments
<1>1. /\ Computing(vm, c.vm)
      /\ c.err = "ok" =>
           /\ FetchError(f) = "ok" /\ o.err = "ok" /\ c.operands = o
           /\ HoldsAll(vm, c.vm, f, o)
           /\ NewAreValidated(vm.memory, c.vm.memory)
           /\ HashesStored(vm) => HashesStored(c.vm)
  BY ComputeOperandsStep
<1>2. r = IF c.err # "ok" THEN Result(c.vm, c.err)
          ELSE IF a # "ok" THEN Result(c.vm, a)
          ELSE UpdateRegisters(t, i, c.operands)
  BY DEF RunInstruction, AssertComputed, ExecuteComputed
<1>3. Stepping(vm, c.vm)
  BY <1>1 DEF Computing, Stepping
<1>4. /\ Updating(c.vm, t) /\ t.current_step = c.vm.current_step
      /\ t.pc = c.vm.pc /\ t.ap = c.vm.ap /\ t.fp = c.vm.fp
      /\ t.trace = IF c.vm.trace # None /\ IsRel(c.vm.pc) /\ IsRel(c.vm.ap) /\ IsRel(c.vm.fp)
                   THEN Append(c.vm.trace, [pc |-> c.vm.pc, ap |-> c.vm.ap, fp |-> c.vm.fp])
                   ELSE c.vm.trace
  <2>1. MachineInv(c.vm)
    BY <1>1 DEF Computing
  <2> HIDE DEF c
  <2> QED
    BY <2>1, TracedStep
<1>5. /\ c.vm.pc = vm.pc /\ c.vm.ap = vm.ap /\ c.vm.fp = vm.fp /\ c.vm.trace = vm.trace
      /\ c.vm.current_step = vm.current_step /\ c.vm.num_segments = n
  BY <1>1 DEF Computing
<1>6. t.trace = Traced(vm).trace
  <2>1. Traced(vm).trace =
          IF vm.trace # None /\ IsRel(vm.pc) /\ IsRel(vm.ap) /\ IsRel(vm.fp)
          THEN Append(vm.trace, [pc |-> vm.pc, ap |-> vm.ap, fp |-> vm.fp])
          ELSE vm.trace
    BY TracedStep
  <2> HIDE DEF c, t
  <2> QED
    BY <1>4, <1>5, <2>1
<1> HIDE DEF r, c, f, o, t
<1>7. CASE c.err # "ok" \/ a # "ok"
  <2>1. r.vm = c.vm /\ r.err # "ok"
    BY <1>2, <1>7 DEF Result
  <2> QED
    BY <1>3, <2>1 DEF r
<1>8. CASE c.err = "ok" /\ a = "ok"
  <2>1. r = u /\ HoldsAll(vm, c.vm, f, o) /\ c.operands = o
    BY <1>1, <1>2, <1>8
  <2>2. /\ MachineInv(t) /\ t.num_segments = n
        /\ o.dst \in Known(n) /\ o.op1 \in Known(n) /\ o.res \in Maybe(Known(n))
    BY <1>4, <1>5, <2>1 DEF Updating, HoldsAll
  <2>3. /\ Updating(t, u.vm) /\ u.vm.trace = t.trace
        /\ u.err = "ok" =>
             /\ NewFp(t, i, o).err = "ok" /\ u.vm.fp = NewFp(t, i, o).val
             /\ NewAp(t, i, o).err = "ok" /\ u.vm.ap = NewAp(t, i, o).val
             /\ NewPc(t, i, o).err = "ok" /\ u.vm.pc = NewPc(t, i, o).val
             /\ u.vm.current_step = t.current_step + 1
    BY <2>2, UpdateRegistersStep
  <2> HIDE DEF u
  <2>4. /\ NewFp(t, i, o) = NewFp(vm, i, o) /\ NewAp(t, i, o) = NewAp(vm, i, o)
        /\ NewPc(t, i, o) = NewPc(vm, i, o)
        /\ OpcodeAssertion(c.vm, i, o) = OpcodeAssertion(vm, i, o)
    BY <1>4, <1>5, RegistersDecide
  <2>5. /\ u.vm.memory = c.vm.memory /\ u.vm.num_segments = c.vm.num_segments
        /\ u.vm.builtin_runners = c.vm.builtin_runners /\ u.vm.hints = c.vm.hints
        /\ u.vm.segment_used_sizes = c.vm.segment_used_sizes
        /\ u.vm.verified_addresses = c.vm.verified_addresses
        /\ u.vm.current_step \in {vm.current_step, vm.current_step + 1}
        /\ MachineInv(u.vm)
    BY <1>4, <1>5, <2>3 DEF Updating
  <2>6. Stepping(vm, u.vm)
    BY <1>3, <2>5 DEF Stepping, Continues
  <2>7. ASSUME u.err = "ok"
        PROVE  RanInstruction(vm, u.vm, i)
    <3>1. HoldsAll(vm, u.vm, f, o)
      BY <2>1, <2>5 DEF HoldsAll
    <3>2. NewAreValidated(vm.memory, u.vm.memory)
      BY <1>1, <1>8, <2>5
    <3>3. HashesStored(vm) => HashesStored(u.vm)
      BY <1>1, <1>8, <2>5 DEF HashesStored
    <3>4. OpcodeAssertion(vm, i, o) = "ok"
      BY <1>8, <2>1, <2>4
    <3>5. /\ NewFp(vm, i, o).err = "ok" /\ u.vm.fp = NewFp(vm, i, o).val
          /\ NewAp(vm, i, o).err = "ok" /\ u.vm.ap = NewAp(vm, i, o).val
          /\ NewPc(vm, i, o).err = "ok" /\ u.vm.pc = NewPc(vm, i, o).val
          /\ u.vm.current_step = vm.current_step + 1
          /\ u.vm.trace = Traced(vm).trace
      BY <1>4, <1>5, <1>6, <2>3, <2>4, <2>7
    <3>6. FetchError(f) = "ok" /\ o.err = "ok"
      BY <1>1, <1>8
    <3> QED
      BY <3>1, <3>2, <3>3, <3>4, <3>5, <3>6 DEF RanInstruction, f, o
  <2> QED
    BY <2>1, <2>6, <2>7 DEF r
<1> QED
  BY <1>7, <1>8

\* A hash that is stored stays, while the memory only grows and no other is
\* handed out.
LEMMA HashesStay ==
  ASSUME NEW vm, MachineInv(vm), NEW w, Extends(vm.memory, w.memory),
         w.verified_addresses = vm.verified_addresses, HashesStored(vm)
  PROVE  HashesStored(w)
<1> SUFFICES ASSUME NEW a \in vm.verified_addresses
             PROVE  HasInputs(w.memory, a) /\ Cell(w.memory.data, a) = HashOf(w.memory, a)
  BY DEF HashesStored
<1>1. a \in Relocatables
  BY DEF MachineInv, Machines
<1>2. HasInputs(vm.memory, a) /\ Cell(vm.memory.data, a) = HashOf(vm.memory, a)
  BY DEF HashesStored
<1>3. HasInputs(w.memory, a) /\ HashOf(w.memory, a) = HashOf(vm.memory, a)
  BY <1>1, <1>2, InputsStay
<1>4. Cell(vm.memory.data, a) # None
  BY <1>2, HashKnown, KnownKinds
<1>5. Cell(w.memory.data, a) = Cell(vm.memory.data, a)
  BY <1>1, <1>4 DEF Extends
<1> QED
  BY <1>2, <1>3, <1>5

\* Two steps after another are as good as one.
LEMMA ContinuesTransitive ==
  ASSUME NEW u, MachineInv(u), NEW v, MachineInv(v), NEW w, MachineInv(w),
         Continues(u, v), Continues(v, w)
  PROVE  /\ Continues(u, w)
         /\ NewAreValidated(u.memory, v.memory) /\ NewAreValidated(v.memory, w.memory) =>
              NewAreValidated(u.memory, w.memory)
<1>1. /\ Len(u.memory.data) \in Nat /\ Len(v.memory.data) \in Nat
      /\ Len(w.memory.data) \in Nat
  BY SegmentsCounted DEF MachineInv, MachineMemory
<1>2. u.num_segments \in Nat /\ v.num_segments \in Nat /\ w.num_segments \in Nat
  BY DEF MachineInv, Machines
<1>3. Extends(u.memory, v.memory) /\ Extends(v.memory, w.memory)
  BY DEF Continues
<1>4. /\ Extends(u.memory, w.memory)
      /\ NewAreValidated(u.memory, v.memory) /\ NewAreValidated(v.memory, w.memory) =>
           NewAreValidated(u.memory, w.memory)
  BY <1>1, <1>3, ExtendsTransitive
<1> QED
  BY <1>2, <1>4 DEF Continues

\* What a step that succeeds has done: the hints at pc, and the instruction
\* that is at pc then.
Stepped(vm, h, w) ==
  LET i == InstructionAt(h.memory.data, vm.pc)
  IN  /\ Hinted(vm, h, "ok")
      /\ vm.pc \notin DOMAIN vm.hints => h = vm
      /\ DecodeErrorAt(h.memory.data, vm.pc) = "ok"
      /\ IsInstruction(i)
      /\ RanInstruction(h, w, i)
      /\ w.current_step = vm.current_step + 1
      /\ NewAreValidated(vm.memory, w.memory)
      /\ HashesStored(vm) => HashesStored(w)

\* step.
LEMMA StepOfStep ==
  ASSUME NEW vm, MachineInv(vm), NEW answer \in Maybe(Naturals)
  PROVE  LET r == StepOf(vm, answer)
         IN  /\ Stepping(vm, r.vm)
             /\ r.err = "ok" => Stepped(vm, ExecuteHints(vm, answer).vm, r.vm)
<1> DEFINE r == StepOf(vm, answer)
           e == ExecuteHints(vm, answer)
           h == e.vm
           data == h.memory.data
           error == DecodeErrorAt(data, h.pc)
           i == InstructionAt(data, h.pc)
           s == RunInstruction(h, i)
<1>1. Hinted(vm, h, e.err) /\ (vm.pc \notin DOMAIN vm.hints => e = Result(vm, "ok"))
  BY ExecuteHintsStep
<1>2. r = IF e.err # "ok" THEN e
          ELSE IF error # "ok" THEN Result(h, error) ELSE s
  BY DEF StepOf, StepHinted
<1>3. /\ MachineInv(h) /\ Continues(vm, h) /\ h.pc = vm.pc
      /\ h.verified_addresses = vm.verified_addresses
      /\ h.current_step = vm.current_step
      /\ e.err = "ok" => NewAreValidated(vm.memory, h.memory)
  BY <1>1 DEF Hinted
<1>4. vm.current_step \in Nat
  BY DEF MachineInv, Machines
<1> HIDE DEF r, e, h
<1>5. CASE e.err # "ok" \/ error # "ok"
  <2>1. r.vm = h /\ r.err # "ok"
    BY <1>2, <1>5 DEF Result, h
  <2>2. Stepping(vm, h)
    BY <1>3 DEF Stepping
  <2> QED
    BY <2>1, <2>2 DEF r
<1>6. CASE e.err = "ok" /\ error = "ok"
  <2>1. r = s
    BY <1>2, <1>6
  <2>2. DecodeError(WordAt(data, h.pc).num, ImmediateAt(data, h.pc)) = "ok"
    BY <1>6 DEF DecodeErrorAt
  <2>3. IsInstruction(i)
    BY <2>2, DecodedInstruction DEF InstructionAt
  <2> HIDE DEF i
  <2>4. Stepping(h, s.vm) /\ (s.err = "ok" => RanInstruction(h, s.vm, i))
    BY <1>3, <2>3, RunInstructionStep
  <2> HIDE DEF s
  <2>5. MachineInv(s.vm) /\ Continues(h, s.vm)
        /\ s.vm.current_step \in {vm.current_step, vm.current_step + 1}
    BY <1>3, <2>4 DEF Stepping
  <2>6. /\ Continues(vm, s.vm)
        /\ NewAreValidated(vm.memory, h.memory) /\ NewAreValidated(h.memory, s.vm.memory) =>
             NewAreValidated(vm.memory, s.vm.memory)
    BY <1>3, <2>5, ContinuesTransitive
  <2>7. Stepping(vm, s.vm)
    BY <2>5, <2>6 DEF Stepping
  <2>8. ASSUME s.err = "ok"
        PROVE  Stepped(vm, h, s.vm)
    <3>1. RanInstruction(h, s.vm, i)
      BY <2>4, <2>8
    <3>2. /\ NewAreValidated(h.memory, s.vm.memory)
          /\ HashesStored(h) => HashesStored(s.vm)
          /\ s.vm.current_step = h.current_step + 1
      BY <3>1 DEF RanInstruction
    <3>3. Extends(vm.memory, h.memory)
      BY <1>3 DEF Continues
    <3>4. HashesStored(vm) => HashesStored(h)
      BY <1>3, <3>3, HashesStay
    <3>5. vm.pc \notin DOMAIN vm.hints => h = vm
      BY <1>1 DEF h, Result
    <3>6. Hinted(vm, h, "ok") /\ DecodeErrorAt(data, vm.pc) = "ok"
          /\ i = InstructionAt(data, vm.pc)
      BY <1>1, <1>3, <1>6 DEF i
    <3> QED
      BY <1>3, <1>6, <2>3, <2>6, <3>1, <3>2, <3>4, <3>5, <3>6 DEF Stepped
  <2> QED
    BY <2>1, <2>7, <2>8 DEF r, h, e
<1> QED
  BY <1>5, <1>6
=============================================================================
