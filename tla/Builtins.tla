------------------------------ MODULE Builtins ------------------------------
(***************************************************************************)
(* The builtin runners (vm/runners/builtin_runner.rs): what they make of a *)
(* cell of their segment.  A runner is a record with its name and its base *)
(* (None until its segment exists); verified_addresses is the list that    *)
(* the pedersen runner keeps.  The output and range_check runners deduce   *)
(* nothing; range_check has the validation rule of MemoryCells.            *)
(***************************************************************************)
EXTENDS MemoryCells, EcOp

CONSTANTS
  Pedersen(_, _),    (* pedersen_hash, of the crate starknet_crypto.       *)
  BitwiseOf(_, _, _),(* The and, xor and or of two integers, by the index  *)
                     (* of their cell in the instance: 2, 3 or 4.          *)
  BitwiseBound       (* 2^251: the operands of bitwise are below it.       *)

\* Both give numbers for the operands they are applied to.
ASSUME BuiltinAssumption ==
  /\ BitwiseBound \in Nat
  /\ \A x, y \in 0..(Prime - 1) : Pedersen(x, y) \in Nat
  /\ \A index \in 2..4 : \A x, y \in 0..(BitwiseBound - 1) :
       BitwiseOf(index, x, y) \in Nat

HashCells    == 3  \* cells_per_instance of pedersen: two inputs, a hash.
BitwiseCells == 5  \* cells_per_instance of bitwise: two inputs, three results.
EcOpCells    == 7  \* cells_per_instance of ec_op: P, Q, m, and the sum.
EcOpInputs   == 5  \* n_input_cells of ec_op.

\* The cell of an instance that is back cells before a.
Back(memory, a, back) == Cell(memory.data, [a EXCEPT !.off = @ - back])

\* What a runner answers: a result and the verified addresses it leaves.
Deduced(r, verified) == [err |-> r.err, val |-> r.val, verified |-> verified]

\* Fault: the cell counts as verified before its inputs are looked at.
DeduceHashMarksEarly(memory, verified, a) ==
  LET x == Back(memory, a, 2)
      y == Back(memory, a, 1)
  IN  IF a.off % HashCells # 2 \/ a \in verified THEN Deduced(Ok(None), verified)
      ELSE Deduced(IF IsInt(x) /\ IsInt(y) THEN Ok(IntValue(Pedersen(x.num, y.num)))
                                          ELSE Ok(None),
                   verified \union {a})

\* HashBuiltinRunner::deduce_memory_cell.  A cell is deduced once: it counts
\* as verified from then on, before anything is done with the answer.
DeduceHash(memory, verified, a) ==
  LET x == Back(memory, a, 2)
      y == Back(memory, a, 1)
  IN  IF a.off % HashCells # 2 \/ a \in verified THEN Deduced(Ok(None), verified)
      ELSE IF ~(IsInt(x) /\ IsInt(y)) THEN Deduced(Ok(None), verified)
      ELSE Deduced(IF {x.num, y.num} \subseteq 0..(Prime - 1)
                   THEN Ok(IntValue(Pedersen(x.num, y.num)))
                   ELSE Err("FailedStringConversion"),
                   verified \union {a})

\* BitwiseBuiltinRunner::deduce_memory_cell
DeduceBitwise(memory, a) ==
  LET index == a.off % BitwiseCells
      x == Back(memory, a, index)
      y == Back(memory, a, index - 1)
  IN  IF index \in {0, 1} THEN Ok(None)
      ELSE IF ~(IsInt(x) /\ IsInt(y)) THEN Ok(None)
      ELSE IF x.num >= BitwiseBound \/ y.num >= BitwiseBound THEN Err("panic")
      ELSE Ok(IntValue(BitwiseOf(index, x.num, y.num)))

\* EcOpBuiltinRunner::deduce_memory_cell.  The inputs are looked at in order:
\* the first that is unassigned or no Int decides.  P must be on the curve, Q
\* is not looked at.
DeduceEcOp(memory, a) ==
  LET index == a.off % EcOpCells
      input(i) == Back(memory, a, index - i + 1)
      odd   == {i \in 1..EcOpInputs : ~IsInt(input(i))}
      first == CHOOSE i \in odd : \A j \in odd : i <= j
      num(i) == input(i).num
      Coordinate(sum) == IF sum.err # "ok" THEN Err("panic")
                         ELSE Ok(IntValue(sum.val[index - EcOpInputs + 1]))
  IN  IF index < EcOpInputs THEN Ok(None)
      ELSE IF odd # {} THEN IF input(first) = None THEN Ok(None) ELSE Err("ExpectedInteger")
      ELSE IF num(5) >= Prime THEN Err("EcOpBuiltinScalarLimit")
      ELSE IF ~PointOnCurve(<<num(1), num(2)>>) THEN Err("panic")
      ELSE Coordinate(EcOpImpl(<<num(1), num(2)>>, <<num(3), num(4)>>, num(5)))

\* deduce_memory_cell of any runner.
DeduceBy(runner, memory, verified, a) ==
  CASE runner.name = "pedersen" -> DeduceHash(memory, verified, a)
    [] runner.name = "bitwise"  -> Deduced(DeduceBitwise(memory, a), verified)
    [] runner.name = "ec_op"    -> Deduced(DeduceEcOp(memory, a), verified)
    [] OTHER                    -> Deduced(Ok(None), verified)

\* The runners whose segment is s: one at most, their bases differ.
RunnersOf(runners, s) ==
  {i \in 1..Len(runners) : runners[i].base # None /\ runners[i].base.seg = s}

\* VirtualMachine::deduce_memory_cell
DeduceMemoryCell(runners, memory, verified, a) ==
  IF ~IsRel(a) THEN Deduced(Err("NonRelocatableAddress"), verified)
  ELSE IF RunnersOf(runners, a.seg) = {} THEN Deduced(Ok(None), verified)
  ELSE LET first == CHOOSE i \in RunnersOf(runners, a.seg) :
                      \A j \in RunnersOf(runners, a.seg) : i <= j
       IN  DeduceBy(runners[first], memory, verified, a)
=============================================================================
