--------------------------- MODULE VirtualMachine ---------------------------
(***************************************************************************)
(* One step of the virtual machine (vm/vm_core.rs, vm/context).  A vm is a *)
(* record with the fields of struct VirtualMachine that a run changes:     *)
(*   pc, ap, fp                    the RunContext, each an Int or address; *)
(*   memory, num_segments, segment_used_sizes                              *)
(*                                 Memory and MemorySegmentManager;        *)
(*   builtin_runners, verified_addresses  the runners of Builtins;         *)
(*   hints                         from a pc to the hints to run there;    *)
(*   trace                         None, or the registers before each step;*)
(*   current_step.                                                         *)
(* An operator that may fail returns the vm it leaves behind, changed as   *)
(* far as the code got, and an err that is "ok" when it did not fail.      *)
(***************************************************************************)
EXTENDS Decoder, Builtins

Result(vm, err) == [vm |-> vm, err |-> err]

-----------------------------------------------------------------------------
(* Hints.  add_segment is modelled whole.  IS_NN stands for the hints that *)
(* leave one integer at [ap] (is_nn, is_nn_out_of_range, is_le_felt): what *)
(* they compute is the parameter answer, None when they fail before they   *)
(* write.                                                                  *)

InsertHint(vm, key, val) ==
  LET r == Insert(vm.memory, key, val)
  IN  Result([vm EXCEPT !.memory = r.memory], r.err)

\* Fault: the pointer is taken from the counter once it is incremented.
AddSegmentHintAfterCount(vm) ==
  InsertHint([vm EXCEPT !.memory = WithNewSegment(@), !.num_segments = @ + 1],
             vm.ap, RelocatableValue(vm.num_segments + 1, 0))

\* hint_utils::add_segment.  The new segment stays when the insert fails.
AddSegmentHint(vm) ==
  InsertHint([vm EXCEPT !.memory = WithNewSegment(@), !.num_segments = @ + 1],
             vm.ap, RelocatableValue(vm.num_segments, 0))

\* execute_hint
ExecuteHint(vm, code, answer) ==
  CASE code = "ADD_SEGMENT" -> AddSegmentHint(vm)
    [] code = "IS_NN"       -> IF answer = None THEN Result(vm, "FailedHint")
                               ELSE InsertHint(vm, vm.ap, answer)
    [] OTHER                -> Result(vm, "UnknownHint")

HintsAt(vm) == IF vm.pc \in DOMAIN vm.hints THEN vm.hints[vm.pc] ELSE << >>

\* The hints of the pc, in order, up to the first that fails.
ExecuteHints(vm, answer) ==
  LET codes == HintsAt(vm)
      after[n \in 0..Len(codes)] ==
        IF n = 0 THEN Result(vm, "ok")
        ELSE IF after[n - 1].err # "ok" THEN after[n - 1]
        ELSE ExecuteHint(after[n - 1].vm, codes[n], answer)
  IN  after[Len(codes)]

-----------------------------------------------------------------------------
(* Operands.                                                               *)

RegisterOf(vm, register) == IF register = "AP" THEN vm.ap ELSE vm.fp

\* RunContext::compute_dst_addr, compute_op0_addr, compute_op1_addr
DstAddr(vm, i) == AddIntMod(RegisterOf(vm, i.dst_register), i.off0)
Op0Addr(vm, i) == AddIntMod(RegisterOf(vm, i.op0_register), i.off1)
Op1Addr(vm, i, op0) ==
  CASE i.op1_addr \in {"AP", "FP"} -> AddIntMod(RegisterOf(vm, i.op1_addr), i.off2)
    [] i.op1_addr = "Imm" -> IF i.off2 = 1 THEN AddIntMod(vm.pc, 1)
                                           ELSE Err("ImmShouldBe1")
    [] i.op1_addr = "Op0" -> IF op0 = None THEN Err("UnknownOp0")
                                           ELSE AddIntMod(op0, i.off2)

\* The operand at a computed address: its contents, None when unassigned.
Operand(memory, addr) ==
  [err  |-> IF addr.err # "ok" THEN addr.err
            ELSE IF IsRel(addr.val) THEN "ok" ELSE "InvalidInstructionEncoding",
   addr |-> addr.val,
   val  |-> IF addr.err = "ok" /\ IsRel(addr.val) THEN Cell(memory, addr.val) ELSE None]

\* What a deduction makes of an operand and of res.
Deduction(val, res)     == [err |-> "ok", val |-> val, res |-> res]
NoDeduction             == Deduction(None, None)
DeductionFrom(r, res)   == [err |-> r.err, val |-> r.val, res |-> res]

\* The factor that deduce_op0 and deduce_op1 solve a product for.
DeduceFactor(dst, op) ==
  IF IsInt(dst) /\ IsInt(op) /\ op.num # 0
  THEN Deduction(IntValue(TruncMod(TruncDiv(dst.num, op.num), Prime)), dst)
  ELSE NoDeduction

\* deduce_op0 and deduce_op1: an operand from dst and the other operand.
DeduceTerm(i, dst, op) ==
  IF i.opcode # "AssertEq" \/ dst = None \/ op = None THEN NoDeduction
  ELSE CASE i.res = "Add" -> DeductionFrom(Sub(dst, op), dst)
         [] i.res = "Mul" -> DeduceFactor(dst, op)
         [] OTHER         -> NoDeduction

DeduceOp0(vm, i, dst, op1) ==
  IF i.opcode = "Call" THEN DeductionFrom(AddUsize(vm.pc, Size(i)), None)
  ELSE DeduceTerm(i, dst, op1)

DeduceOp1(i, dst, op0) ==
  IF i.opcode = "AssertEq" /\ i.res = "Op1" /\ dst # None THEN Deduction(dst, dst)
  ELSE DeduceTerm(i, dst, op0)

\* compute_res
ComputeRes(i, op0, op1) ==
  CASE i.res = "Op1" -> Ok(op1)
    [] i.res = "Add" -> AddMod(op0, op1)
    [] i.res = "Mul" -> IF IsInt(op0) /\ IsInt(op1)
                        THEN Ok(IntValue(TruncMod(op0.num * op1.num, Prime)))
                        ELSE Err("PureValue")
    [] i.res = "Unconstrained" -> Ok(None)

\* deduce_dst, and the cases of compute_operands that come before it.
DeduceDst(vm, i, res) ==
  IF i.opcode = "AssertEq" /\ res # None THEN Ok(res)
  ELSE IF i.opcode = "Call" THEN Ok(vm.fp)
  ELSE Err("NoDst")

\* Each operand as the instruction finds it.
Fetch(vm, i) ==
  LET op0 == Operand(vm.memory.data, Op0Addr(vm, i))
  IN  [dst |-> Operand(vm.memory.data, DstAddr(vm, i)),
       op0 |-> op0,
       op1 |-> IF op0.err # "ok" THEN op0
               ELSE Operand(vm.memory.data, Op1Addr(vm, i, op0.val))]

\* Fault: the builtin's answer is taken though the cell has a value.
PrefersBuiltin(operand, byBuiltin, byInstruction, verified) ==
  LET found == IF byBuiltin.err # "ok" \/ byBuiltin.val # None
               THEN DeductionFrom(byBuiltin, None)
               ELSE IF operand.val # None THEN Deduction(operand.val, None)
               ELSE byInstruction
  IN  [err |-> found.err, val |-> found.val, res |-> found.res,
       verified |-> byBuiltin.verified]

\* An operand completed: what it is if it has a value, what the builtin that
\* owns its cell answers if it has an answer, or what the instruction makes
\* of the other operands.
Completed(operand, byBuiltin, byInstruction, verified) ==
  LET found == IF byBuiltin.err # "ok" \/ byBuiltin.val # None
               THEN DeductionFrom(byBuiltin, None) ELSE byInstruction
  IN  IF operand.val # None
      THEN [err |-> "ok", val |-> operand.val, res |-> None, verified |-> verified]
      ELSE [err |-> found.err, val |-> found.val, res |-> found.res,
            verified |-> byBuiltin.verified]

Complete(vm, verified, operand, byInstruction) ==
  Completed(operand,
            DeduceMemoryCell(vm.builtin_runners, vm.memory, verified, operand.addr),
            byInstruction, verified)

\* The operands are completed in order: op0, then op1 with it, then res unless
\* one of them gave it, then dst.
CompleteRes(i, op0, op1) ==
  IF op0.res # None THEN Ok(op0.res)
  ELSE IF op1.res # None THEN Ok(op1.res)
  ELSE IF op0.val = None \/ op1.val = None THEN Err("InvalidInstructionEncoding")
  ELSE ComputeRes(i, op0.val, op1.val)

CompleteDst(vm, i, dst, res) ==
  IF dst.val # None THEN Ok(dst.val) ELSE DeduceDst(vm, i, res)

OperandsFrom(op0, op1, res, dst) ==
  [err |-> IF op0.err # "ok" THEN op0.err
           ELSE IF op1.err # "ok" THEN op1.err
           ELSE IF res.err # "ok" THEN res.err
           ELSE dst.err,
   dst |-> dst.val, op0 |-> op0.val, op1 |-> op1.val, res |-> res.val,
   verified |-> IF op0.err # "ok" THEN op0.verified ELSE op1.verified]

OperandsWithRes(vm, i, f, op0, op1, res) ==
  OperandsFrom(op0, op1, res, CompleteDst(vm, i, f.dst, res.val))

OperandsWithOp1(vm, i, f, op0, op1) ==
  OperandsWithRes(vm, i, f, op0, op1, CompleteRes(i, op0, op1))

OperandsWithOp0(vm, i, f, op0) ==
  OperandsWithOp1(vm, i, f, op0,
    Complete(vm, op0.verified, f.op1, DeduceOp1(i, f.dst.val, op0.val)))

\* The values of the operands, before the missing ones are written.
Operands(vm, i, f) ==
  OperandsWithOp0(vm, i, f,
    Complete(vm, vm.verified_addresses, f.op0, DeduceOp0(vm, i, f.dst.val, f.op1.val)))

\* An operand that had no value is written; what the insert says is wrong is
\* not told.
StoreMissing(r, operand, val) ==
  LET inserted == Insert(r.memory, operand.addr, val)
  IN  IF r.err # "ok" \/ operand.val # None THEN r
      ELSE IF val = None THEN [memory |-> r.memory, err |-> "InvalidInstructionEncoding"]
      ELSE [memory |-> inserted.memory,
            err    |-> IF inserted.err = "ok" THEN "ok" ELSE "InvalidInstructionEncoding"]

StoreOperands(memory, f, o) ==
  StoreMissing(
    StoreMissing(
      StoreMissing([memory |-> memory, err |-> "ok"], f.dst, o.dst),
      f.op0, o.op0),
    f.op1, o.op1)

FetchError(f) ==
  IF f.dst.err # "ok" THEN f.dst.err
  ELSE IF f.op0.err # "ok" THEN f.op0.err
  ELSE f.op1.err

\* The vm once the operands o are known, and written if nothing failed.
WithOperands(vm, o, stored) ==
  [vm       |-> IF o.err # "ok" THEN [vm EXCEPT !.verified_addresses = o.verified]
                ELSE [vm EXCEPT !.verified_addresses = o.verified,
                                !.memory = stored.memory],
   err      |-> IF o.err # "ok" THEN o.err ELSE stored.err,
   operands |-> o]

StoreOperandsOf(vm, f, o) == WithOperands(vm, o, StoreOperands(vm.memory, f, o))

ComputeFetched(vm, i, f) ==
  IF FetchError(f) # "ok" THEN [vm |-> vm, err |-> FetchError(f), operands |-> None]
  ELSE StoreOperandsOf(vm, f, Operands(vm, i, f))

\* compute_operands: the operands, and the vm with the missing ones written.
ComputeOperands(vm, i) == ComputeFetched(vm, i, Fetch(vm, i))

-----------------------------------------------------------------------------
(* The instruction.                                                        *)

\* Fault: res and dst are not compared.
OpcodeAssertionOfCalls(vm, i, o) ==
  IF i.opcode = "AssertEq" /\ o.res = None THEN "UnconstrainedResAssertEq" ELSE "ok"

\* opcode_assertions: only integers are compared.
OpcodeAssertion(vm, i, o) ==
  LET differ(v, w) == IsInt(v) /\ IsInt(w) /\ v.num # w.num
  IN  CASE i.opcode = "AssertEq" ->
             IF o.res = None THEN "UnconstrainedResAssertEq"
             ELSE IF differ(o.res, o.dst) THEN "DiffAssertValues"
             ELSE "ok"
        [] i.opcode = "Call" ->
             IF IsInt(vm.pc) /\ differ(o.op0, AddUsize(vm.pc, Size(i)).val)
             THEN "CantWriteReturnPc"
             ELSE IF differ(vm.fp, o.dst) THEN "CantWriteReturnFp"
             ELSE "ok"
        [] OTHER -> "ok"

\* The trace gets an entry if the three registers are addresses.
Traced(vm) ==
  IF vm.trace # None /\ IsRel(vm.pc) /\ IsRel(vm.ap) /\ IsRel(vm.fp)
  THEN [vm EXCEPT !.trace = Append(@, [pc |-> vm.pc, ap |-> vm.ap, fp |-> vm.fp])]
  ELSE vm

\* update_fp, update_ap, update_pc: the value each gives its register.
NewFp(vm, i, o) ==
  CASE i.fp_update = "APPlus2" -> AddUsize(vm.ap, 2)
    [] i.fp_update = "Dst"     -> Ok(o.dst)
    [] i.fp_update = "Regular" -> Ok(vm.fp)

NewAp(vm, i, o) ==
  CASE i.ap_update = "Add"     -> IF o.res = None THEN Err("UnconstrainedResAdd")
                                                  ELSE AddMod(vm.ap, o.res)
    [] i.ap_update = "Add1"    -> AddUsize(vm.ap, 1)
    [] i.ap_update = "Add2"    -> AddUsize(vm.ap, 2)
    [] i.ap_update = "Regular" -> Ok(vm.ap)

NewPc(vm, i, o) ==
  CASE i.pc_update = "Regular" -> AddUsizeMod(vm.pc, Size(i))
    [] i.pc_update = "Jump"    -> IF o.res = None THEN Err("UnconstrainedResJump")
                                                  ELSE Ok(o.res)
    [] i.pc_update = "JumpRel" -> IF o.res = None THEN Err("UnconstrainedResJumpRel")
                                  ELSE IF IsInt(o.res) THEN AddIntMod(vm.pc, o.res.num)
                                  ELSE Err("PureValue")
    [] i.pc_update = "Jnz"     -> IF IsRel(o.dst) THEN Err("PureValue")
                                  ELSE IF o.dst.num = 0 THEN AddUsize(vm.pc, Size(i))
                                  ELSE AddMod(vm.pc, o.op1)

\* update_registers, and the step is counted: a register keeps its new value
\* when the update of a later one fails.
UpdateRegisters(vm, i, o) ==
  LET fp == NewFp(vm, i, o)
      ap == NewAp(vm, i, o)
      pc == NewPc(vm, i, o)
  IN  IF fp.err # "ok" THEN Result(vm, fp.err)
      ELSE IF ap.err # "ok" THEN Result([vm EXCEPT !.fp = fp.val], ap.err)
      ELSE IF pc.err # "ok" THEN Result([vm EXCEPT !.fp = fp.val, !.ap = ap.val], pc.err)
      ELSE Result([vm EXCEPT !.fp = fp.val, !.ap = ap.val, !.pc = pc.val,
                             !.current_step = @ + 1], "ok")

\* Fault: the trace entry is made once the registers are updated.
ExecuteTracesLate(i, computed, assertion) ==
  LET updated == UpdateRegisters(computed.vm, i, computed.operands)
  IN  IF computed.err # "ok" THEN Result(computed.vm, computed.err)
      ELSE IF assertion # "ok" THEN Result(computed.vm, assertion)
      ELSE Result(Traced(updated.vm), updated.err)

\* run_instruction, once the operands are computed.
ExecuteComputed(i, computed, assertion) ==
  IF computed.err # "ok" THEN Result(computed.vm, computed.err)
  ELSE IF assertion # "ok" THEN Result(computed.vm, assertion)
  ELSE UpdateRegisters(Traced(computed.vm), i, computed.operands)

AssertComputed(i, computed) ==
  ExecuteComputed(i, computed, OpcodeAssertion(computed.vm, i, computed.operands))

\* run_instruction
RunInstruction(vm, i) == AssertComputed(i, ComputeOperands(vm, i))

\* get_instruction_encoding and decode_current_instruction: the word at pc,
\* which must fit in an i64, and the integer that follows it, if there is one.
WordAt(data, pc) == IF IsRel(pc) THEN Cell(data, pc) ELSE None
ImmediateAt(data, pc) ==
  LET next == Cell(data, AddUsize(pc, 1).val)
  IN  IF IsInt(next) THEN next.num ELSE None

DecodeErrorAt(data, pc) ==
  IF ~IsInt(WordAt(data, pc)) THEN "InvalidInstructionEncoding"
  ELSE IF AddUsize(pc, 1).err # "ok" THEN AddUsize(pc, 1).err
  ELSE IF WordAt(data, pc).num > WordMax THEN "InvalidInstructionEncoding"
  ELSE DecodeError(WordAt(data, pc).num, ImmediateAt(data, pc))

InstructionAt(data, pc) == Instruction(WordAt(data, pc).num, ImmediateAt(data, pc))

\* step, after the hints.
StepHinted(hinted) ==
  LET vm    == hinted.vm
      data  == vm.memory.data
      error == DecodeErrorAt(data, vm.pc)
  IN  IF hinted.err # "ok" THEN hinted
      ELSE IF error # "ok" THEN Result(vm, error)
      ELSE RunInstruction(vm, InstructionAt(data, vm.pc))

\* step
StepOf(vm, answer) == StepHinted(ExecuteHints(vm, answer))

-----------------------------------------------------------------------------
(* The final check.                                                        *)

\* Fault: only the first runner's segment is verified.
BuiltinCellsOfFirst(vm) ==
  {a \in AddressesIn(vm.memory.data) : 1 \in RunnersOf(vm.builtin_runners, a.seg)}

\* verify_auto_deductions: every cell of a builtin's segment, gaps included,
\* in order, until one is refused; what the pedersen runner deduces on the
\* way counts as verified.
BuiltinCells(vm) ==
  {a \in AddressesIn(vm.memory.data) : RunnersOf(vm.builtin_runners, a.seg) # {}}

\* No cell is deduced twice, so each meets the verified addresses it started
\* with.
Redo(vm, a) ==
  DeduceMemoryCell(vm.builtin_runners, vm.memory, vm.verified_addresses, a)

AutoDeductionError(value, redone) ==
  IF redone.err = "panic" THEN "panic"
  ELSE IF redone.err # "ok" THEN "InvalidInstructionEncoding"
  ELSE IF redone.val # None /\ value \notin {None, redone.val}
  THEN "InconsistentAutoDeduction"
  ELSE "ok"

\* The cells of redone are compared with what was deduced for them.
Verified(vm, redone) ==
  LET error(a)     == AutoDeductionError(Cell(vm.memory.data, a), redone[a])
      inconsistent == {a \in DOMAIN redone : error(a) # "ok"}
      first        == CHOOSE a \in inconsistent :
                        \A b \in inconsistent \ {a} : Before(a, b)
      visited      == {a \in DOMAIN redone : \A b \in inconsistent : a = b \/ Before(a, b)}
  IN  Result([vm EXCEPT !.verified_addresses =
                           @ \union UNION {redone[a].verified : a \in visited}],
             IF inconsistent = {} THEN "ok" ELSE error(first))

VerifyAutoDeductions(vm) ==
  LET unset == {i \in 1..Len(vm.builtin_runners) : vm.builtin_runners[i].base = None}
  IN  IF unset # {} /\ AddressesIn(vm.memory.data) # {}
      THEN Result(vm, "InvalidInstructionEncoding")
      ELSE Verified(vm, [a \in BuiltinCells(vm) |-> Redo(vm, a)])
=============================================================================
