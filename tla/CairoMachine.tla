---------------------------- MODULE CairoMachine ----------------------------
(***************************************************************************)
(* The Cairo machine: what a run of the virtual machine is, seen from its  *)
(* registers and its memory, and what the code promises of it.  The memory *)
(* only grows.  An instruction is executed when the memory it leaves holds *)
(* the instruction and its three operands, and relates them; how operands  *)
(* are found, deduced and written is left open.                            *)
(***************************************************************************)
EXTENDS Decoder

VARIABLES
  mode,   (* "loading", "running" or "stopped".                            *)
  regs,   (* The registers pc, ap and fp while running, None otherwise.    *)
  mem,    (* The assigned cells: a function from addresses to values.      *)
  hinted, (* The pcs that have hints, which may assign the cell at ap.     *)
  owned   (* The segments of the builtins, which may answer for their      *)
          (* cells before the instruction does.                            *)

vars == <<mode, regs, mem, hinted, owned>>

Grows(m, n) ==
  /\ DOMAIN m \subseteq DOMAIN n
  /\ \A a \in DOMAIN m : n[a] = m[a]

-----------------------------------------------------------------------------
(* The meaning of an instruction in a memory that holds its operands.      *)

RegisterIn(r, name) == IF name = "AP" THEN r.ap ELSE r.fp

Holds(m, a) == a \in DOMAIN m
HoldsInt(m, a) == Holds(m, a) /\ IsInt(m[a])

\* The integer after the instruction, which is what an immediate is.
Immediate(m, pc) ==
  LET next == AddUsize(pc, 1).val
  IN  IF HoldsInt(m, next) THEN m[next].num ELSE None

Decodes(m, pc) ==
  /\ HoldsInt(m, pc)
  /\ m[pc].num <= WordMax
  /\ DecodeError(m[pc].num, Immediate(m, pc)) = "ok"

InstructionIn(m, pc) == Instruction(m[pc].num, Immediate(m, pc))

\* The addresses of the operands: None when there is no such address.
DstAddress(i, r) == AddIntMod(RegisterIn(r, i.dst_register), i.off0).val
Op0Address(i, r) == AddIntMod(RegisterIn(r, i.op0_register), i.off1).val
Op1Address(i, r, m) ==
  LET base == CASE i.op1_addr = "Imm" -> r.pc
                [] i.op1_addr = "Op0" -> m[Op0Address(i, r)]
                [] OTHER              -> RegisterIn(r, i.op1_addr)
  IN  AddIntMod(base, i.off2).val

HoldsOperands(i, r, m) ==
  /\ Holds(m, DstAddress(i, r))
  /\ Holds(m, Op0Address(i, r))
  /\ Holds(m, Op1Address(i, r, m))

OperandsIn(i, r, m) ==
  [dst |-> m[DstAddress(i, r)], op0 |-> m[Op0Address(i, r)], op1 |-> m[Op1Address(i, r, m)]]

\* What an instruction computes from its operands; an error is not a value.
Computed(i, o) ==
  CASE i.res = "Op1" -> Ok(o.op1)
    [] i.res = "Add" -> AddMod(o.op0, o.op1)
    [] i.res = "Mul" -> IF IsInt(o.op0) /\ IsInt(o.op1)
                        THEN Ok(IntValue((o.op0.num * o.op1.num) % Prime))
                        ELSE Err("PureValue")
    [] i.res = "Unconstrained" -> Ok(None)

\* Equal as elements of the field, or as addresses.
Same(v, w) ==
  IF IsInt(v) /\ IsInt(w) THEN v.num % Prime = w.num % Prime ELSE v = w

\* The equation of an assert_eq.
Equation(i, o) == Computed(i, o).err = "ok" /\ Same(Computed(i, o).val, o.dst)

\* The return pc that a call leaves for its ret.
ReturnPc(i, r) == AddUsize(r.pc, Size(i)).val

\* The registers after the instruction, when res is the result.
NextAp(i, r, res) ==
  CASE i.ap_update = "Add"     -> AddMod(r.ap, res).val
    [] i.ap_update = "Add1"    -> AddUsize(r.ap, 1).val
    [] i.ap_update = "Add2"    -> AddUsize(r.ap, 2).val
    [] i.ap_update = "Regular" -> r.ap

NextFp(i, r, o) ==
  CASE i.opcode = "Call" -> AddUsize(r.ap, 2).val
    [] i.opcode = "Ret"  -> o.dst
    [] OTHER             -> r.fp

NextPc(i, r, o, res) ==
  LET following == AddUsize(r.pc, Size(i)).val
  IN  CASE i.pc_update = "Regular" -> following
        [] i.pc_update = "Jump"    -> res
        [] i.pc_update = "JumpRel" -> IF IsInt(res) THEN AddIntMod(r.pc, res.num).val ELSE None
        [] i.pc_update = "Jnz"     -> IF o.dst = IntValue(0) THEN following
                                      ELSE AddMod(r.pc, o.op1).val

\* The result of an assert_eq is dst, or what it is compared with.
Results(i, o) ==
  (IF Computed(i, o).err = "ok" THEN {Computed(i, o).val} ELSE {}) \union
  (IF i.opcode = "AssertEq" THEN {o.dst} ELSE {})

\* r2 are the registers after the instruction at r, in the memory m.
Follows(r, r2, m) ==
  LET i == InstructionIn(m, r.pc)
      o == OperandsIn(i, r, m)
  IN  /\ Decodes(m, r.pc)
      /\ HoldsOperands(i, r, m)
      /\ \E res \in Results(i, o) :
           r2 = [pc |-> NextPc(i, r, o, res), ap |-> NextAp(i, r, res),
                 fp |-> NextFp(i, r, o)]

-----------------------------------------------------------------------------
(* What is promised of the operands.  free is the set of the cells that    *)
(* the instruction finds unassigned, and so has to assign.                 *)

\* A product is solved for a factor by a truncating division of integers.
SolvedFactor(i, o, dstFree) ==
  /\ i.res = "Mul" /\ ~dstFree
  /\ IsInt(o.dst) /\ IsInt(o.op0) /\ IsInt(o.op1)
  /\ \/ o.op1.num # 0 /\ o.op0.num = TruncMod(TruncDiv(o.dst.num, o.op1.num), Prime)
     \/ o.op0.num # 0 /\ o.op1.num = TruncMod(TruncDiv(o.dst.num, o.op0.num), Prime)

\* Only integers are compared when every operand is there.
NotCompared(i, o, dstFree) ==
  ~dstFree /\ ~(IsInt(o.dst) /\ Computed(i, o).err = "ok" /\ IsInt(Computed(i, o).val))

Promised(i, r, m, free) ==
  LET o == OperandsIn(i, r, m)
      dstFree == DstAddress(i, r) \in free
  IN  /\ i.opcode = "AssertEq" =>
           \/ Equation(i, o)
           \/ SolvedFactor(i, o, dstFree)
           \/ NotCompared(i, o, dstFree)
      /\ i.opcode = "Call" =>
           /\ dstFree => o.dst = r.fp
           /\ Op0Address(i, r) \in free /\ Op0Address(i, r).seg \notin owned =>
                o.op0 = ReturnPc(i, r)

-----------------------------------------------------------------------------
Init == mode = "loading" /\ regs = None /\ mem = << >> /\ hinted = {} /\ owned = {}

\* The builtins get their segments; the program and the initial stack are
\* loaded.
Load ==
  /\ mode = "loading" /\ mode' = "loading"
  /\ Grows(mem, mem')
  /\ UNCHANGED <<regs, hinted>>

Start ==
  /\ mode = "loading" /\ mode' = "running"
  /\ regs' \in [pc : Values, ap : Values, fp : Values]
  /\ UNCHANGED <<mem, owned>>

\* One instruction, after the hints at its pc.
Execute ==
  /\ mode = "running" /\ mode' = "running"
  /\ Grows(mem, mem')
  /\ Follows(regs, regs', mem')
  /\ LET assigned == DOMAIN mem' \ DOMAIN mem
     IN  \E byHints \in SUBSET (assigned \intersect
                                 (IF regs.pc \in hinted THEN {regs.ap} ELSE {})) :
           Promised(InstructionIn(mem', regs.pc), regs, mem', assigned \ byHints)
  /\ UNCHANGED <<hinted, owned>>

\* The run ends: at its final pc, or by an error that may leave cells behind.
Stop ==
  /\ mode' = "stopped" /\ regs' = None
  /\ Grows(mem, mem')
  /\ mode = "stopped" => mem' = mem

Next == Load \/ Start \/ Execute \/ Stop

Spec == Init /\ [][Next]_vars
=============================================================================
