------------------------------ MODULE Decoder -------------------------------
(***************************************************************************)
(* Instructions and their decoding (types/instruction.rs,                  *)
(* vm/decoding/decoder.rs).  An instruction is a word: three offsets of    *)
(* OffsetSize values each, lowest first, and above them fifteen flag bits. *)
(***************************************************************************)
EXTENDS MaybeRelocatable

CONSTANT OffsetSize  \* 2^16: the number of values of an encoded offset.

ASSUME OffsetAssumption == OffsetSize \in Nat /\ OffsetSize > 0 /\ OffsetSize % 2 = 0

\* i64::MAX for this width of the offsets.
WordMax == OffsetSize * OffsetSize * OffsetSize * (2^15) - 1

\* The i-th offset of a word, which is biased by half of its range: the bias
\* is subtracted as a u16, and the result reinterpreted as an i16.
DecodeOffset(word, i) ==
  LET half    == OffsetSize \div 2
      encoded == (word \div (OffsetSize^i)) % OffsetSize
      biased  == (encoded - half) % OffsetSize
  IN  IF biased < half THEN biased ELSE biased - OffsetSize

\* The bits of the flags from bit off on.
Flags(word, off, width) == (word \div (OffsetSize^3 * 2^off)) % 2^width

Op1Src(word)   == Flags(word, 2, 3)
ResLogic(word) == Flags(word, 5, 2)
PcFlag(word)   == Flags(word, 7, 3)
ApFlagLow(word) == Flags(word, 9, 2)    \* Fault: one bit too low
ApFlag(word)   == Flags(word, 10, 2)
OpcodeOf(word) == Flags(word, 12, 3)

\* Fault: a sum and a product at once is taken for a sum.
DecodeErrorButRes(word, imm) ==
  IF Op1Src(word) \notin {0, 1, 2, 4}           THEN "InvalidOp1Reg"
  ELSE IF Op1Src(word) = 1 /\ imm = None        THEN "panic"
  ELSE IF PcFlag(word) \notin {0, 1, 2, 4}      THEN "InvalidPcUpdate"
  ELSE IF OpcodeOf(word) \notin {0, 1, 2, 4}    THEN "InvalidOpcode"
  ELSE IF ApFlag(word) = 3                      THEN "InvalidApUpdate"
  ELSE "ok"

\* Why a word is not an instruction.  An immediate operand with no integer
\* in the next cell is an assertion failure.
DecodeError(word, imm) ==
  IF Op1Src(word) \notin {0, 1, 2, 4}           THEN "InvalidOp1Reg"
  ELSE IF Op1Src(word) = 1 /\ imm = None        THEN "panic"
  ELSE IF PcFlag(word) \notin {0, 1, 2, 4}      THEN "InvalidPcUpdate"
  ELSE IF ResLogic(word) = 3                    THEN "InvalidRes"
  ELSE IF OpcodeOf(word) \notin {0, 1, 2, 4}    THEN "InvalidOpcode"
  ELSE IF ApFlag(word) = 3                      THEN "InvalidApUpdate"
  ELSE "ok"

Register(bit) == IF bit = 1 THEN "FP" ELSE "AP"

\* decode_instruction, for a word that has no error.
Instruction(word, imm) ==
  LET op1_addr  == CASE Op1Src(word) = 0 -> "Op0" [] Op1Src(word) = 1 -> "Imm"
                     [] Op1Src(word) = 2 -> "FP"  [] Op1Src(word) = 4 -> "AP"
      pc_update == CASE PcFlag(word) = 0 -> "Regular" [] PcFlag(word) = 1 -> "Jump"
                     [] PcFlag(word) = 2 -> "JumpRel" [] PcFlag(word) = 4 -> "Jnz"
      opcode    == CASE OpcodeOf(word) = 0 -> "NOp" [] OpcodeOf(word) = 1 -> "Call"
                     [] OpcodeOf(word) = 2 -> "Ret" [] OpcodeOf(word) = 4 -> "AssertEq"
  IN  [off0 |-> DecodeOffset(word, 0),
       off1 |-> DecodeOffset(word, 1),
       off2 |-> DecodeOffset(word, 2),
       imm  |-> IF op1_addr = "Imm" THEN imm ELSE None,
       dst_register |-> Register(Flags(word, 0, 1)),
       op0_register |-> Register(Flags(word, 1, 1)),
       op1_addr  |-> op1_addr,
       pc_update |-> pc_update,
       res       |-> CASE ResLogic(word) = 1 -> "Add"
                       [] ResLogic(word) = 2 -> "Mul"
                       [] OTHER -> IF pc_update = "Jnz" THEN "Unconstrained" ELSE "Op1",
       ap_update |-> CASE ApFlag(word) = 1 -> "Add"
                       [] ApFlag(word) = 2 -> "Add1"
                       [] OTHER -> IF opcode = "Call" THEN "Add2" ELSE "Regular",
       fp_update |-> CASE opcode = "Call" -> "APPlus2"
                       [] opcode = "Ret"  -> "Dst"
                       [] OTHER           -> "Regular",
       opcode    |-> opcode]

\* Instruction::size
Size(instruction) == IF instruction.imm = None THEN 1 ELSE 2
=============================================================================
