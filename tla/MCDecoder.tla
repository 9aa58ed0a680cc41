------------------------------ MODULE MCDecoder ------------------------------
(* Every word of three offsets and fifteen flags, reached by setting its    *)
(* bits, against the layout that decoder.rs draws above decode_instruction, *)
(* read the other way: from the fields to the bits.                         *)
EXTENDS Decoder

VARIABLE word

Init == word = 0

SetBit(n) == (word \div 2^n) % 2 = 0 /\ word' = word + 2^n

Bits == {n \in 0..30 : 2^n <= WordMax}
Next == \E n \in Bits : SetBit(n)

Spec == Init /\ [][Next]_word

-----------------------------------------------------------------------------
Imm == 5   \* The integer after the instruction, should it be an immediate.

\* The flag bits of a field: the fields are laid side by side, and a value of
\* a field is one bit of it, or none.
FlagBits(i) ==
  (IF i.dst_register = "FP" THEN {0} ELSE {}) \union
  (IF i.op0_register = "FP" THEN {1} ELSE {}) \union
  (CASE i.op1_addr = "Op0" -> {} [] i.op1_addr = "Imm" -> {2}
     [] i.op1_addr = "FP" -> {3} [] i.op1_addr = "AP" -> {4}) \union
  (CASE i.res = "Add" -> {5} [] i.res = "Mul" -> {6} [] OTHER -> {}) \union
  (CASE i.pc_update = "Regular" -> {} [] i.pc_update = "Jump" -> {7}
     [] i.pc_update = "JumpRel" -> {8} [] i.pc_update = "Jnz" -> {9}) \union
  (CASE i.ap_update = "Add" -> {10} [] i.ap_update = "Add1" -> {11} [] OTHER -> {}) \union
  (CASE i.opcode = "NOp" -> {} [] i.opcode = "Call" -> {12}
     [] i.opcode = "Ret" -> {13} [] i.opcode = "AssertEq" -> {14})

FlagSet == {n \in 0..14 : (word \div (OffsetSize^3 * 2^n)) % 2 = 1}

\* A word that decodes is the encoding of the instruction it decodes to: no
\* flag is read twice or not at all, no offset is confused with another, and
\* so no two words are the same instruction.
DecodingLosesNothing ==
  DecodeError(word, Imm) = "ok" =>
    LET i == Instruction(word, Imm)
        biased(off) == off + OffsetSize \div 2
    IN  /\ {i.off0, i.off1, i.off2}
             \subseteq (-(OffsetSize \div 2))..(OffsetSize \div 2 - 1)
        /\ biased(i.off0) + OffsetSize * biased(i.off1)
             + OffsetSize * OffsetSize * biased(i.off2) = word % (OffsetSize^3)
        /\ FlagBits(i) = FlagSet

\* A word is refused exactly when two bits of one field are set.
RefusedWhenAmbiguous ==
  (DecodeError(word, Imm) = "ok") <=>
    \A field \in {2..4, 5..6, 7..9, 10..11, 12..14} :
      \A m, n \in field \intersect FlagSet : m = n
=============================================================================
