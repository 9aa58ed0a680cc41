------------------------------ MODULE Assembler ------------------------------
(* An assembler for the instances: the words of the instructions that the   *)
(* Cairo compiler emits, for offsets of sixteen values, from -8 to 7.       *)
EXTENDS CairoRunner, SequencesExt

\* The word of an instruction, from its offsets and the fields of its flags.
Word(off0, off1, off2, dst, op0, op1, res, pc, ap, opcode) ==
  IntValue((off0 + 8) + 16 * (off1 + 8) + 256 * (off2 + 8)
    + 4096 * (dst + 2 * op0 + 4 * op1 + 32 * res + 128 * pc + 1024 * ap + 4096 * opcode))

\* [ap] = n; ap++
Push(n) == <<Word(0, -1, 1, 0, 1, 1, 0, 0, 2, 4), IntValue(n)>>
\* [ap + k] = n
Poke(k, n) == <<Word(k, -1, 1, 0, 1, 1, 0, 0, 0, 4), IntValue(n)>>
\* [ap] = [fp + k]; ap++
PushFp(k) == <<Word(0, -1, k, 0, 1, 2, 0, 0, 2, 4)>>
\* [ap - 1] = [[fp - 3] + k], which writes through the pointer at fp - 3
StoreAt(k) == <<Word(-1, -3, k, 0, 1, 0, 0, 0, 0, 4)>>
\* [ap] = [[fp - 3] + k]; ap++
LoadAt(k) == <<Word(0, -3, k, 0, 1, 0, 0, 0, 2, 4)>>
\* [ap + d] = [ap + a] + [ap + b] and [ap + d] = [ap + a] * [ap + b]
Sum(d, a, b)     == <<Word(d, a, b, 0, 0, 4, 1, 0, 0, 4)>>
Product(d, a, b) == <<Word(d, a, b, 0, 0, 4, 2, 0, 0, 4)>>
\* [ap + d] = [ap + a] + n, an address when [ap + a] is one
SumImm(d, a, n) == <<Word(d, a, 1, 0, 0, 1, 1, 0, 0, 4), IntValue(n)>>
\* ap += n
AddAp(n) == <<Word(-1, -1, 1, 1, 1, 1, 0, 0, 1, 0), IntValue(n)>>
\* call rel n
CallRel(n) == <<Word(0, 1, 1, 0, 0, 1, 0, 2, 0, 1), IntValue(n)>>
\* jmp rel n
JmpRel(n) == <<Word(-1, -1, 1, 1, 1, 1, 0, 2, 0, 0), IntValue(n)>>
\* jmp rel n if [ap - 1] != 0
Jnz(n) == <<Word(-1, -1, 1, 0, 1, 1, 0, 4, 0, 0), IntValue(n)>>
\* jmp abs [ap - 1]
JmpAbs == <<Word(-1, -1, -1, 1, 1, 4, 0, 1, 0, 0)>>
\* ret
Ret == <<Word(-2, -1, -1, 1, 1, 2, 0, 1, 0, 2)>>

\* [ap - 2] = [[ap - 1] + k], which writes through the pointer at ap - 1
StoreAp(k) == <<Word(-2, -1, k, 0, 0, 0, 0, 0, 0, 4)>>

\* The code of a sequence of instructions.
Code(instructions) == FlattenSeq(instructions)

\* The sequences of n instructions of a set.
Sequences(n, instructions) == [1..n -> instructions]

\* A program without hints whose main is its first instruction.
Plain(builtins, code) ==
  [data |-> code, main |-> 0, builtins |-> builtins, hints |-> << >>]
=============================================================================
