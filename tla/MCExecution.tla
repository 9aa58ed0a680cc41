---------------------------- MODULE MCExecution -----------------------------
(* Programs without builtins: every sequence of three instructions of a     *)
(* small set, followed by a ret, from an empty frame.  And programs that    *)
(* write to the output segment, and one that has no main: their output may  *)
(* be asked for at any moment.                                              *)
EXTENDS Assembler

Instructions ==
  {Push(0), Push(7), Poke(1, 3), PushFp(-1), PushFp(-2),
   Sum(0, -1, -2), Sum(-1, 0, -2), Sum(-2, -1, 0), SumImm(0, -1, 2),
   Product(0, -1, -2), Product(-1, 0, -2), Product(-1, -2, 0),
   AddAp(2), AddAp(100), CallRel(4), CallRel(98), JmpRel(3), Jnz(3), JmpAbs, Ret}

OutputInstructions == {Push(6), Push(70), PushFp(-1), StoreAt(0), StoreAt(1), StoreAt(2)}

MCPrograms ==
  {Plain(<< >>, Code(s \o <<Ret>>)) : s \in Sequences(3, Instructions)}
    \union {Plain(<<"output">>, Code(s \o <<Ret>>)) : s \in Sequences(4, OutputInstructions)}
    \union {[Plain(<<"output">>, Ret) EXCEPT !.main = None]}

MCHash(x, y) == 0
MCBitwise(index, x, y) == 0
MCAnswers == {None}
=============================================================================
