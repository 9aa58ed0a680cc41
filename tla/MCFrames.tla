------------------------------ MODULE MCFrames ------------------------------
(* Products and sums of addresses: the programs behind what the code does   *)
(* not ensure.                                                              *)
EXTENDS Assembler

MCPrograms ==
  {Plain(<< >>, Code(s)) : s \in
     {\* 3 is no multiple of 7 as an integer.
      <<Push(3), Push(7), Product(-2, -1, 0), Ret>>,
      \* The final pc and the fp of main's caller are different addresses.
      <<PushFp(-1), PushFp(-2), SumImm(-1, -2, 0), Ret>>}}

MCHash(x, y) == 0
MCBitwise(index, x, y) == 0
MCAnswers == {None}
=============================================================================
