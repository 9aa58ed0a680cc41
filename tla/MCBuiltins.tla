----------------------------- MODULE MCBuiltins -----------------------------
(* Programs that read and write the segment of a builtin, in any order: an  *)
(* input after the result, a result that is wrong, a value out of range.    *)
(* And programs with hints at their first and second instruction: new       *)
(* segments, written through the pointer the hint leaves, hints that fail,  *)
(* and a hint that writes where a call saves its caller's fp.               *)
EXTENDS Assembler, Bitwise

PedersenCode ==
  Sequences(4, {Push(10), StoreAt(0), StoreAt(1), StoreAt(2), LoadAt(2)})
BitwiseCode ==
  Sequences(4, {Push(10), Push(70), StoreAt(0), StoreAt(1), StoreAt(2), LoadAt(3), LoadAt(4)})
RangeCheckCode ==
  Sequences(3, {Push(16), PushFp(-3), StoreAt(0), StoreAt(1), StoreAt(2), LoadAt(0)})

OutputCode ==
  Sequences(3, {Push(70), PushFp(-1), StoreAt(0), StoreAt(1), StoreAt(2)})

ProgramsOf(builtins, codes) ==
  {Plain(builtins, Code(<<Push(6)>> \o s \o <<Ret>>)) : s \in codes}

\* P, Q and m are written to an instance of ec_op, the sum is read; or one of
\* its coordinates is asserted first.  (1, 1) is not on the curve.
EcOpCode(first, P, Q, m) ==
  Code(first \o FlattenSeq([i \in 1..5 |-> <<Push((P \o Q \o <<m>>)[i]), StoreAt(i - 1)>>])
         \o <<LoadAt(5), LoadAt(6), Ret>>)

EcOpCodes ==
  {EcOpCode(<<>>, P, Q, m) :
     P \in {<<0, 3>>, <<2, 25>>, <<1, 1>>}, Q \in {<<0, 98>>, <<2, 25>>, <<4, 73>>, <<1, 1>>},
     m \in {0, 1, 2, 3, 5, 6, 35, 100, 101}}
    \union {EcOpCode(<<Push(n), StoreAt(5)>>, <<2, 25>>, <<4, 73>>, 1) : n \in 0..30}

Instructions ==
  {Push(3), PushFp(-1), AddAp(1), StoreAp(0), StoreAp(1), SumImm(0, -1, 2),
   CallRel(2), JmpAbs, Ret}

HintLists ==
  {<< >>, <<"ADD_SEGMENT">>, <<"IS_NN">>, <<"ADD_SEGMENT", "IS_NN">>,
   <<"IS_NN", "UNKNOWN">>}

\* The hints are at the offsets of the first and the second instruction.
HintedPrograms ==
  {[data |-> Code(s \o <<Ret>>), main |-> 0, builtins |-> << >>,
    hints |-> [off \in {0, Len(s[1])} |-> IF off = 0 THEN first ELSE second]] :
     s \in Sequences(3, Instructions), first \in HintLists,
     second \in {<< >>, <<"ADD_SEGMENT">>}}

\* fp is moved to the segment of pedersen, then a call finds the cell that it
\* leaves its return pc in: the hash of an instance, if it is complete.
CallCodes ==
  {Code(<<Push(10)>> \o s \o
        <<<<Word(-3, -1, 1, 1, 1, 1, 0, 2, 0, 2), IntValue(2)>>,
          <<Word(0, 2, 1, 0, 1, 1, 0, 2, 0, 1), IntValue(2)>>, Ret>>) :
     s \in {<<StoreAt(0)>>, <<StoreAt(0), StoreAt(1)>>}}

MCPrograms ==
  ProgramsOf(<<"pedersen">>, PedersenCode)
    \union {Plain(<<"pedersen">>, code) : code \in CallCodes}
    \union ProgramsOf(<<"output", "bitwise">>, BitwiseCode)
    \union ProgramsOf(<<"pedersen", "range_check">>, RangeCheckCode)
    \union ProgramsOf(<<"output">>, OutputCode)
    \union ProgramsOf(<<"output", "ecdsa">>, {<<StoreAt(0)>>, <<LoadAt(0)>>})
    \union ProgramsOf(<<"bitwise", "output">>, {<<StoreAt(0)>>, <<LoadAt(0)>>})
    \union {Plain(<<"ec_op">>, code) : code \in EcOpCodes}
    \union HintedPrograms

MCHash(x, y) == (3 * x + y) % Prime
MCBitwise(index, x, y) ==
  CASE index = 2 -> x & y [] index = 3 -> x ^^ y [] index = 4 -> x | y
MCAnswers == {None, IntValue(0), IntValue(1)}
=============================================================================
