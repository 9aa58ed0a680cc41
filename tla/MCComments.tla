------------------------------ MODULE MCComments ------------------------------
(* The five hints, with the numbers around the bound each compares with. *)
EXTENDS Comments

Around(n) == (n - 1)..(n + 1)

Frames(code, names, rows) == {Call(code, names, row, << >>, <<"range_check">>) : row \in rows}

MCCalls ==
  Frames("is_positive", <<"value", "is_positive">>,
         {<<IntValue(n % Prime), None>> : n \in Around(RangeCheckBound) \union Around(-RangeCheckBound)})
  \union Frames("assert_250_bit", <<"value", "low", "high">>,
                {<<IntValue(n), None, None>> : n \in Around(TwoTo250)})
  \union Frames("split_64", <<"a", "low", "high">>,
                {<<IntValue(n), None, None>> : n \in Around(RangeCheckBound)})
  \union Frames("assert_le_felt", <<"a", "b", "small_inputs">>,
                {<<IntValue(0), IntValue(n), None>> : n \in Around(RangeCheckBound)})
  \union {Call("split_int", <<"value", "base", "bound", "output">>,
               <<IntValue(n), IntValue(16), IntValue(15), Heap(0)>>, << >>, <<"range_check">>) :
            n \in Around(15)}
=============================================================================
