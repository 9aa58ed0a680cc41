------------------------------- MODULE MCFrame -------------------------------
(* References to arguments, locals and temporaries, direct and through a    *)
(* pointer, with offsets out of reach on either side, and one constant.     *)
EXTENDS Frame

Text(outer, register, inner, offsets) ==
  [outer |-> outer, register |-> register, inner |-> inner, offsets |-> offsets]

MCTexts ==
  {Text(TRUE, r, FALSE, <<n>>) : r \in {"AP", "FP"}, n \in {-3, -1}}
    \union {Text(TRUE, r, TRUE, <<-1, n>>) : r \in {"AP", "FP"}, n \in {-2, 0, 1}}
    \union {Text(TRUE, "FP", TRUE, <<-2>>), Text(FALSE, "AP", FALSE, << >>),
            Text(FALSE, "FP", FALSE, <<1>>), Text(FALSE, None, FALSE, << >>),
            Text(TRUE, "FP", FALSE, <<99>>)}

MCArguments == <<IntValue(5), RelocatableValue(1, 1)>>
MCPushed == {IntValue(5), RelocatableValue(1, 1)}
MCJumps == {2}

A == <<"main", "a">>
B == <<"main", "b">>
MCHints == {<<[ids |-> (A :> i @@ B :> j)], [ids |-> (B :> j)]>> : i, j \in 0..1}
=============================================================================
