------------------------------- MODULE MCLoops -------------------------------
(* Copies to and from overlapping cells, some of them taken or empty, of no *)
(* cells up to more than there are, and a length that is an address; two    *)
(* calls, in scopes of the program or not, one of them with a variable n.   *)
EXTENDS Loops

MCHeaps == {<<I(5), I(6)>>, <<I(5), I(5), Heap(0), None, I(6)>>}
MCScopes == {<<NoScope>>, <<"n" :> 1>>}

Lengths == {I(n) : n \in {0, 1, 2, 3, 6}} \union {Heap(0)}
MCCopies == {<<Heap(d), Heap(s), n>> : d \in {0, 1, 3}, s \in {0, 1, 2}, n \in Lengths}
MCSets   == {<<Heap(d), v, n>> : d \in {0, 2}, v \in {I(5), Heap(0)}, n \in Lengths}
=============================================================================
