--------------------------- MODULE MCDictionaries ----------------------------
(* Two dictionaries with a few accesses, or an array of up to four accesses *)
(* written by hand; a key above the range check's bound, two below it.      *)
EXTENDS Dictionaries

MCKeys == {0, 20}
MCVals == {5, 6}
MCInitialDict == [k \in {0, 20} |-> 6]

Accessing(k, p, n) == <<IntValue(k), IntValue(p), IntValue(n)>>

\* Accesses in any order, chained or not; an address and a gap among them.
MCArrays ==
  LET short == {Accessing(k, p, n) : k \in {0, 1, 20}, p \in MCVals, n \in MCVals}
      long  == {Accessing(0, 5, 6), Accessing(0, 6, 5), Accessing(20, 5, 5), Accessing(1, 5, 5)}
      bad   == {<<RelocatableValue(0, 0), IntValue(5), IntValue(5)>>,
                <<IntValue(0), None, IntValue(5)>>, <<None, IntValue(5), IntValue(5)>>}
  IN  {FlattenSeq(a) : a \in UNION {[1..n -> short] : n \in 1..2}}
        \union {FlattenSeq(a) : a \in [1..4 -> long]}
        \union {a \o b : a \in {Accessing(0, 5, 6)}, b \in bad}

MCPrograms ==
  {[array |-> a, initial_dict |-> None, dicts |-> 0, accesses |-> 0] : a \in MCArrays}
    \union {[array |-> << >>, initial_dict |-> i, dicts |-> 2, accesses |-> 2] :
               i \in {None, MCInitialDict}}
    \union {[array |-> << >>, initial_dict |-> None, dicts |-> 1, accesses |-> 3]}
=============================================================================
