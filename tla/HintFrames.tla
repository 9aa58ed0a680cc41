----------------------------- MODULE HintFrames -----------------------------
(***************************************************************************)
(* Calls of hints: records with                                            *)
(*   code, ids, tracking   the hint, the map from its variables to indices *)
(*                 of references, the tracking of its pc;                  *)
(*   references    the list of references, None for one without an entry;  *)
(*   data          the cells of the segments;                              *)
(*   ap, fp, builtin_runners, scopes, trackers   those of the vm;          *)
(*   expected      what a test of the repository expects, None without: an *)
(*                 error, the values of some cells, and the scopes and     *)
(*                 the trackers, or None.                                  *)
(***************************************************************************)
EXTENDS HintDispatch

I(n)    == IntValue(n)
P(s, o) == RelocatableValue(s, o)

Tracking(group, offset) == [group |-> group, offset |-> offset]
NoTracking == Tracking(0, 0)

\* References as the list of a program has them.
Fp(n)         == [address |-> Address("FP", n, 0, FALSE), ap_tracking_data |-> None]
FpInner(n, m) == [address |-> Address("FP", n, m, TRUE), ap_tracking_data |-> None]
Ap(n, at)     == [address |-> Address("AP", n, 0, FALSE), ap_tracking_data |-> at]

\* Names that refer to the references one after the other.
InOrder(names) == [name \in Range(names) |-> (CHOOSE i \in DOMAIN names : names[i] = name) - 1]

NoScope == << >>  \* A scope without variables.

\* A call whose variables have one cell each, in order, below fp.
Call(code, names, cells, heap, builtins) ==
  [code |-> code, ids |-> InOrder(names), tracking |-> NoTracking,
   references |-> [i \in 1..Len(names) |-> Fp(i - 1 - Len(names))],
   data |-> <<cells, heap>>, ap |-> P(0, Len(names)), fp |-> P(0, Len(names)),
   builtin_runners |-> builtins, scopes |-> <<NoScope>>, trackers |-> << >>,
   expected |-> None]

\* The vm in which a call is made.
VmOf(of) ==
  [memory |-> [EmptyMemory EXCEPT !.data = of.data], scopes |-> of.scopes,
   trackers |-> of.trackers, ap |-> of.ap, fp |-> of.fp, builtin_runners |-> of.builtin_runners,
   references |-> [i \in {j \in 0..(Len(of.references) - 1) : of.references[j + 1] # None} |->
                     of.references[i + 1]]]

Heap(n) == P(1, n)
=============================================================================
