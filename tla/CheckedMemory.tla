--------------------------- MODULE CheckedMemory ----------------------------
(***************************************************************************)
(* What the Cairo memory promises, without segments, gaps or errors: an    *)
(* immutable store.  A cell is assigned at most once, and a cell that the  *)
(* range check has vouched for holds a value in its range from then on.    *)
(***************************************************************************)
CONSTANTS
  Address,    (* The cells.                                                *)
  Content,    (* The values a cell may hold.                               *)
  Unassigned, (* What a cell holds before it is assigned.                  *)
  Good(_)     (* The values the range check accepts.                       *)

VARIABLES
  cells,      (* The contents of every cell.                               *)
  vouched     (* The cells whose value has been range-checked.             *)

Init ==
  /\ cells = [a \in Address |-> Unassigned]
  /\ vouched = {}

\* Some cells that hold nothing are assigned, any subset of the cells that
\* now hold an acceptable value is vouched for.
Assign ==
  /\ cells' \in [Address -> Content \union {Unassigned}]
  /\ \A a \in Address : cells[a] # Unassigned => cells'[a] = cells[a]
  /\ vouched \subseteq vouched'
  /\ \A a \in vouched' : a \in Address /\ Good(cells'[a])

Spec == Init /\ [][Assign]_<<cells, vouched>>
=============================================================================
