------------------------------ MODULE Comments ------------------------------
(***************************************************************************)
(* A program executes hints of the library one after the other, each in a  *)
(* frame of its own, and keeps account of the comments that fail it.       *)
(***************************************************************************)
EXTENDS Library

VARIABLE contradicted  \* The hints with an answer that their comment excludes.

ProgramInit == Init /\ contradicted = {}

\* execute_hint
Answers ==
  /\ Execute
  /\ contradicted' = contradicted \union {of \in {call.code} : outcome' = "ok" /\ ~Accepted'}

\* The program goes on to its next hint.
GoesOn ==
  /\ outcome # None
  /\ call' \in Calls /\ vm' = VmOf(call') /\ outcome' = None
  /\ UNCHANGED contradicted

ProgramNext == Answers \/ GoesOn

ProgramSpec == ProgramInit /\ [][ProgramNext]_<<vars, contradicted>>

-----------------------------------------------------------------------------
\* The hints that Accepted judges by their comments:
\*   assert_le_felt   a < range_check_builtin.bound and
\*                    (b - a) < range_check_builtin.bound;
\*   split_int        assert res < ids.bound;
\*   assert_250_bit   assert value < ids.UPPER_BOUND;
\*   split_64         ids.high = ids.a >> 64;
\*   is_positive      rc_bound=range_check_builtin.bound, below which the range
\*                    check of the value or of its opposite succeeds.
Commented == {"assert_le_felt", "split_int", "assert_250_bit", "split_64", "is_positive"}

\* Whatever hints a program executes, one of the five comments has been right
\* about every answer of its hint so far.  Each of the five comments implies it,
\* so a program that refutes it refutes all five.
SomeCommentHolds == contradicted # Commented
=============================================================================
