-------------------------- MODULE MaybeRelocatable --------------------------
(***************************************************************************)
(* The values of the Cairo memory (types/relocatable.rs).  A value is      *)
(* either a BigInt or a Relocatable, the address of a cell in a segment    *)
(* whose place in the final memory is not known yet.                       *)
(*                                                                         *)
(* The arithmetic of the code returns a Result: here a record whose err    *)
(* is "ok" when val is the result, and names the error otherwise.  "panic" *)
(* stands for a Rust panic, which no caller of this code catches.          *)
(***************************************************************************)
EXTENDS Integers, Sequences

CONSTANTS
  Prime,          (* The modulus of the field the program runs over.       *)
  UsizeMax,       (* usize::MAX: the largest offset a Relocatable can hold. *)
  OverflowChecks, (* TRUE in a debug build: usize arithmetic panics when   *)
                  (* it overflows; FALSE in a release build: it wraps.     *)
  None            (* Rust's None: an unassigned cell, an absent operand.   *)

\* The field is wider than a machine word (its prime has 252 bits).
ASSUME FieldAssumption ==
  /\ UsizeMax \in Nat
  /\ Prime \in Nat
  /\ Prime > UsizeMax + 1
  /\ OverflowChecks \in BOOLEAN

IntValue(n)              == [kind |-> "int", num |-> n]
RelocatableValue(s, off) == [kind |-> "rel", seg |-> s, off |-> off]

Ints         == [kind : {"int"}, num : Int]
Relocatables == [kind : {"rel"}, seg : Nat, off : Nat]
Values       == Ints \union Relocatables

ASSUME NoneAssumption == None \notin Values

IsInt(v) == v # None /\ v.kind = "int"
IsRel(v) == v # None /\ v.kind = "rel"

Ok(v)  == [err |-> "ok", val |-> v]
Err(e) == [err |-> e, val |-> None]

-----------------------------------------------------------------------------
\* Rust's / and % on BigInt truncate towards zero.
TruncDiv(a, b) ==
  LET quotient == (IF a < 0 THEN -a ELSE a) \div (IF b < 0 THEN -b ELSE b)
  IN  IF (a < 0) = (b < 0) THEN quotient ELSE -quotient

TruncMod(a, b) == a - b * TruncDiv(a, b)

\* An offset that must fit in a usize (BigInt::to_usize).
WithOffset(v, off) ==
  IF off \in 0..UsizeMax THEN Ok(RelocatableValue(v.seg, off))
                         ELSE Err("OffsetExceeded")

\* A usize sum or difference: checked in a debug build, wrapped otherwise.
Usize(n) ==
  IF n \in 0..UsizeMax THEN Ok(n)
  ELSE IF OverflowChecks THEN Err("panic")
  ELSE Ok(n % (UsizeMax + 1))

\* add_int_mod: an instruction's offset is added to a register.
AddIntMod(v, n) ==
  IF IsInt(v)           THEN Ok(IntValue((v.num + n) % Prime))
  ELSE IF v.off + n < 0 THEN Err("panic")
  ELSE WithOffset(v, (v.off + n) % Prime)

\* add_usize_mod with no prime: pc + 1, pc + size, ap + 1, ap + 2.
AddUsize(v, n) ==
  IF IsInt(v) THEN Ok(IntValue(v.num + n))
  ELSE LET off == Usize(v.off + n)
       IN  IF off.err = "ok" THEN Ok(RelocatableValue(v.seg, off.val)) ELSE off

\* add_usize_mod with the prime: only an Int is reduced.
AddUsizeMod(v, n) ==
  IF IsInt(v) THEN Ok(IntValue((v.num + n) % Prime)) ELSE AddUsize(v, n)

\* add_mod
AddMod(v, w) ==
  IF IsInt(v) /\ IsInt(w)      THEN Ok(IntValue((v.num + w.num) % Prime))
  ELSE IF IsRel(v) /\ IsRel(w) THEN Err("RelocatableAdd")
  ELSE IF IsRel(v)             THEN WithOffset(v, (v.off + w.num) % Prime)
  ELSE WithOffset(w, (v.num + w.off) % Prime)

\* sub: the difference of two addresses is a usize difference.
Sub(v, w) ==
  IF IsInt(v) /\ IsInt(w) THEN Ok(IntValue((v.num - w.num) % Prime))
  ELSE IF IsRel(v) /\ IsRel(w)
  THEN IF v.seg # w.seg THEN Err("DiffIndexSub")
       ELSE LET diff == Usize(v.off - w.off)
            IN  IF diff.err = "ok" THEN Ok(IntValue(diff.val)) ELSE diff
  ELSE Err("NotImplemented")

\* relocate_value: the number a value becomes under a relocation table, a
\* sequence that gives the first address of each segment.
RelocateValue(v, table) ==
  IF IsInt(v)                  THEN Ok(v.num)
  ELSE IF Len(table) <= v.seg THEN Err("Relocation")
  ELSE Ok(table[v.seg + 1] + v.off)
=============================================================================
