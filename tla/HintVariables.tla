---------------------------- MODULE HintVariables ----------------------------
(***************************************************************************)
(* The variables of a hint: where ids.name is.  A compiled program has a   *)
(* list of references, texts such as [cast([fp + 3] + 1, felt)], and each   *)
(* hint a map from the paths of its variables to indices of that list.     *)
(* The texts are parsed when the program is loaded (serde), collected when *)
(* the vm is initialized (cairo_runner.rs), and evaluated by the hints     *)
(* (hint_utils.rs).  A text is a record:                                   *)
(*   outer     the text is in brackets: the value of the variable is in    *)
(*             the cell whose address is the expression;                   *)
(*   register  "AP", "FP", or None for an expression without register;     *)
(*   inner     the register and the first offset are in brackets;          *)
(*   offsets   the offsets that are added, a sequence.                     *)
(* A vm has, beside the fields of DictHints, ap, fp and references.        *)
(***************************************************************************)
EXTENDS DictHints

CONSTANT OffsetMax  \* i32::MAX, the largest offset that is kept.

ASSUME OffsetMaxAssumption == OffsetMax \in Nat

-----------------------------------------------------------------------------
(* Parsing.                                                                *)

\* An offset that overflows an i32 is that of a dummy reference.
OffsetOf(n) == IF n > OffsetMax THEN 0 ELSE n

\* parse_register: [fp] alone is not recognised.
ParseRegister(text) ==
  IF text.inner /\ text.offsets = << >> THEN None ELSE text.register

Address(register, offset1, offset2, inner) ==
  [register |-> register, offset1 |-> offset1, offset2 |-> offset2,
   inner_dereference |-> inner]

DummyAddress == Address("FP", 0, 0, FALSE)

\* parse_dereference, with the functions for none, one and two offsets.
ParseDereference(text) ==
  LET offset(i) == OffsetOf(text.offsets[i])
  IN  CASE Len(text.offsets) = 0 -> Address(ParseRegister(text), 0, 0, FALSE)
        [] Len(text.offsets) = 1 -> Address(ParseRegister(text), offset(1), 0, text.inner)
        [] Len(text.offsets) = 2 -> Address(ParseRegister(text), offset(1), offset(2), TRUE)
        [] OTHER                 -> DummyAddress

\* parse_reference: brackets inside are not looked at, and the second offset
\* is kept as an immediate that no hint uses.
ParseReference(text) ==
  CASE Len(text.offsets) = 0      -> Address(ParseRegister(text), 0, 0, FALSE)
    [] Len(text.offsets) \in 1..2 -> Address(ParseRegister(text), OffsetOf(text.offsets[1]),
                                             0, FALSE)
    [] OTHER                      -> DummyAddress

\* ValueAddressVisitor::visit_str
ParseText(text) == IF text.outer THEN ParseDereference(text) ELSE ParseReference(text)

-----------------------------------------------------------------------------
(* The references and the hints of a program.  A tracking is a record with *)
(* group and offset: ap is known up to its value at the start of the group.*)

\* get_reference_list: a reference without register has no entry.
GetReferenceList(references) ==
  LET address(i) == ParseText(references[i + 1].text)
  IN  [i \in {j \in 0..(Len(references) - 1) : address(j).register # None} |->
         [address |-> address(i),
          ap_tracking_data |-> IF address(i).register = "FP" THEN None
                               ELSE references[i + 1].tracking]]

\* remove_path_from_reference_ids: a path is a sequence of names.  Of two
\* paths that end in the same name, the map keeps either.
RemovePath(ids) ==
  LET names == {Last(path) : path \in DOMAIN ids}
  IN  {[name \in names |-> ids[pick[name]]] :
         pick \in {p \in [names -> DOMAIN ids] : \A name \in names : Last(p[name]) = name}}

\* What a hint can ask for by name in the map of a later hint of the pc,
\* whose paths are not removed: a path of one component.
PlainNames(ids) ==
  LET plain == {path \in DOMAIN ids : Len(path) = 1}
  IN  [name \in {Last(path) : path \in plain} |-> ids[<<name>>]]

\* get_hint_dictionary, for the hints of one pc: only the first of them gets
\* its paths removed.
HintsOfPc(hints) ==
  {[i \in 1..Len(hints) |->
      [hints[i] EXCEPT !.ids = IF i = 1 THEN first ELSE PlainNames(@)]] :
     first \in RemovePath(hints[1].ids)}

-----------------------------------------------------------------------------
(* The address of a variable.  A hint that is not told where ap stands has *)
(* no tracking (None).                                                     *)

\* i32 as usize: a negative number is a huge offset.
AsOffset(n) == n % (UsizeMax + 1)

\* Fault: ap is corrected the wrong way.
CorrectedApForward(ap, ref, hint) ==
  IF ref.group # hint.group THEN Err("InvalidTrackingGroup")
  ELSE AddUsize(ap, hint.offset - ref.offset)

\* apply_ap_tracking_correction: ap as it was where the reference was made.
CorrectedAp(ap, ref, hint) ==
  LET MovedBack(diff) == IF diff.err = "ok" THEN Usize(ap.off - diff.val) ELSE diff
      At(off) == IF off.err = "ok" THEN Ok(RelocatableValue(ap.seg, off.val)) ELSE off
  IN  IF ref.group # hint.group THEN Err("InvalidTrackingGroup")
      ELSE At(MovedBack(Usize(hint.offset - ref.offset)))

\* The register that a reference starts from.
BaseAddress(vm, reference, tracking) ==
  IF reference.address.register = "FP" THEN Ok(vm.fp)
  ELSE IF tracking = None \/ reference.ap_tracking_data = None THEN Err("NoneApTrackingData")
  ELSE IF IsInt(vm.ap) THEN Err("InvalidApValue")
  ELSE CorrectedAp(vm.ap, reference.ap_tracking_data, tracking)

\* An address from a register: None when there is none.
AddressFrom(vm, base, address) ==
  LET start == base.off + address.offset1
      Moved(found) == IF IsRel(found)
                      THEN RelocatableValue(found.seg, AsOffset(found.off + address.offset2))
                      ELSE None
  IN  IF ~IsRel(base) \/ start < 0 THEN None
      ELSE IF address.inner_dereference
      THEN Moved(Cell(vm.memory.data, RelocatableValue(base.seg, AsOffset(start))))
      ELSE RelocatableValue(base.seg, AsOffset(start + address.offset2))

\* compute_addr_from_reference
ComputeAddr(vm, reference, tracking) ==
  LET From(base) == IF base.err # "ok" THEN base
                    ELSE Ok(AddressFrom(vm, base.val, reference.address))
  IN  From(BaseAddress(vm, reference, tracking))

\* get_address_from_reference: an index is looked up only when it is below
\* the number of references that have an entry.
GetAddress(vm, index, tracking) ==
  IF index \in DOMAIN vm.references /\ index < Cardinality(DOMAIN vm.references)
  THEN ComputeAddr(vm, vm.references[index], tracking)
  ELSE Ok(None)

\* get_address_from_var_name
AddressOfName(vm, name, ids, tracking) ==
  LET Named(found) == IF found.err # "panic" /\ (found.err # "ok" \/ found.val = None)
                      THEN Err("FailedToGetIds")
                      ELSE found
  IN  IF name \in DOMAIN ids THEN Named(GetAddress(vm, ids[name], tracking))
      ELSE Err("FailedToGetIds")
=============================================================================
