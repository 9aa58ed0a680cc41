---------------------------- MODULE MemoryCells -----------------------------
(***************************************************************************)
(* The operations of struct Memory (vm/vm_memory/memory.rs) as operators:  *)
(* each takes a memory and returns the memory and the result the Rust      *)
(* method leaves behind.  A memory is a record with the struct's fields:   *)
(*   data                 one sequence of cells for each segment, where a  *)
(*                        gap holds None; segment 0 is data[1];            *)
(*   validated_addresses  the addresses a validation rule has accepted;    *)
(*   validation_rules     the segments that have a rule.  The only rule in *)
(*                        the code is the range check builtin's.           *)
(***************************************************************************)
EXTENDS MaybeRelocatable, FiniteSets

CONSTANT RangeCheckBound   \* 2^128: what the range check rule compares with.

ASSUME BoundAssumption == RangeCheckBound \in Nat

EmptyMemory ==
  [data |-> << >>, validated_addresses |-> {}, validation_rules |-> {}]

\* The segments with an element in data, and the addresses inside them.
Allocated(data) == 0..(Len(data) - 1)
AddressesIn(data) ==
  UNION {{RelocatableValue(s, off) : off \in 0..(Len(data[s + 1]) - 1)} :
           s \in Allocated(data)}

\* The contents of a cell: None in a gap and outside of the allocated cells.
Cell(data, a) ==
  IF a.seg < Len(data)
  THEN IF a.off < Len(data[a.seg + 1]) THEN data[a.seg + 1][a.off + 1] ELSE None
  ELSE None

\* get
Get(memory, key) ==
  IF IsRel(key) THEN Ok(Cell(memory.data, key)) ELSE Err("AddressNotRelocatable")

-----------------------------------------------------------------------------
(* Writing.                                                                *)

\* Fault: what comes after the new cells is lost.
StoredTruncates(segment, off, vals) ==
  [i \in 1..(off + Len(vals)) |->
     IF i > off THEN vals[i - off] ELSE IF i <= Len(segment) THEN segment[i] ELSE None]

\* A segment once vals are stored from offset off on: what is missing
\* before off is padded with None, cells around the new ones keep theirs.
Stored(segment, off, vals) ==
  LET end == off + Len(vals)
  IN  [i \in 1..(IF Len(segment) < end THEN end ELSE Len(segment)) |->
         IF i > off /\ i <= end       THEN vals[i - off]
         ELSE IF i <= Len(segment)    THEN segment[i]
         ELSE None]

StoredAt(data, a, vals) ==
  [data EXCEPT ![a.seg + 1] = Stored(data[a.seg + 1], a.off, vals)]

\* Why the write of insert is refused: "ok" when it is not.
WriteError(data, key, val) ==
  IF ~IsRel(key)                THEN "AddressNotRelocatable"
  ELSE IF key.seg >= Len(data)  THEN "UnallocatedSegment"
  ELSE IF Cell(data, key) \notin {None, val} THEN "InconsistentMemory"
  ELSE "ok"

\* The range check rule (RangeCheckBuiltinRunner::add_validation_rule).
InRange(v) == IsInt(v) /\ v.num >= 0 /\ v.num < RangeCheckBound

\* Fault: the bound itself is accepted.
RuleErrorBoundAccepted(v) ==
  IF ~IsInt(v) THEN "FoundNonInt"
  ELSE IF v.num \notin 0..RangeCheckBound THEN "NumOutOfBounds"
  ELSE "ok"

RuleError(v) ==
  IF ~IsInt(v) THEN "FoundNonInt"
  ELSE IF ~InRange(v) THEN "NumOutOfBounds"
  ELSE "ok"

ValidationErrors == {"FoundNonInt", "NumOutOfBounds"}

\* The cells validate_memory_cell has to apply a rule to.
NeedsRule(memory, a) ==
  a.seg \in memory.validation_rules /\ a \notin memory.validated_addresses

ValidationError(memory, a) ==
  IF NeedsRule(memory, a) THEN RuleError(Cell(memory.data, a)) ELSE "ok"

\* Fault: the value is recorded, not its address.
ValidateCellValue(memory, a) ==
  IF NeedsRule(memory, a) /\ ValidationError(memory, a) = "ok"
  THEN [memory EXCEPT !.validated_addresses = @ \union {Cell(memory.data, a)}]
  ELSE memory

\* Fault: the address is recorded before the rule is applied.
ValidateCellEarly(memory, a) ==
  IF NeedsRule(memory, a)
  THEN [memory EXCEPT !.validated_addresses = @ \union {a}]
  ELSE memory

\* validate_memory_cell
ValidateCell(memory, a) ==
  IF NeedsRule(memory, a) /\ ValidationError(memory, a) = "ok"
  THEN [memory EXCEPT !.validated_addresses = @ \union {a}]
  ELSE memory

\* insert, the write and the validation of what was written: a value that
\* the rule refuses stays in the memory.
Written(memory, key, val) ==
  IF Cell(memory.data, key) = None
  THEN [memory EXCEPT !.data = StoredAt(@, key, <<val>>)]
  ELSE memory

\* Fault: filling a gap is not followed by the validation.
InsertSkipsGaps(memory, key, val) ==
  LET refused == WriteError(memory.data, key, val)
      written == Written(memory, key, val)
      gap     == key \in AddressesIn(memory.data) /\ Cell(memory.data, key) = None
  IN  IF refused # "ok" THEN [memory |-> memory, err |-> refused]
      ELSE IF gap THEN [memory |-> written, err |-> "ok"]
      ELSE [memory |-> ValidateCell(written, key),
            err    |-> ValidationError(written, key)]

Insert(memory, key, val) ==
  LET refused == WriteError(memory.data, key, val)
      written == Written(memory, key, val)
  IN  IF refused # "ok" THEN [memory |-> memory, err |-> refused]
      ELSE [memory |-> ValidateCell(written, key),
            err    |-> ValidationError(written, key)]

-----------------------------------------------------------------------------
(* Whole-memory operations.                                                *)

\* add_validation_rule
AddRule(memory, s) == [memory EXCEPT !.validation_rules = @ \union {s}]

\* The order in which validate_existing_memory visits the cells.
Before(a, b) == a.seg < b.seg \/ (a.seg = b.seg /\ a.off < b.off)

\* validate_existing_memory: the cells in order, up to the first that a rule
\* refuses.  A gap of a segment that has a rule is refused.
Refused(memory) ==
  {a \in AddressesIn(memory.data) : ValidationError(memory, a) # "ok"}

\* Fault: the cells after one that is refused are validated too.
ValidateExistingGoesOn(memory) ==
  LET first == CHOOSE a \in Refused(memory) :
                 \A b \in Refused(memory) \ {a} : Before(a, b)
  IN  [memory |-> [memory EXCEPT !.validated_addresses = @ \union
                     {a \in AddressesIn(memory.data) \ Refused(memory) :
                        NeedsRule(memory, a)}],
       err    |-> IF Refused(memory) = {} THEN "ok"
                  ELSE ValidationError(memory, first)]

ValidateExisting(memory) ==
  LET accepted == {a \in AddressesIn(memory.data) :
                     /\ NeedsRule(memory, a)
                     /\ a \notin Refused(memory)
                     /\ \A b \in Refused(memory) : Before(a, b)}
      first == CHOOSE a \in Refused(memory) :
                 \A b \in Refused(memory) \ {a} : Before(a, b)
  IN  [memory |-> [memory EXCEPT !.validated_addresses = @ \union accepted],
       err    |-> IF Refused(memory) = {} THEN "ok"
                  ELSE ValidationError(memory, first)]

-----------------------------------------------------------------------------
(* MemorySegmentManager (vm/vm_memory/memory_segments.rs).                 *)

\* add: the memory with one more segment, which is empty.
WithNewSegment(memory) == [memory EXCEPT !.data = Append(@, << >>)]

\* The value load_data leaves at ptr + i, and the error of inserting it.  The
\* cells are distinct, so what one insert meets does not depend on the others.
LoadError(memory, ptr, vals, i) ==
  Insert(memory, [ptr EXCEPT !.off = @ + i - 1], vals[i]).err

\* Fault: nothing is written when one of the values is refused.
LoadedAllOrNothing(memory, ptr, vals) ==
  LET fails == {i \in 1..Len(vals) : LoadError(memory, ptr, vals, i) # "ok"}
      first == CHOOSE i \in fails : \A j \in fails : i <= j
  IN  IF fails # {}
      THEN [memory |-> memory, err |-> LoadError(memory, ptr, vals, first)]
      ELSE [memory |-> [memory EXCEPT !.data = StoredAt(@, ptr, vals)], err |-> "ok"]

\* Fault: the values are copied once the first of them is accepted.
LoadedAtOnce(memory, ptr, vals) ==
  LET err == LoadError(memory, ptr, vals, 1)
  IN  [memory |-> IF err # "ok" THEN memory
                  ELSE [memory EXCEPT !.data = StoredAt(@, ptr, vals)],
       err    |-> err]

\* load_data at an address: values are inserted in order up to the first
\* error; the ones before it stay, and so does one that only its validation
\* refused.
Loaded(memory, ptr, vals) ==
  LET fails == {i \in 1..Len(vals) : LoadError(memory, ptr, vals, i) # "ok"}
      first == CHOOSE i \in fails : \A j \in fails : i <= j
      err   == IF fails = {} THEN "ok" ELSE LoadError(memory, ptr, vals, first)
      count == IF fails = {} THEN Len(vals)
               ELSE IF err \in {"UnallocatedSegment", "InconsistentMemory"}
               THEN first - 1
               ELSE first
      valid == {[ptr EXCEPT !.off = @ + i - 1] :
                  i \in {j \in 1..Len(vals) : fails = {} \/ j < first}}
  IN  [memory |->
         IF count = 0 THEN memory
         ELSE [memory EXCEPT
                 !.data = StoredAt(@, ptr, SubSeq(vals, 1, count)),
                 !.validated_addresses =
                    @ \union {a \in valid : a.seg \in memory.validation_rules}],
       err |-> err]

\* load_data: a pointer that is not an address is refused at the first value.
LoadData(memory, ptr, vals) ==
  IF vals = << >>   THEN [memory |-> memory, err |-> "ok"]
  ELSE IF IsRel(ptr) THEN Loaded(memory, ptr, vals)
  ELSE [memory |-> memory, err |-> "AddressNotRelocatable"]

\* Fault: the elements that are not None are counted.
SizesOfElements(data) ==
  [i \in 1..Len(data) |-> Cardinality({j \in 1..Len(data[i]) : data[i][j] # None})]

\* compute_effective_sizes, when no sizes are cached: the length of each
\* segment, its gaps included.
EffectiveSizes(data) == [i \in 1..Len(data) |-> Len(data[i])]
=============================================================================
