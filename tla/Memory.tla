------------------------------- MODULE Memory -------------------------------
(***************************************************************************)
(* The memory of a Cairo VM and its segment manager, as the component the  *)
(* runner, the VM and the hints share: Memory and MemorySegmentManager     *)
(* (vm/vm_memory).  An action is one public method, called in any order    *)
(* and with any of the arguments the constants allow; a call that fails    *)
(* does not stop the next one.  The segments that get a validation rule    *)
(* exist: the rule is added for the base of a builtin, which add returned. *)
(***************************************************************************)
EXTENDS MemoryCells

CONSTANTS
  Contents,    (* The values the callers write.                            *)
  MaxSegments, (* Bound on the segments that are added.                    *)
  MaxOffset,   (* Bound on the offsets that are written.                   *)
  MaxLoad      (* Bound on the values one load_data writes.                *)

ASSUME MemoryBounds ==
  /\ Contents \subseteq Values
  /\ MaxSegments \in Nat
  /\ MaxOffset \in 0..UsizeMax
  /\ MaxLoad \in Nat

VARIABLES
  memory,             (* The VM's Memory.                                  *)
  num_segments,       (* MemorySegmentManager::num_segments.               *)
  segment_used_sizes, (* The cached sizes: None or one size per segment.   *)
  guarded             (* History: validate_existing_memory has succeeded   *)
                      (* since the last rule was added, and no validation  *)
                      (* has failed since.                                 *)

vars == <<memory, num_segments, segment_used_sizes, guarded>>

Address ==
  {RelocatableValue(s, off) : s \in 0..(MaxSegments - 1), off \in 0..MaxOffset}

\* insert is also called with a value that is not an address.
Keys == Address \union {IntValue(0)}

Loads == UNION {[1..n -> Contents] : n \in 0..MaxLoad}

TypeOK ==
  /\ memory \in [data : Seq(Seq(Values \union {None})),
                 validated_addresses : SUBSET Address,
                 validation_rules : SUBSET (0..(MaxSegments - 1))]
  /\ AddressesIn(memory.data) \subseteq Address
  /\ num_segments \in 0..MaxSegments
  /\ segment_used_sizes \in Seq(Nat) \union {None}
  /\ guarded \in BOOLEAN

Init ==
  /\ memory = EmptyMemory
  /\ num_segments = 0
  /\ segment_used_sizes = None
  /\ guarded = FALSE

-----------------------------------------------------------------------------
\* The memory and the history after a call whose outcome is r.
Becomes(r) ==
  /\ memory' = r.memory
  /\ guarded' = (guarded /\ r.err \notin ValidationErrors)

\* Fault: the new segment is not counted.
AddSegmentUncounted ==
  /\ num_segments < MaxSegments
  /\ memory' = WithNewSegment(memory)
  /\ UNCHANGED <<num_segments, segment_used_sizes, guarded>>

\* MemorySegmentManager::add
AddSegment ==
  /\ num_segments < MaxSegments
  /\ num_segments' = num_segments + 1
  /\ memory' = WithNewSegment(memory)
  /\ UNCHANGED <<segment_used_sizes, guarded>>

\* Memory::insert
InsertValue(key, val) ==
  /\ Becomes(Insert(memory, key, val))
  /\ UNCHANGED <<num_segments, segment_used_sizes>>

\* MemorySegmentManager::load_data
Load(ptr, vals) ==
  /\ IsRel(ptr) => ptr.off + Len(vals) <= MaxOffset + 1
  /\ Becomes(LoadData(memory, ptr, vals))
  /\ UNCHANGED <<num_segments, segment_used_sizes>>

\* Memory::add_validation_rule
AddValidationRule(s) ==
  /\ memory' = AddRule(memory, s)
  /\ guarded' = FALSE
  /\ UNCHANGED <<num_segments, segment_used_sizes>>

\* Memory::validate_existing_memory
ValidateExistingMemory ==
  LET r == ValidateExisting(memory)
  IN  /\ memory' = r.memory
      /\ guarded' = (r.err = "ok")
      /\ UNCHANGED <<num_segments, segment_used_sizes>>

\* MemorySegmentManager::compute_effective_sizes: the first call's sizes are
\* kept for good.
ComputeEffectiveSizes ==
  /\ segment_used_sizes' = IF segment_used_sizes = None
                           THEN EffectiveSizes(memory.data)
                           ELSE segment_used_sizes
  /\ UNCHANGED <<memory, num_segments, guarded>>

Next ==
  \/ AddSegment
  \/ \E key \in Keys, val \in Contents : InsertValue(key, val)
  \/ \E ptr \in Keys, vals \in Loads : Load(ptr, vals)
  \/ \E s \in Allocated(memory.data) : AddValidationRule(s)
  \/ ValidateExistingMemory
  \/ ComputeEffectiveSizes

Spec == Init /\ [][Next]_vars

-----------------------------------------------------------------------------
(* What makes the component correct.                                       *)

\* The segment manager hands out segment numbers from its own counter, the
\* memory looks them up by position: the counter and data must agree, or a
\* new segment's base would be somebody else's segment.
SegmentsAgree == num_segments = Len(memory.data)

\* A validated cell holds an integer of the range check's range, in a segment
\* that has the rule.  It was looked at once, when it was validated: that it
\* still holds rests on no later call changing an assigned cell.
ValidatedInRange ==
  \A a \in memory.validated_addresses :
    /\ a.seg \in memory.validation_rules
    /\ InRange(Cell(memory.data, a))

\* Once the existing memory is validated, and as long as no validation fails,
\* every assigned cell of a segment with a rule has been through the rule,
\* whichever call assigned it and whether it filled a gap or extended the
\* segment.
NothingUnchecked ==
  guarded =>
    \A a \in AddressesIn(memory.data) :
      (a.seg \in memory.validation_rules /\ Cell(memory.data, a) # None) =>
        a \in memory.validated_addresses

\* The cached sizes are never ahead of the memory: no cached segment is
\* missing and none has shrunk.  They may lag behind it.
SizesOnlyLag ==
  segment_used_sizes # None =>
    /\ Len(segment_used_sizes) <= Len(memory.data)
    /\ \A i \in 1..Len(segment_used_sizes) :
         segment_used_sizes[i] <= Len(memory.data[i])

\* Repeating an insert changes nothing and gives the same answer: a value
\* that was accepted is accepted, and one that was refused, by its
\* validation in particular, does not get in by being inserted again.
InsertIsIdempotent ==
  \A key \in Keys, val \in Contents :
    LET r == Insert(memory, key, val)
    IN  Insert(r.memory, key, val) = r

-----------------------------------------------------------------------------
(* The loops of the code, written one iteration after the other: what the  *)
(* operators of MemoryCells, which have no recursion, must agree with.     *)

\* for (num, value) in data.iter().enumerate() { memory.insert(..)?; }
InsertInOrder(m, ptr, vals) ==
  LET after[n \in 0..Len(vals)] ==
        IF n = 0 THEN [memory |-> m, err |-> "ok"]
        ELSE IF after[n - 1].err # "ok" THEN after[n - 1]
        ELSE Insert(after[n - 1].memory, AddUsize(ptr, n - 1).val, vals[n])
  IN  after[Len(vals)]

\* self.validate_memory_cell(..)?, after what was returned for the cells before.
ValidateNext(r, a) ==
  IF r.err # "ok" THEN r
  ELSE [memory |-> ValidateCell(r.memory, a), err |-> ValidationError(r.memory, a)]

\* for j in 0..data[i].len() { .. }
ValidateSegment(r, s) ==
  LET after[n \in 0..Len(r.memory.data[s + 1])] ==
        IF n = 0 THEN r ELSE ValidateNext(after[n - 1], RelocatableValue(s, n - 1))
  IN  after[Len(r.memory.data[s + 1])]

\* for i in 0..data.len() { .. }
ValidateInOrder(m) ==
  LET after[s \in 0..Len(m.data)] ==
        IF s = 0 THEN [memory |-> m, err |-> "ok"] ELSE ValidateSegment(after[s - 1], s - 1)
  IN  after[Len(m.data)]

\* load_data is its loop of inserts: it stops at the first value refused,
\* leaves the ones before it in place, and keeps one that was written before
\* its validation failed.
LoadInsertsInOrder ==
  \A ptr \in Keys, vals \in Loads :
    (IsRel(ptr) => ptr.off + Len(vals) <= MaxOffset + 1) =>
      LoadData(memory, ptr, vals) = InsertInOrder(memory, ptr, vals)

\* validate_existing_memory is its loop over the cells: what comes before the
\* first cell refused is validated, nothing after it.
ValidatesInOrder == ValidateExisting(memory) = ValidateInOrder(memory)

-----------------------------------------------------------------------------
\* The memory is an immutable store whose validated cells are range-checked.
Store == INSTANCE CheckedMemory WITH
  Content    <- Values,
  Unassigned <- None,
  Good       <- InRange,
  cells      <- [a \in Address |-> Cell(memory.data, a)],
  vouched    <- memory.validated_addresses

\* Every call of the memory is a step of the immutable store: no call changes
\* or clears an assigned cell, withdraws a validation, or validates a cell
\* whose value is not in the range.
ImplementsCheckedMemory == Store!Spec
=============================================================================
