----------------------------- MODULE MemoryProofs -----------------------------
(***************************************************************************)
(* Proofs about the memory component: what holds of it for every value of  *)
(* its constants, and that it implements the immutable store.              *)
(***************************************************************************)
EXTENDS Memory, MemoryCellsProofs

\* The addresses the bounds allow.
LEMMA AddressFields ==
  /\ Address \subseteq Relocatables
  /\ \A b \in Relocatables :
       b \in Address <=> b.seg < MaxSegments /\ b.off <= MaxOffset
<1>1. Address \subseteq Relocatables
  BY MemoryBounds DEF Address, Relocatables, RelocatableValue
<1>2. ASSUME NEW b \in Relocatables
      PROVE  b \in Address <=> b.seg < MaxSegments /\ b.off <= MaxOffset
  BY RelocatableFields, MemoryBounds DEF Address, RelocatableValue
<1> QED
  BY <1>1, <1>2

\* The arguments of insert and of load_data stay inside of the bounds.
LEMMA ArgumentsInside ==
  /\ \A key \in Keys : IsRel(key) => key \in Address /\ Within(key, 1, Address)
  /\ \A ptr \in Keys, vals \in Seq(Values) :
       (IsRel(ptr) /\ ptr.off + Len(vals) <= MaxOffset + 1) =>
         ptr \in Address /\ Within(ptr, Len(vals), Address)
<1>1. \A key \in Keys : IsRel(key) => key \in Address
  BY DEF Keys, IntValue, IsRel
<1>2. ASSUME NEW key \in Address, NEW n \in Nat, key.off + n <= MaxOffset + 1
      PROVE  Within(key, n, Address)
  <2>1. /\ key \in Relocatables /\ key.seg < MaxSegments
        /\ key.seg \in Nat /\ key.off \in Nat /\ MaxOffset \in Nat
    BY AddressFields, RelocatableFields, MemoryBounds
  <2> SUFFICES ASSUME NEW b \in Relocatables, b.seg = key.seg, b.off < key.off + n
               PROVE  b \in Address
    BY DEF Within
  <2>2. b.seg < MaxSegments /\ b.off <= MaxOffset
    BY <1>2, <2>1, RelocatableFields
  <2> QED
    BY <2>2, AddressFields
<1>3. ASSUME NEW key \in Address
      PROVE  Within(key, 1, Address)
  <2>1. key.off \in Nat /\ key.off <= MaxOffset
    BY AddressFields, RelocatableFields
  <2>2. key.off + 1 <= MaxOffset + 1
    BY <2>1, MemoryBounds
  <2> QED
    BY <1>2, <2>2
<1>4. \A vals \in Seq(Values) : Len(vals) \in Nat
  BY LenProperties
<1> QED
  BY <1>1, <1>2, <1>3, <1>4

-----------------------------------------------------------------------------
(* The invariants.                                                         *)

IInv == TypeOK /\ SegmentsAgree /\ ValidatedInRange /\ SizesOnlyLag

\* One call of the memory: it is a growing write, a new segment or a new rule.
LEMMA MemoryStep ==
  ASSUME IInv, Next
  PROVE  /\ MemoryInv(memory', Address)
         /\ \A i \in 1..Len(memory.data) :
              i \in 1..Len(memory'.data)
                /\ Len(memory.data[i]) <= Len(memory'.data[i])
         /\ Len(memory'.data) >= Len(memory.data)
         /\ memory.validated_addresses \subseteq memory'.validated_addresses
         /\ \A b \in Relocatables : Cell(memory.data, b) # None =>
              Cell(memory'.data, b) = Cell(memory.data, b)
         /\ num_segments' = Len(memory'.data)
         /\ memory'.validation_rules \subseteq 0..(MaxSegments - 1)
<1>1. /\ MemoryInv(memory, Address)
      /\ num_segments = Len(memory.data)
      /\ memory.validation_rules \subseteq 0..(MaxSegments - 1)
  BY DEF IInv, TypeOK, SegmentsAgree, ValidatedInRange, MemoryInv, Memories, Elements
<1>2. /\ Len(memory.data) \in Nat
      /\ \A i \in 1..Len(memory.data) : Len(memory.data[i]) \in Nat
  BY <1>1, LenProperties, ElementOfSeq DEF MemoryInv, Memories
<1> DEFINE Kept ==
             /\ MemoryInv(memory', Address)
             /\ \A i \in 1..Len(memory.data) :
                  i \in 1..Len(memory'.data)
                    /\ Len(memory.data[i]) <= Len(memory'.data[i])
             /\ Len(memory'.data) >= Len(memory.data)
             /\ memory.validated_addresses \subseteq memory'.validated_addresses
             /\ \A b \in Relocatables : Cell(memory.data, b) # None =>
                  Cell(memory'.data, b) = Cell(memory.data, b)
             /\ num_segments' = Len(memory'.data)
             /\ memory'.validation_rules \subseteq 0..(MaxSegments - 1)
<1>3. ASSUME MemoryInv(memory', Address), Grows(memory, memory'), UNCHANGED num_segments
      PROVE  Kept
  <2>1. /\ memory'.validation_rules = memory.validation_rules
        /\ Len(memory'.data) = Len(memory.data)
        /\ \A i \in 1..Len(memory.data) : Len(memory.data[i]) <= Len(memory'.data[i])
    BY <1>3 DEF Grows
  <2>2. memory'.validation_rules \subseteq 0..(MaxSegments - 1)
    BY <1>1, <2>1
  <2>3. Len(memory'.data) >= Len(memory.data) /\ num_segments' = Len(memory'.data)
    BY <1>1, <1>2, <1>3, <2>1
  <2> QED
    BY <1>3, <2>1, <2>2, <2>3 DEF Grows
<1>4. ASSUME AddSegment
      PROVE  Kept
  <2>1. memory' = WithNewSegment(memory) /\ num_segments' = num_segments + 1
    BY <1>4 DEF AddSegment
  <2>2. /\ MemoryInv(memory', Address)
        /\ Len(memory'.data) = Len(memory.data) + 1
        /\ \A i \in 1..Len(memory.data) : memory'.data[i] = memory.data[i]
        /\ memory'.validated_addresses = memory.validated_addresses
        /\ memory'.validation_rules = memory.validation_rules
        /\ \A b \in Relocatables : Cell(memory'.data, b) = Cell(memory.data, b)
    BY <2>1, <1>1, AddressFields, NewSegmentStep
  <2>3. \A i \in 1..Len(memory.data) :
          i \in 1..Len(memory'.data) /\ Len(memory.data[i]) <= Len(memory'.data[i])
    BY <1>2, <2>2
  <2> QED
    BY <2>1, <2>2, <2>3, <1>1, <1>2
<1>5. ASSUME NEW key \in Keys, NEW val \in Contents, InsertValue(key, val)
      PROVE  Kept
  <2>1. val \in Values /\ (IsRel(key) => key \in Address /\ Within(key, 1, Address))
    BY MemoryBounds, ArgumentsInside
  <2>2. memory' = Insert(memory, key, val).memory /\ UNCHANGED num_segments
    BY <1>5 DEF InsertValue, Becomes
  <2>3. MemoryInv(memory', Address) /\ Grows(memory, memory')
    BY <2>1, <2>2, <1>1, AddressFields, InsertStep
  <2> QED
    BY <1>3, <2>2, <2>3
<1>6. ASSUME NEW ptr \in Keys, NEW vals \in Loads, Load(ptr, vals)
      PROVE  Kept
  <2>1. vals \in Seq(Values)
    BY MemoryBounds DEF Loads
  <2>2. /\ IsRel(ptr) => ptr.off + Len(vals) <= MaxOffset + 1
        /\ memory' = LoadData(memory, ptr, vals).memory
        /\ UNCHANGED num_segments
    BY <1>6 DEF Load, Becomes
  <2>3. IsRel(ptr) => ptr \in Address /\ Within(ptr, Len(vals), Address)
    BY <2>1, <2>2, ArgumentsInside
  <2>4. MemoryInv(memory', Address) /\ Grows(memory, memory')
    BY <2>1, <2>2, <2>3, <1>1, AddressFields, LoadStep
  <2> QED
    BY <1>3, <2>2, <2>4
<1>7. ASSUME NEW s \in Allocated(memory.data), AddValidationRule(s)
      PROVE  Kept
  <2>1. memory' = [memory EXCEPT !.validation_rules = @ \union {s}]
          /\ UNCHANGED num_segments
    BY <1>7 DEF AddValidationRule, AddRule
  <2>2. s \in 0..(MaxSegments - 1)
    BY <1>1, <1>2, MemoryBounds DEF Allocated, IInv, TypeOK
  <2>3. MemoryInv(memory', Address)
    BY <1>1, <2>1, <2>2 DEF MemoryInv, Memories
  <2>4. /\ memory'.data = memory.data
        /\ memory'.validated_addresses = memory.validated_addresses
        /\ memory'.validation_rules \subseteq 0..(MaxSegments - 1)
    BY <1>1, <2>1, <2>2 DEF MemoryInv, Memories
  <2> QED
    BY <1>1, <1>2, <2>1, <2>3, <2>4
<1>8. ASSUME ValidateExistingMemory
      PROVE  Kept
  <2>1. memory' = ValidateExisting(memory).memory /\ UNCHANGED num_segments
    BY <1>8 DEF ValidateExistingMemory
  <2>2. MemoryInv(memory', Address) /\ Grows(memory, memory')
    BY <2>1, <1>1, AddressFields, ValidateExistingStep
  <2> QED
    BY <1>3, <2>1, <2>2
<1>9. ASSUME ComputeEffectiveSizes
      PROVE  Kept
  BY <1>1, <1>2, <1>9 DEF ComputeEffectiveSizes
<1> QED
  BY <1>4, <1>5, <1>6, <1>7, <1>8, <1>9 DEF Next

\* The inductive invariant holds of every reachable state.
LEMMA IInvHolds == Spec => []IInv
<1>1. Init => IInv
  <2> SUFFICES ASSUME Init
               PROVE  IInv
    OBVIOUS
  <2>1. /\ memory.data = << >>
        /\ memory.validated_addresses = {}
        /\ memory.validation_rules = {}
        /\ memory \in Memories(Address)
    BY DEF Init, EmptyMemory, Memories
  <2>2. Len(memory.data) = 0 /\ AddressesIn(memory.data) = {}
    BY <2>1 DEF AddressesIn, Allocated
  <2>3. TypeOK
    <3>1. memory \in [data : Seq(Seq(Values \union {None})),
                     validated_addresses : SUBSET Address,
                     validation_rules : SUBSET (0..(MaxSegments - 1))]
      BY <2>1 DEF Memories, Elements
    <3>2. num_segments \in 0..MaxSegments
      BY MemoryBounds DEF Init
    <3>3. segment_used_sizes = None /\ guarded = FALSE
      BY DEF Init
    <3>4. AddressesIn(memory.data) \subseteq Address
      BY <2>2
    <3> QED
      BY <3>1, <3>2, <3>3, <3>4 DEF TypeOK
  <2> QED
    BY <2>1, <2>2, <2>3
       DEF Init, IInv, SegmentsAgree, ValidatedInRange, SizesOnlyLag
<1>2. IInv /\ [Next]_vars => IInv'
  <2> SUFFICES ASSUME IInv, [Next]_vars
               PROVE  IInv'
    OBVIOUS
  <2>1. CASE UNCHANGED vars
    BY <2>1 DEF vars, IInv, TypeOK, SegmentsAgree, ValidatedInRange, SizesOnlyLag
  <2>2. CASE Next
    <3>1. /\ MemoryInv(memory', Address)
          /\ \A i \in 1..Len(memory.data) :
               i \in 1..Len(memory'.data)
                 /\ Len(memory.data[i]) <= Len(memory'.data[i])
          /\ Len(memory'.data) >= Len(memory.data)
          /\ num_segments' = Len(memory'.data)
          /\ memory'.validation_rules \subseteq 0..(MaxSegments - 1)
      BY <2>2, MemoryStep
    <3>2. /\ Len(memory.data) \in Nat
          /\ \A i \in 1..Len(memory.data) : Len(memory.data[i]) \in Nat
      BY LenProperties, ElementOfSeq DEF IInv, TypeOK
    <3>3. /\ Len(memory'.data) \in Nat
          /\ \A i \in 1..Len(memory'.data) : Len(memory'.data[i]) \in Nat
      BY <3>1, LenProperties, ElementOfSeq DEF MemoryInv, Memories
    <3>4. num_segments' \in 0..MaxSegments
      BY <2>2, MemoryBounds
         DEF IInv, TypeOK, Next, AddSegment, InsertValue, Load, AddValidationRule,
             ValidateExistingMemory, ComputeEffectiveSizes
    <3>5. guarded' \in BOOLEAN
      BY <2>2
         DEF IInv, TypeOK, Next, AddSegment, InsertValue, Load, AddValidationRule,
             ValidateExistingMemory, ComputeEffectiveSizes, Becomes
    <3>6. \/ UNCHANGED segment_used_sizes
          \/ segment_used_sizes' = EffectiveSizes(memory.data) /\ UNCHANGED memory
      BY <2>2
         DEF Next, AddSegment, InsertValue, Load, AddValidationRule,
             ValidateExistingMemory, ComputeEffectiveSizes
    <3>7. (segment_used_sizes \in Seq(Nat) \union {None} /\ SizesOnlyLag)'
      <4>1. CASE UNCHANGED segment_used_sizes
        <5>1. segment_used_sizes # None =>
                /\ segment_used_sizes \in Seq(Nat)
                /\ Len(segment_used_sizes) <= Len(memory.data)
                /\ \A i \in 1..Len(segment_used_sizes) :
                     segment_used_sizes[i] <= Len(memory.data[i])
          BY DEF IInv, TypeOK, SizesOnlyLag
        <5>2. ASSUME segment_used_sizes # None
              PROVE  /\ Len(segment_used_sizes) <= Len(memory'.data)
                     /\ \A i \in 1..Len(segment_used_sizes) :
                          segment_used_sizes[i] <= Len(memory'.data[i])
          <6>1. Len(segment_used_sizes) \in Nat
            BY <5>1, <5>2, LenProperties
          <6>2. Len(segment_used_sizes) <= Len(memory'.data)
            BY <5>1, <5>2, <6>1, <3>1, <3>2, <3>3
          <6>3. ASSUME NEW i \in 1..Len(segment_used_sizes)
                PROVE  segment_used_sizes[i] <= Len(memory'.data[i])
            <7>1. i \in 1..Len(memory.data)
              BY <5>1, <5>2, <6>1, <3>2
            <7>2. segment_used_sizes[i] \in Nat
              BY <5>1, <5>2, ElementOfSeq
            <7>3. i \in 1..Len(memory'.data) /\ Len(memory.data[i]) <= Len(memory'.data[i])
              BY <7>1, <3>1
            <7>4. Len(memory.data[i]) \in Nat /\ Len(memory'.data[i]) \in Nat
              BY <7>1, <7>3, <3>2, <3>3
            <7>5. segment_used_sizes[i] <= Len(memory.data[i])
              BY <5>1, <5>2
            <7> QED
              BY <7>2, <7>3, <7>4, <7>5
          <6> QED
            BY <6>2, <6>3
        <5> QED
          BY <4>1, <5>1, <5>2 DEF SizesOnlyLag, IInv, TypeOK
      <4>2. CASE segment_used_sizes' = EffectiveSizes(memory.data) /\ UNCHANGED memory
        <5>1. EffectiveSizes(memory.data) \in Seq(Nat)
                /\ Len(EffectiveSizes(memory.data)) = Len(memory.data)
          BY <3>2 DEF EffectiveSizes
        <5>2. \A i \in 1..Len(memory.data) :
                EffectiveSizes(memory.data)[i] = Len(memory.data[i])
          BY DEF EffectiveSizes
        <5> QED
          BY <4>2, <5>1, <5>2, <3>2 DEF SizesOnlyLag
      <4> QED
        BY <3>6, <4>1, <4>2
    <3> QED
      BY <3>1, <3>4, <3>5, <3>7
         DEF IInv, TypeOK, SegmentsAgree, ValidatedInRange, MemoryInv, Memories, Elements
  <2> QED
    BY <2>1, <2>2
<1> QED
  BY <1>1, <1>2, PTL DEF Spec

\* The memory, its segment counter and its cached sizes keep their types.
THEOREM TypeCorrect == Spec => []TypeOK
<1>1. IInv => TypeOK
  BY DEF IInv
<1> QED
  BY <1>1, IInvHolds, PTL

\* The segment manager's counter is always the number of segments.
THEOREM SegmentsAlwaysAgree == Spec => []SegmentsAgree
<1>1. IInv => SegmentsAgree
  BY DEF IInv
<1> QED
  BY <1>1, IInvHolds, PTL

\* A validated address holds an integer of the range check's range, for good.
THEOREM ValidatedStayInRange == Spec => []ValidatedInRange
<1>1. IInv => ValidatedInRange
  BY DEF IInv
<1> QED
  BY <1>1, IInvHolds, PTL

\* The cached segment sizes never run ahead of the memory.
THEOREM SizesNeverAhead == Spec => []SizesOnlyLag
<1>1. IInv => SizesOnlyLag
  BY DEF IInv
<1> QED
  BY <1>1, IInvHolds, PTL

-----------------------------------------------------------------------------
(* The memory implements the immutable store.                              *)

\* A call of the memory assigns cells of the store that hold nothing, changes
\* no assigned cell, and vouches only for values of the range.
LEMMA StoreRefinementStep ==
  ASSUME IInv, Next, IInv'
  PROVE  Store!Assign
<1> DEFINE cells  == [a \in Address |-> Cell(memory.data, a)]
           cells2 == [a \in Address |-> Cell(memory'.data, a)]
<1>1. /\ memory.validated_addresses \subseteq memory'.validated_addresses
      /\ \A b \in Relocatables : Cell(memory.data, b) # None =>
           Cell(memory'.data, b) = Cell(memory.data, b)
  BY MemoryStep
<1>2. Address \subseteq Relocatables
  BY AddressFields
<1>3. memory'.data \in Seq(Seq(Elements))
  BY DEF IInv, TypeOK, Elements
<1>4. \A a \in Address : Cell(memory'.data, a) \in Values \union {None}
  BY <1>2, <1>3, AddressesInside DEF Elements
<1>5. cells2 \in [Address -> Values \union {None}]
  BY <1>4
<1>6. \A a \in Address : cells[a] # None => cells2[a] = cells[a]
  BY <1>1, <1>2
<1>7. \A a \in memory'.validated_addresses : a \in Address /\ InRange(cells2[a])
  BY DEF IInv, TypeOK, ValidatedInRange
<1> QED
  BY <1>1, <1>5, <1>6, <1>7 DEF Store!Assign

\* Every behaviour of the memory is one of the immutable store: whatever is
\* called, in whatever order, and whichever calls fail, an assigned cell keeps
\* its value and a validated one is in the range from then on.
THEOREM MemoryIsImmutable == Spec => ImplementsCheckedMemory
<1>1. Init => Store!Init
  <2> SUFFICES ASSUME Init
               PROVE  Store!Init
    OBVIOUS
  <2>1. memory.data = << >> /\ memory.validated_addresses = {}
    BY DEF Init, EmptyMemory
  <2>2. \A a \in Address : Cell(memory.data, a) = None
    <3>1. \A a \in Address : a.seg \in Nat
      BY AddressFields, RelocatableFields
    <3> QED
      BY <2>1, <3>1 DEF Cell
  <2> QED
    BY <2>1, <2>2 DEF Store!Init
<1>2. IInv /\ IInv' /\ [Next]_vars =>
        [Store!Assign]_<<[a \in Address |-> Cell(memory.data, a)],
                         memory.validated_addresses>>
  BY StoreRefinementStep DEF vars
<1> QED
  BY <1>1, <1>2, IInvHolds, PTL DEF Spec, ImplementsCheckedMemory, Store!Spec

-----------------------------------------------------------------------------
\* One call of the memory that leaves guarded set: what it assigns in a
\* segment with a rule is validated, or everything was looked at.
LEMMA GuardedStep ==
  ASSUME IInv, Next, guarded'
  PROVE  /\ memory'.validation_rules = memory.validation_rules
         /\ \/ guarded /\ NewAreValidated(memory, memory')
            \/ /\ memory'.data = memory.data
               /\ \A a \in AddressesIn(memory.data) :
                    a.seg \in memory.validation_rules => a \in memory'.validated_addresses
<1> DEFINE Goal ==
             /\ memory'.validation_rules = memory.validation_rules
             /\ \/ guarded /\ NewAreValidated(memory, memory')
                \/ /\ memory'.data = memory.data
                   /\ \A a \in AddressesIn(memory.data) :
                        a.seg \in memory.validation_rules => a \in memory'.validated_addresses
<1>1. MemoryInv(memory, Address) /\ guarded \in BOOLEAN
  BY DEF IInv, TypeOK, SegmentsAgree, ValidatedInRange, MemoryInv, Memories, Elements
<1>2. ASSUME AddSegment
      PROVE  Goal
  <2>1. memory' = WithNewSegment(memory) /\ guarded
    BY <1>2 DEF AddSegment
  <2>2. /\ memory'.validation_rules = memory.validation_rules
        /\ \A b \in Relocatables : Cell(memory'.data, b) = Cell(memory.data, b)
    BY <2>1, <1>1, AddressFields, NewSegmentStep
  <2> QED
    BY <2>1, <2>2 DEF NewAreValidated
<1>3. ASSUME NEW key \in Keys, NEW val \in Contents, InsertValue(key, val)
      PROVE  Goal
  <2>0. val \in Values /\ (IsRel(key) => key \in Address /\ Within(key, 1, Address))
    BY MemoryBounds, ArgumentsInside
  <2>1. /\ memory' = Insert(memory, key, val).memory
        /\ guarded
        /\ Insert(memory, key, val).err \notin ValidationErrors
    BY <1>3 DEF InsertValue, Becomes
  <2>2. Grows(memory, memory')
    BY <2>0, <2>1, <1>1, AddressFields, InsertStep
  <2>3. NewAreValidated(memory, memory')
    BY <2>0, <2>1, <1>1, AddressFields, InsertValidates
  <2> QED
    BY <2>1, <2>2, <2>3 DEF Grows
<1>4. ASSUME NEW ptr \in Keys, NEW vals \in Loads, Load(ptr, vals)
      PROVE  Goal
  <2>1. vals \in Seq(Values)
    BY MemoryBounds DEF Loads
  <2>2. /\ IsRel(ptr) => ptr.off + Len(vals) <= MaxOffset + 1
        /\ memory' = LoadData(memory, ptr, vals).memory
        /\ guarded
        /\ LoadData(memory, ptr, vals).err \notin ValidationErrors
    BY <1>4 DEF Load, Becomes
  <2>3. IsRel(ptr) => ptr \in Address /\ Within(ptr, Len(vals), Address)
    BY <2>1, <2>2, ArgumentsInside
  <2>4. Grows(memory, memory')
    BY <2>1, <2>2, <2>3, <1>1, AddressFields, LoadStep
  <2>5. NewAreValidated(memory, memory')
    BY <2>1, <2>2, <2>3, <1>1, AddressFields, LoadValidates
  <2> QED
    BY <2>2, <2>4, <2>5 DEF Grows
<1>5. ASSUME NEW s \in Allocated(memory.data), AddValidationRule(s)
      PROVE  Goal
  BY <1>5 DEF AddValidationRule
<1>6. ASSUME ValidateExistingMemory
      PROVE  Goal
  <2>1. memory' = ValidateExisting(memory).memory /\ ValidateExisting(memory).err = "ok"
    BY <1>6 DEF ValidateExistingMemory
  <2> QED
    BY <2>1, <1>1, AddressFields, ValidateExistingValidates
<1>7. ASSUME ComputeEffectiveSizes
      PROVE  Goal
  BY <1>7 DEF ComputeEffectiveSizes, NewAreValidated
<1> QED
  BY <1>2, <1>3, <1>4, <1>5, <1>6, <1>7 DEF Next

\* From the moment the existing memory is validated, and as long as no
\* validation fails, no call gets a value into a segment with a rule without
\* its being validated, whether the value fills a gap or extends the segment.
THEOREM NothingStaysUnchecked == Spec => []NothingUnchecked
<1>1. Init => NothingUnchecked
  BY DEF Init, NothingUnchecked
<1>2. IInv /\ IInv' /\ NothingUnchecked /\ [Next]_vars => NothingUnchecked'
  <2> SUFFICES ASSUME IInv, IInv', NothingUnchecked, [Next]_vars
               PROVE  NothingUnchecked'
    OBVIOUS
  <2>1. CASE UNCHANGED vars
    BY <2>1 DEF vars, NothingUnchecked
  <2>2. CASE Next
    <3> SUFFICES ASSUME guarded', NEW a \in AddressesIn(memory'.data),
                        a.seg \in memory'.validation_rules, Cell(memory'.data, a) # None
                 PROVE  a \in memory'.validated_addresses
      BY DEF NothingUnchecked
    <3>1. /\ memory.data \in Seq(Seq(Elements))
          /\ memory'.data \in Seq(Seq(Elements))
      BY DEF IInv, TypeOK, Elements
    <3>2. a \in Relocatables
      BY <3>1, AddressesInside
    <3>3. a.seg \in memory.validation_rules
      BY <2>2, GuardedStep
    <3>4. CASE guarded /\ NewAreValidated(memory, memory')
      <4>1. CASE Cell(memory.data, a) = None
        BY <4>1, <3>2, <3>3, <3>4 DEF NewAreValidated
      <4>2. CASE Cell(memory.data, a) # None
        <5>1. a \in AddressesIn(memory.data)
          BY <4>2, <3>1, <3>2, AddressesInside
        <5>2. a \in memory.validated_addresses
          BY <5>1, <4>2, <3>3, <3>4 DEF NothingUnchecked
        <5> QED
          BY <5>2, <2>2, MemoryStep
      <4> QED
        BY <4>1, <4>2
    <3>5. CASE /\ memory'.data = memory.data
               /\ \A b \in AddressesIn(memory.data) :
                    b.seg \in memory.validation_rules => b \in memory'.validated_addresses
      BY <3>3, <3>5
    <3> QED
      BY <2>2, <3>4, <3>5, GuardedStep
  <2> QED
    BY <2>1, <2>2
<1> QED
  BY <1>1, <1>2, IInvHolds, PTL DEF Spec

-----------------------------------------------------------------------------
(* Repeating an insert.                                                    *)

\* Repeating an insert changes nothing and gives the same answer: the write
\* finds its own value, and the rule gives the answer it gave.
THEOREM InsertsAreIdempotent == Spec => []InsertIsIdempotent
<1>1. ASSUME IInv, NEW key \in Keys, NEW val \in Contents
      PROVE  Insert(Insert(memory, key, val).memory, key, val) = Insert(memory, key, val)
  <2> DEFINE w == Written(memory, key, val)
             n == ValidateCell(w, key)
             e == ValidationError(w, key)
  <2>1. MemoryInv(memory, Address) /\ val \in Values /\ val # None
    BY <1>1, MemoryBounds, NoneAssumption
       DEF IInv, TypeOK, SegmentsAgree, ValidatedInRange, MemoryInv, Memories, Elements
  <2>2. CASE WriteError(memory.data, key, val) # "ok"
    BY <2>2 DEF Insert
  <2>3. CASE WriteError(memory.data, key, val) = "ok"
    <3>1. Insert(memory, key, val) = [memory |-> n, err |-> e]
      BY <2>3 DEF Insert
    <3>2. /\ IsRel(key) /\ ~(key.seg >= Len(memory.data))
          /\ Cell(memory.data, key) \in {None, val}
      BY <2>3 DEF WriteError
    <3>3. key \in Address /\ key.seg < Len(memory.data)
      <4>1. key \in Address
        BY <3>2 DEF Keys, IntValue, IsRel
      <4>2. key.seg \in Nat /\ Len(memory.data) \in Nat
        BY <4>1, <2>1, AddressFields, RelocatableFields, LenProperties DEF MemoryInv, Memories
      <4> QED
        BY <4>1, <4>2, <3>2
    <3>4. Cell(w.data, key) = val /\ Len(w.data) = Len(memory.data)
      BY <2>1, <3>2, <3>3, AddressFields, WrittenCell
    <3>5. w \in [data : {w.data}, validated_addresses : {w.validated_addresses},
                 validation_rules : {w.validation_rules}]
      BY <2>1 DEF Written, MemoryInv, Memories
    <3> HIDE DEF w
    <3>6. /\ n.data = w.data
          /\ \/ n = w /\ ~(NeedsRule(w, key) /\ e = "ok")
             \/ ~NeedsRule(n, key) /\ e = "ok"
      BY <3>5 DEF ValidateCell, NeedsRule
    <3>7. ValidateCell(n, key) = n /\ ValidationError(n, key) = e
      <4>1. CASE n = w /\ ~(NeedsRule(w, key) /\ e = "ok")
        BY <4>1
      <4>2. CASE ~NeedsRule(n, key) /\ e = "ok"
        <5> HIDE DEF n, e
        <5> QED
          BY <4>2 DEF ValidateCell, ValidationError
      <4> QED
        BY <3>6, <4>1, <4>2
    <3> HIDE DEF n, e
    <3>8. WriteError(n.data, key, val) = "ok"
      BY <3>2, <3>4, <3>6 DEF WriteError
    <3>9. Written(n, key, val) = n
      BY <2>1, <3>4, <3>6 DEF Written
    <3>10. Insert(n, key, val) = [memory |-> n, err |-> e]
      BY <3>7, <3>8, <3>9 DEF Insert
    <3> QED
      BY <3>1, <3>10
  <2> QED
    BY <2>2, <2>3
<1>2. IInv => InsertIsIdempotent
  BY <1>1 DEF InsertIsIdempotent
<1> QED
  BY <1>2, IInvHolds, PTL

-----------------------------------------------------------------------------
(* validate_existing_memory and its loop.                                  *)

\* m with the addresses of V validated.
With(m, V) ==
  [data |-> m.data, validated_addresses |-> m.validated_addresses \union V,
   validation_rules |-> m.validation_rules]

\* What the loop may have made of m.
Results(m) == [memory : {With(m, V) : V \in SUBSET Relocatables}, err : ValidationErrors \union {"ok"}]

\* The addresses before the n-th of segment s.
Visited(m, s, n) ==
  {a \in AddressesIn(m.data) : a.seg < s \/ (a.seg = s /\ a.off < n)}

\* No cell before the n-th of segment s is refused, and those that have a rule
\* are validated.
NoneRefused(m, r, s, n) ==
  /\ r.err = "ok"
  /\ Visited(m, s, n) \intersect Refused(m) = {}
  /\ r.memory = With(m, {a \in Visited(m, s, n) : NeedsRule(m, a)})

\* x is the first cell that is refused, and the loop has ended there.
RefusedAt(m, r, x) ==
  /\ x \in Refused(m) /\ \A b \in Refused(m) \ {x} : Before(x, b)
  /\ r.err = ValidationError(m, x)
  /\ r.memory = With(m, {a \in AddressesIn(m.data) : NeedsRule(m, a) /\ Before(a, x)})

\* The loop has come to the n-th cell of segment s, or has ended before.
UpTo(m, r, s, n) == NoneRefused(m, r, s, n) \/ \E x : RefusedAt(m, r, x)

\* A memory is m with nothing validated, and the EXCEPT of the code's model.
LEMMA WithFields ==
  ASSUME NEW m, MemoryInv(m, Relocatables)
  PROVE  /\ m = With(m, {})
         /\ \A V : [m EXCEPT !.validated_addresses = @ \union V] = With(m, V)
         /\ \A V, W : [With(m, V) EXCEPT !.validated_addresses = @ \union W]
                        = With(m, V \union W)
         /\ \A V : /\ With(m, V).data = m.data
                   /\ With(m, V).validated_addresses = m.validated_addresses \union V
                   /\ With(m, V).validation_rules = m.validation_rules
<1>1. m = [data |-> m.data, validated_addresses |-> m.validated_addresses,
           validation_rules |-> m.validation_rules]
  BY DEF MemoryInv, Memories
<1>2. ASSUME NEW V
      PROVE  [m EXCEPT !.validated_addresses = @ \union V] = With(m, V)
  BY <1>1 DEF With
<1>3. ASSUME NEW V, NEW W
      PROVE  [With(m, V) EXCEPT !.validated_addresses = @ \union W] = With(m, V \union W)
  <2>1. (m.validated_addresses \union V) \union W = m.validated_addresses \union (V \union W)
    OBVIOUS
  <2> QED
    BY <2>1 DEF With
<1> QED
  BY <1>1, <1>2, <1>3 DEF With

\* A cell that is validated in it.
LEMMA ValidateCellWith ==
  ASSUME NEW m, NEW V, NEW a
  PROVE  ValidateCell(With(m, V), a) =
           IF NeedsRule(With(m, V), a) /\ ValidationError(With(m, V), a) = "ok"
           THEN With(m, V \union {a}) ELSE With(m, V)
<1> DEFINE w == With(m, V)
<1>1. w = [data |-> m.data, validated_addresses |-> m.validated_addresses \union V,
           validation_rules |-> m.validation_rules]
  BY DEF With
<1>2. (m.validated_addresses \union V) \union {a} = m.validated_addresses \union (V \union {a})
  OBVIOUS
<1>3. [w EXCEPT !.validated_addresses = @ \union {a}] = With(m, V \union {a})
  BY <1>1, <1>2 DEF With
<1> HIDE DEF w
<1>4. ValidateCell(w, a) =
        IF NeedsRule(w, a) /\ ValidationError(w, a) = "ok" THEN With(m, V \union {a}) ELSE w
  BY <1>3 DEF ValidateCell
<1> QED
  BY <1>4 DEF w

\* A cell of the loop.
LEMMA ValidateNextIn ==
  ASSUME NEW m, MemoryInv(m, Relocatables), NEW r \in Results(m), NEW a \in Relocatables
  PROVE  ValidateNext(r, a) \in Results(m)
<1>1. PICK V \in SUBSET Relocatables : r.memory = With(m, V)
  BY DEF Results
<1>2. ValidationError(r.memory, a) \in ValidationErrors \union {"ok"}
  BY ErrorKinds
<1>3. ValidateCell(r.memory, a) \in {r.memory, With(m, V \union {a})}
  BY <1>1, ValidateCellWith
<1>4. ValidateCell(r.memory, a) \in {With(m, W) : W \in SUBSET Relocatables}
  BY <1>1, <1>3
<1> QED
  BY <1>2, <1>4 DEF ValidateNext, Results

\* One iteration of the loop over a segment.
LEMMA ValidateNextStep ==
  ASSUME NEW m, MemoryInv(m, Relocatables), NEW r, NEW s \in Nat, NEW n \in Nat,
         RelocatableValue(s, n) \in AddressesIn(m.data), UpTo(m, r, s, n)
  PROVE  UpTo(m, ValidateNext(r, RelocatableValue(s, n)), s, n + 1)
<1> DEFINE a == RelocatableValue(s, n)
           V == {b \in Visited(m, s, n) : NeedsRule(m, b)}
           w == ValidateNext(r, a)
<1>1. ASSUME NEW x, RefusedAt(m, r, x)
      PROVE  UpTo(m, w, s, n + 1)
  <2>1. r.err # "ok"
    BY <1>1 DEF RefusedAt, Refused
  <2>2. w = r
    BY <2>1 DEF ValidateNext
  <2> QED
    BY <1>1, <2>2 DEF UpTo
<1>2. CASE NoneRefused(m, r, s, n)
  <2>1. r.err = "ok" /\ r.memory = With(m, V) /\ Visited(m, s, n) \intersect Refused(m) = {}
    BY <1>2 DEF NoneRefused
  <2>2. a \in Relocatables /\ a.seg = s /\ a.off = n
    BY DEF RelocatableValue, Relocatables
  <2>3. a \notin V
    BY <2>2 DEF Visited
  <2>10. \A b \in AddressesIn(m.data) : b \in Relocatables /\ b.seg \in Nat /\ b.off \in Nat
    BY AddressesInside, RelocatableFields DEF MemoryInv, Memories
  <2>4. Visited(m, s, n + 1) = Visited(m, s, n) \union {a}
    <3>1. ASSUME NEW b \in AddressesIn(m.data), b.seg = s, b.off < n + 1, ~(b.off < n)
          PROVE  b = a
      <4>1. b.off = n
        BY <2>10, <3>1
      <4> QED
        BY <4>1, <3>1, <2>10, RelocatableFields
    <3>2. \A b \in AddressesIn(m.data) : b.off < n => b.off < n + 1
      BY <2>10
    <3> QED
      BY <3>1, <3>2, <2>2 DEF Visited
  <2>5. /\ NeedsRule(r.memory, a) <=> NeedsRule(m, a)
        /\ ValidationError(r.memory, a) = ValidationError(m, a)
    <3>1. /\ r.memory.data = m.data /\ r.memory.validation_rules = m.validation_rules
          /\ r.memory.validated_addresses = m.validated_addresses \union V
      BY <2>1, WithFields
    <3> QED
      BY <3>1, <2>3 DEF NeedsRule, ValidationError
  <2>6. w.memory = ValidateCell(r.memory, a) /\ w.err = ValidationError(m, a)
    BY <2>1, <2>5 DEF ValidateNext
  <2>7. CASE a \in Refused(m)
    <3>1. ValidationError(m, a) # "ok" /\ NeedsRule(m, a)
      BY <2>7 DEF Refused, ValidationError
    <3>2. w.memory = With(m, V)
      BY <3>1, <2>1, <2>5, <2>6 DEF ValidateCell
    <3>3. \A b \in AddressesIn(m.data) : Before(b, a) <=> b \in Visited(m, s, n)
      BY <2>2 DEF Before, Visited
    <3>4. \A b \in Refused(m) \ {a} : Before(a, b)
      <4> SUFFICES ASSUME NEW b \in Refused(m), b # a
                   PROVE  Before(a, b)
        OBVIOUS
      <4>1. b \in AddressesIn(m.data) /\ b \notin Visited(m, s, n + 1)
        BY <2>1, <2>4 DEF Refused
      <4>2. ~(b.seg < s) /\ ~(b.seg = s /\ b.off < n + 1) /\ b.seg \in Nat /\ b.off \in Nat
        BY <4>1, <2>10 DEF Visited
      <4> QED
        BY <4>2, <2>2 DEF Before
    <3>5. V = {b \in AddressesIn(m.data) : NeedsRule(m, b) /\ Before(b, a)}
      BY <3>3 DEF Visited
    <3>6. RefusedAt(m, w, a)
      BY <2>6, <2>7, <3>2, <3>4, <3>5 DEF RefusedAt
    <3> QED
      BY <3>6 DEF UpTo
  <2>8. CASE a \notin Refused(m)
    <3>1. ValidationError(m, a) = "ok"
      BY <2>8 DEF Refused
    <3>2. w.memory = With(m, {b \in Visited(m, s, n + 1) : NeedsRule(m, b)})
      <4>1. CASE NeedsRule(m, a)
        <5>1. w.memory = With(m, V \union {a})
          BY <4>1, <3>1, <2>1, <2>5, <2>6, ValidateCellWith
        <5>2. V \union {a} = {b \in Visited(m, s, n + 1) : NeedsRule(m, b)}
          BY <4>1, <2>4
        <5> QED
          BY <5>1, <5>2
      <4>2. CASE ~NeedsRule(m, a)
        <5>1. w.memory = With(m, V)
          BY <4>2, <2>1, <2>5, <2>6 DEF ValidateCell
        <5>2. V = {b \in Visited(m, s, n + 1) : NeedsRule(m, b)}
          BY <4>2, <2>4
        <5> QED
          BY <5>1, <5>2
      <4> QED
        BY <4>1, <4>2
    <3> QED
      BY <2>1, <2>4, <2>6, <2>8, <3>1, <3>2 DEF UpTo, NoneRefused
  <2> QED
    BY <2>7, <2>8
<1> QED
  BY <1>1, <1>2 DEF UpTo

\* f is what the iterations over segment s make of r, one after the other.
SegmentFrom(m, r, s, f) ==
  /\ f[0] = r
  /\ \A n \in 1..Len(m.data[s + 1]) : f[n] = ValidateNext(f[n - 1], RelocatableValue(s, n - 1))
  /\ ValidateSegment(r, s) = f[Len(m.data[s + 1])]

\* What a segment of the loop leaves.
LEMMA ValidateSegmentIn ==
  ASSUME NEW m, MemoryInv(m, Relocatables), NEW r \in Results(m), NEW s \in Nat, s < Len(m.data)
  PROVE  /\ ValidateSegment(r, s) \in Results(m)
         /\ \E f : SegmentFrom(m, r, s, f)
<1> DEFINE N       == Len(m.data[s + 1])
           F(n, x) == ValidateNext(x, RelocatableValue(s, n - 1))
           E(f)    == [n \in 0..N |-> IF n = 0 THEN r ELSE F(n, f[n - 1])]
           after   == CHOOSE f : f = E(f)
           S       == Results(m)
           step    == [n \in 1..N |-> [x \in S |-> F(n, x)]]
<1>1. r.memory.data = m.data
  BY WithFields DEF Results
<1>2. ValidateSegment(r, s) = after[N]
  BY <1>1 DEF ValidateSegment
<1>3. N \in Nat
  <2>1. m.data \in Seq(Seq(Elements)) /\ Len(m.data) \in Nat
    BY LenProperties DEF MemoryInv, Memories
  <2>2. s + 1 \in 1..Len(m.data)
    BY <2>1
  <2> QED
    BY <2>1, <2>2, ElementOfSeq, LenProperties
<1>4. \A n \in 1..N : \A x \in S : F(n, x) \in S
  <2> SUFFICES ASSUME NEW n \in 1..N, NEW x \in S
               PROVE  F(n, x) \in S
    OBVIOUS
  <2>1. RelocatableValue(s, n - 1) \in Relocatables
    BY <1>3 DEF RelocatableValue, Relocatables
  <2> QED
    BY <2>1, ValidateNextIn
<1> HIDE DEF N, F, S
<1>5. r \in S /\ step \in [1..N -> [S -> S]]
  BY <1>4 DEF S
<1> HIDE DEF step
<1>6. PICK g : g \in Recursions(N, S, r, step)
  BY <1>3, <1>5, RecursionExists
<1>7. /\ g \in [0..N -> S] /\ g[0] = r
      /\ \A n \in 1..N : g[n] = step[n][g[n - 1]]
  BY <1>6 DEF Recursions
<1>8. \A n \in 1..N : g[n - 1] \in S /\ g[n] = F(n, g[n - 1])
  <2> SUFFICES ASSUME NEW n \in 1..N
               PROVE  g[n - 1] \in S /\ g[n] = F(n, g[n - 1])
    OBVIOUS
  <2>1. n - 1 \in 0..N
    BY <1>3
  <2>2. g[n - 1] \in S
    BY <2>1, <1>7
  <2>3. step[n][g[n - 1]] = F(n, g[n - 1])
    BY <2>2 DEF step
  <2> QED
    BY <2>2, <2>3, <1>7
<1>9. g = E(g)
  <2>1. \A n \in 0..N : g[n] = IF n = 0 THEN r ELSE F(n, g[n - 1])
    BY <1>3, <1>7, <1>8
  <2> QED
    BY <2>1, <1>7
<1>10. after = E(after)
  BY <1>9
<1> HIDE DEF after
<1>11. after[0] = r /\ \A n \in 1..N : after[n] = F(n, after[n - 1])
  BY <1>3, <1>10
<1>12. \A n \in 0..N : after[n] \in S
  <2>1. \A n \in 1..N : after[n - 1] \in S => after[n] \in S
    BY <1>4, <1>11
  <2>2. after[0] \in S
    BY <1>5, <1>11
  <2> QED
    BY <2>1, <2>2, <1>3, RecursionStays
<1>13. SegmentFrom(m, r, s, after)
  BY <1>2, <1>11 DEF N, F, SegmentFrom
<1>14. after[N] \in S
  BY <1>3, <1>12
<1> QED
  BY <1>2, <1>13, <1>14 DEF S

\* One segment of the loop.
LEMMA ValidateSegmentStep ==
  ASSUME NEW m, MemoryInv(m, Relocatables), NEW r \in Results(m), NEW s \in Nat, s < Len(m.data),
         UpTo(m, r, s, 0)
  PROVE  UpTo(m, ValidateSegment(r, s), s + 1, 0)
<1> DEFINE N       == Len(m.data[s + 1])
           a(n)    == RelocatableValue(s, n)
<1>6. PICK f : SegmentFrom(m, r, s, f)
  BY ValidateSegmentIn
<1>1. /\ f[0] = r
      /\ \A n \in 1..N : f[n] = ValidateNext(f[n - 1], a(n - 1))
      /\ ValidateSegment(r, s) = f[N]
  BY <1>6 DEF SegmentFrom
<1>2. /\ m.data \in Seq(Seq(Elements)) /\ Len(m.data) \in Nat /\ N \in Nat
      /\ \A b \in AddressesIn(m.data) : b \in Relocatables /\ b.seg \in Nat /\ b.off \in Nat
      /\ \A n \in 1..N : a(n - 1) \in AddressesIn(m.data)
  <2>1. m.data \in Seq(Seq(Elements)) /\ Len(m.data) \in Nat
    BY LenProperties DEF MemoryInv, Memories
  <2>2. s + 1 \in 1..Len(m.data)
    BY <2>1
  <2>3. N \in Nat
    BY <2>1, <2>2, ElementOfSeq, LenProperties
  <2>4. \A b \in AddressesIn(m.data) : b \in Relocatables /\ b.seg \in Nat /\ b.off \in Nat
    BY <2>1, AddressesInside, RelocatableFields
  <2>5. ASSUME NEW n \in 1..N
        PROVE  a(n - 1) \in AddressesIn(m.data)
    <3>1. n - 1 \in Nat /\ n - 1 < N
      BY <2>3
    <3>2. a(n - 1) \in Relocatables /\ a(n - 1).seg = s /\ a(n - 1).off = n - 1
      BY <3>1 DEF RelocatableValue, Relocatables
    <3> HIDE DEF a
    <3> QED
      BY <3>1, <3>2, <2>1, AddressesInside
  <2> QED
    BY <2>1, <2>3, <2>4, <2>5
<1> DEFINE id == [n \in 0..N |-> n]
           S  == {n \in 0..N : UpTo(m, f[n], s, n)}
<1>3. \A n \in 0..N : id[n] \in S
  <2>1. id[0] \in S
    BY <1>1, <1>2
  <2>2. ASSUME NEW n \in 1..N, id[n - 1] \in S
        PROVE  id[n] \in S
    <3>1. n - 1 \in 0..N /\ n - 1 \in Nat /\ (n - 1) + 1 = n
      BY <1>2
    <3>2. UpTo(m, f[n - 1], s, n - 1)
      BY <3>1, <2>2
    <3>3. a(n - 1) \in AddressesIn(m.data)
      BY <1>2
    <3>4. UpTo(m, ValidateNext(f[n - 1], a(n - 1)), s, (n - 1) + 1)
      BY <3>1, <3>2, <3>3, ValidateNextStep
    <3>5. UpTo(m, f[n], s, n)
      BY <3>1, <3>4, <1>1
    <3> QED
      BY <3>5
  <2> HIDE DEF id, S
  <2> QED
    BY <2>1, <2>2, <1>2, RecursionStays
<1>4. UpTo(m, f[N], s, N)
  <2>1. N \in 0..N
    BY <1>2
  <2> QED
    BY <2>1, <1>3
<1>5. Visited(m, s, N) = Visited(m, s + 1, 0)
  <2> SUFFICES ASSUME NEW b \in AddressesIn(m.data)
               PROVE  (b.seg < s \/ (b.seg = s /\ b.off < N)) <=>
                        (b.seg < s + 1 \/ (b.seg = s + 1 /\ b.off < 0))
    BY DEF Visited
  <2>1. b \in Relocatables /\ b.seg \in Nat /\ b.off \in Nat /\ b.off < Len(m.data[b.seg + 1])
    BY <1>2, AddressesInside
  <2>2. b.seg = s => b.off < N
    BY <2>1
  <2> HIDE DEF N
  <2> QED
    BY <2>1, <2>2
<1> QED
  BY <1>1, <1>4, <1>5 DEF UpTo, NoneRefused

\* The end of the loop.
LEMMA ValidatesAtEnd ==
  ASSUME NEW m, MemoryInv(m, Relocatables), NEW r \in Results(m), UpTo(m, r, Len(m.data), 0)
  PROVE  ValidateExisting(m) = r
<1> DEFINE accepted == {a \in AddressesIn(m.data) :
                          /\ NeedsRule(m, a)
                          /\ a \notin Refused(m)
                          /\ \A b \in Refused(m) : Before(a, b)}
           first == CHOOSE a \in Refused(m) : \A b \in Refused(m) \ {a} : Before(a, b)
           err == IF Refused(m) = {} THEN "ok" ELSE ValidationError(m, first)
<1>1. ValidateExisting(m) = [memory |-> With(m, accepted), err |-> err]
  <2>1. [m EXCEPT !.validated_addresses = @ \union accepted] = With(m, accepted)
    BY WithFields
  <2> HIDE DEF accepted
  <2>2. ValidateExisting(m) = [memory |-> [m EXCEPT !.validated_addresses = @ \union accepted],
                               err |-> err]
    BY DEF ValidateExisting, accepted
  <2> QED
    BY <2>1, <2>2
<1>2. r = [memory |-> r.memory, err |-> r.err]
  BY DEF Results
<1>3. \A b \in AddressesIn(m.data) : b \in Relocatables /\ b.seg \in Nat /\ b.off \in Nat /\ b.seg < Len(m.data)
  BY AddressesInside, RelocatableFields DEF MemoryInv, Memories
<1>4. Refused(m) \subseteq AddressesIn(m.data)
  BY DEF Refused
<1>5. CASE NoneRefused(m, r, Len(m.data), 0)
  <2>1. Visited(m, Len(m.data), 0) = AddressesIn(m.data)
    BY <1>3 DEF Visited
  <2>2. Refused(m) = {}
    BY <1>4, <1>5, <2>1 DEF NoneRefused
  <2>3. accepted = {a \in AddressesIn(m.data) : NeedsRule(m, a)}
    BY <2>2
  <2>4. r.memory = With(m, accepted) /\ r.err = "ok"
    BY <1>5, <2>1, <2>3 DEF NoneRefused
  <2> HIDE DEF accepted
  <2> QED
    BY <1>1, <1>2, <2>2, <2>4
<1>6. ASSUME NEW x, RefusedAt(m, r, x)
      PROVE  ValidateExisting(m) = r
  <2>1. x \in Refused(m) /\ \A b \in Refused(m) \ {x} : Before(x, b)
    BY <1>6 DEF RefusedAt
  <2>2. first \in Refused(m) /\ \A b \in Refused(m) \ {first} : Before(first, b)
    BY <2>1
  <2> HIDE DEF first
  <2>3. first = x
    <3>1. CASE first # x
      <4>1. Before(x, first) /\ Before(first, x)
        BY <3>1, <2>1, <2>2
      <4> QED
        BY <4>1, <2>1, <2>2, <1>3, <1>4 DEF Before
    <3> QED
      BY <3>1
  <2>4. ASSUME NEW a \in AddressesIn(m.data), NeedsRule(m, a)
        PROVE  Before(a, x) <=> a \notin Refused(m) /\ \A b \in Refused(m) : Before(a, b)
    <3>1. ASSUME Before(a, x), NEW b \in Refused(m)
          PROVE  Before(a, b)
      <4>1. b = x \/ Before(x, b)
        BY <2>1
      <4> QED
        BY <4>1, <3>1, <2>1, <1>3, <1>4 DEF Before
    <3>2. ASSUME Before(a, x)
          PROVE  a \notin Refused(m)
      <4>1. ~Before(x, a) /\ a # x
        BY <3>2, <2>1, <1>3, <1>4 DEF Before
      <4> QED
        BY <4>1, <2>1
    <3> QED
      BY <3>1, <3>2, <2>1
  <2>5. accepted = {a \in AddressesIn(m.data) : NeedsRule(m, a) /\ Before(a, x)}
    BY <2>4
  <2>6. r.memory = With(m, accepted) /\ r.err = ValidationError(m, x)
    BY <1>6, <2>5 DEF RefusedAt
  <2> HIDE DEF accepted
  <2>7. err = r.err
    BY <2>1, <2>3, <2>6
  <2> QED
    BY <1>1, <1>2, <2>6, <2>7
<1> QED
  BY <1>5, <1>6 DEF UpTo

\* validate_existing_memory is its loop.
LEMMA ValidateIsItsLoop ==
  ASSUME NEW m, MemoryInv(m, Relocatables)
  PROVE  ValidateExisting(m) = ValidateInOrder(m)
<1> DEFINE N       == Len(m.data)
           r       == [memory |-> m, err |-> "ok"]
           F(s, x) == ValidateSegment(x, s - 1)
           E(f)    == [s \in 0..N |-> IF s = 0 THEN r ELSE F(s, f[s - 1])]
           after   == CHOOSE f : f = E(f)
           S       == Results(m)
           step    == [s \in 1..N |-> [x \in S |-> F(s, x)]]
<1>1. ValidateInOrder(m) = after[N]
  BY DEF ValidateInOrder
<1>2. N \in Nat
  BY LenProperties DEF MemoryInv, Memories
<1>3. r \in S
  BY WithFields DEF Results
<1>4. \A s \in 1..N : \A x \in S : F(s, x) \in S
  <2> SUFFICES ASSUME NEW s \in 1..N, NEW x \in S
               PROVE  F(s, x) \in S
    OBVIOUS
  <2>1. s - 1 \in Nat /\ s - 1 < N
    BY <1>2
  <2> QED
    BY <2>1, ValidateSegmentIn
<1>5. UpTo(m, r, 0, 0)
  <2>1. Visited(m, 0, 0) = {}
    <3>1. \A b \in AddressesIn(m.data) : b.seg \in Nat /\ b.off \in Nat
      BY AddressesInside, RelocatableFields DEF MemoryInv, Memories
    <3> QED
      BY <3>1 DEF Visited
  <2>2. m = With(m, {})
    BY WithFields
  <2>3. {a \in Visited(m, 0, 0) : NeedsRule(m, a)} = {}
    BY <2>1
  <2> QED
    BY <2>1, <2>2, <2>3 DEF UpTo, NoneRefused
<1> HIDE DEF N, F, S, r
<1>6. step \in [1..N -> [S -> S]]
  BY <1>4
<1> HIDE DEF step
<1>7. PICK g : g \in Recursions(N, S, r, step)
  BY <1>2, <1>3, <1>6, RecursionExists
<1>8. /\ g \in [0..N -> S] /\ g[0] = r
      /\ \A s \in 1..N : g[s] = step[s][g[s - 1]]
  BY <1>7 DEF Recursions
<1>9. \A s \in 1..N : g[s] = F(s, g[s - 1])
  <2> SUFFICES ASSUME NEW s \in 1..N
               PROVE  g[s] = F(s, g[s - 1])
    OBVIOUS
  <2>1. s - 1 \in 0..N
    BY <1>2
  <2>2. g[s - 1] \in S
    BY <2>1, <1>8
  <2>3. step[s][g[s - 1]] = F(s, g[s - 1])
    BY <2>2 DEF step
  <2> QED
    BY <2>3, <1>8
<1>10. g = E(g)
  <2>1. \A s \in 0..N : g[s] = IF s = 0 THEN r ELSE F(s, g[s - 1])
    BY <1>2, <1>8, <1>9
  <2> QED
    BY <2>1, <1>8
<1>11. after = E(after)
  BY <1>10
<1> HIDE DEF after
<1>12. after[0] = r /\ \A s \in 1..N : after[s] = F(s, after[s - 1])
  BY <1>2, <1>11
<1> DEFINE id == [s \in 0..N |-> s]
           T  == {s \in 0..N : after[s] \in S /\ UpTo(m, after[s], s, 0)}
<1>13. \A s \in 0..N : id[s] \in T
  <2>1. id[0] \in T
    BY <1>2, <1>3, <1>5, <1>12
  <2>2. ASSUME NEW s \in 1..N, id[s - 1] \in T
        PROVE  id[s] \in T
    <3>1. s - 1 \in 0..N /\ s - 1 \in Nat /\ (s - 1) + 1 = s /\ s - 1 < N
      BY <1>2
    <3>2. after[s - 1] \in Results(m) /\ UpTo(m, after[s - 1], s - 1, 0)
      BY <3>1, <2>2 DEF S
    <3>3. UpTo(m, ValidateSegment(after[s - 1], s - 1), (s - 1) + 1, 0)
      BY <3>1, <3>2, ValidateSegmentStep DEF N
    <3>4. after[s] = ValidateSegment(after[s - 1], s - 1)
      BY <1>12 DEF F
    <3>5. after[s] \in S
      BY <3>2, <1>4, <1>12 DEF S
    <3>6. UpTo(m, after[s], s, 0)
      BY <3>1, <3>3, <3>4
    <3> QED
      BY <3>5, <3>6
  <2> HIDE DEF id, T
  <2> QED
    BY <2>1, <2>2, <1>2, RecursionStays
<1>14. after[N] \in Results(m) /\ UpTo(m, after[N], Len(m.data), 0)
  <2>1. N \in 0..N
    BY <1>2
  <2>2. id[N] \in T
    BY <2>1, <1>13
  <2> QED
    BY <2>1, <2>2 DEF N, S
<1> QED
  BY <1>1, <1>14, ValidatesAtEnd

-----------------------------------------------------------------------------
(* load_data and its loop.                                                 *)

\* Segments of the same lengths with the same cells are the same.
LEMMA SameData ==
  ASSUME NEW d \in Seq(Seq(Elements)), NEW e \in Seq(Seq(Elements)), Len(d) = Len(e),
         \A i \in 1..Len(d) : Len(d[i]) = Len(e[i]),
         \A b \in Relocatables : Cell(d, b) = Cell(e, b)
  PROVE  d = e
<1>1. Len(d) \in Nat /\ Len(e) \in Nat
  BY LenProperties
<1>2. ASSUME NEW i \in 1..Len(d)
      PROVE  d[i] = e[i]
  <2>1. /\ d[i] \in Seq(Elements) /\ e[i] \in Seq(Elements)
        /\ Len(d[i]) \in Nat /\ Len(d[i]) = Len(e[i])
    BY <1>1, <1>2, ElementOfSeq, LenProperties
  <2>2. ASSUME NEW k \in 1..Len(d[i])
        PROVE  d[i][k] = e[i][k]
    <3> DEFINE b == RelocatableValue(i - 1, k - 1)
    <3>1. b \in Relocatables /\ b.seg = i - 1 /\ b.off = k - 1
      BY <1>1, <2>1 DEF RelocatableValue, Relocatables
    <3> HIDE DEF b
    <3>2. /\ b.seg < Len(d) /\ b.seg < Len(e) /\ b.seg + 1 = i /\ b.off + 1 = k
          /\ b.off < Len(d[i]) /\ b.off < Len(e[i])
      BY <3>1, <1>1, <2>1
    <3>3. Cell(d, b) = d[i][k] /\ Cell(e, b) = e[i][k]
      BY <3>2 DEF Cell
    <3> QED
      BY <3>1, <3>3
  <2> QED
    BY <2>1, <2>2, SeqEqual
<1> QED
  BY <1>1, <1>2, SeqEqual

\* The first n values, stored from a on: nothing, if there are none.
FirstStored(data, a, vals, n) ==
  IF n = 0 THEN data ELSE StoredAt(data, a, SubSeq(vals, 1, n))

\* Where the i-th value goes.
Place(a, i) == RelocatableValue(a.seg, a.off + i - 1)

\* d is data with n values of vals stored from a on.
Stores(data, d, a, vals, n) ==
  /\ d \in Seq(Seq(Elements)) /\ Len(d) = Len(data)
  /\ \A i \in 1..Len(data) :
       Len(d[i]) = IF n > 0 /\ i = a.seg + 1 /\ Len(data[i]) < a.off + n
                   THEN a.off + n ELSE Len(data[i])
  /\ \A b \in Relocatables :
       Cell(d, b) = IF b.seg = a.seg /\ b.off >= a.off /\ b.off < a.off + n
                    THEN vals[b.off - a.off + 1] ELSE Cell(data, b)

\* What StoredAt leaves in the cells.
LEMMA StoredAtIs ==
  ASSUME NEW data \in Seq(Seq(Elements)), NEW a \in Relocatables, a.seg < Len(data),
         NEW vals \in Seq(Values), Len(vals) > 0
  PROVE  Stores(data, StoredAt(data, a, vals), a, vals, Len(vals))
<1> DEFINE d   == StoredAt(data, a, vals)
           end == a.off + Len(vals)
<1>1. /\ d \in Seq(Seq(Elements))
      /\ Len(d) = Len(data)
      /\ \A i \in 1..Len(data) :
           Len(d[i]) = IF i = a.seg + 1 /\ Len(data[i]) < end
                       THEN end ELSE Len(data[i])
      /\ \A b \in Relocatables :
           Cell(d, b) = IF b.seg = a.seg /\ b.off >= a.off /\ b.off < end
                        THEN vals[b.off - a.off + 1] ELSE Cell(data, b)
  BY StoredAtProperties
<1> HIDE DEF d
<1>2. Stores(data, d, a, vals, Len(vals))
  BY <1>1 DEF Stores
<1> QED
  BY <1>2 DEF d

\* What FirstStored does.
LEMMA FirstStoredCells ==
  ASSUME NEW data \in Seq(Seq(Elements)), NEW a \in Relocatables, a.seg < Len(data),
         NEW vals \in Seq(Values), NEW n \in 0..Len(vals)
  PROVE  Stores(data, FirstStored(data, a, vals, n), a, vals, n)
<1> DEFINE d   == FirstStored(data, a, vals, n)
           new == SubSeq(vals, 1, n)
<1>1. /\ a.seg \in Nat /\ a.off \in Nat /\ n \in Nat /\ Len(vals) \in Nat
      /\ \A b \in Relocatables : b.seg \in Nat /\ b.off \in Nat
  BY RelocatableFields, LenProperties
<1>2. CASE n = 0
  <2>1. d = data
    BY <1>2 DEF FirstStored
  <2>2. \A b \in Relocatables : ~(b.off >= a.off /\ b.off < a.off + n)
    BY <1>1, <1>2
  <2> HIDE DEF d
  <2>3. Stores(data, d, a, vals, n)
    BY <1>2, <2>1, <2>2 DEF Stores
  <2> QED
    BY <2>3 DEF d
<1>3. CASE n # 0
  <2>1. d = StoredAt(data, a, new)
    BY <1>3 DEF FirstStored
  <2>2. new \in Seq(Values) /\ Len(new) = n /\ \A k \in 1..n : new[k] = vals[k]
    <3>1. \A i \in 1..n : vals[i] \in Values
      BY <1>1, ElementOfSeq
    <3> QED
      BY <3>1, <1>1, SubSeqProperties
  <2> HIDE DEF d, new
  <2>3. Stores(data, d, a, new, n)
    BY <2>1, <2>2, <1>1, <1>3, StoredAtIs
  <2>4. ASSUME NEW b \in Relocatables, b.off >= a.off, b.off < a.off + n
        PROVE  new[b.off - a.off + 1] = vals[b.off - a.off + 1]
    <3>1. b.off - a.off + 1 \in 1..n
      BY <1>1, <2>4
    <3> QED
      BY <3>1, <2>2
  <2>6. Stores(data, d, a, vals, n)
    BY <2>3, <2>4 DEF Stores
  <2> QED
    BY <2>6 DEF d
<1> QED
  BY <1>2, <1>3

\* The places are distinct addresses.
LEMMA Places ==
  ASSUME NEW a \in Relocatables, NEW n \in Nat \ {0}
  PROVE  /\ Place(a, n) \in Relocatables /\ IsRel(Place(a, n))
         /\ Place(a, n).seg = a.seg /\ Place(a, n).off = a.off + n - 1
         /\ \A i \in 1..(n - 1) : Place(a, i) # Place(a, n)
<1>1. a.seg \in Nat /\ a.off \in Nat
  BY RelocatableFields
<1>2. Place(a, n) \in Relocatables /\ Place(a, n).seg = a.seg /\ Place(a, n).off = a.off + n - 1
  BY <1>1 DEF Place, RelocatableValue, Relocatables
<1>3. ASSUME NEW i \in 1..(n - 1)
      PROVE  Place(a, i) # Place(a, n)
  <2>1. Place(a, i).off = a.off + i - 1
    BY DEF Place, RelocatableValue
  <2> QED
    BY <2>1, <1>1, <1>2
<1> QED
  BY <1>2, <1>3, RelocatableFields

\* One value more.
LEMMA OneMoreStored ==
  ASSUME NEW data \in Seq(Seq(Elements)), NEW a \in Relocatables, a.seg < Len(data),
         NEW vals \in Seq(Values), NEW n \in 1..Len(vals),
         NEW d, d = FirstStored(data, a, vals, n - 1),
         Cell(d, Place(a, n)) \in {None, vals[n]}
  PROVE  FirstStored(data, a, vals, n) =
           IF Cell(d, Place(a, n)) = None THEN StoredAt(d, Place(a, n), <<vals[n]>>) ELSE d
<1> DEFINE e == FirstStored(data, a, vals, n)
           p == Place(a, n)
           v == vals[n]
           w == IF Cell(d, p) = None THEN StoredAt(d, p, <<v>>) ELSE d
<1>1. /\ a.seg \in Nat /\ a.off \in Nat /\ n \in Nat \ {0} /\ n - 1 \in Nat /\ Len(vals) \in Nat
      /\ n - 1 \in 0..Len(vals) /\ n \in 0..Len(vals) /\ Len(data) \in Nat
      /\ \A b \in Relocatables : b.seg \in Nat /\ b.off \in Nat
      /\ \A i \in 1..Len(data) : Len(data[i]) \in Nat
  BY RelocatableFields, LenProperties, ElementOfSeq
<1>2. /\ p \in Relocatables /\ p.seg = a.seg /\ p.off = a.off + n - 1
      /\ v \in Values /\ v # None
  <2>1. p \in Relocatables /\ p.seg = a.seg /\ p.off = a.off + n - 1
    BY <1>1, Places
  <2>2. v \in Values /\ v # None
    BY ElementOfSeq, NoneAssumption
  <2> HIDE DEF p, v
  <2> QED
    BY <2>1, <2>2
<1>12. Stores(data, FirstStored(data, a, vals, n - 1), a, vals, n - 1)
  BY <1>1, FirstStoredCells
<1>3. /\ d \in Seq(Seq(Elements)) /\ Len(d) = Len(data)
      /\ \A i \in 1..Len(data) :
           Len(d[i]) = IF n - 1 > 0 /\ i = a.seg + 1 /\ Len(data[i]) < a.off + (n - 1)
                       THEN a.off + (n - 1) ELSE Len(data[i])
      /\ \A b \in Relocatables :
           Cell(d, b) = IF b.seg = a.seg /\ b.off >= a.off /\ b.off < a.off + (n - 1)
                        THEN vals[b.off - a.off + 1] ELSE Cell(data, b)
  BY <1>12 DEF Stores
<1>13. Stores(data, e, a, vals, n)
  BY <1>1, FirstStoredCells
<1> HIDE DEF e, p, v
<1>4. /\ e \in Seq(Seq(Elements)) /\ Len(e) = Len(data)
      /\ \A i \in 1..Len(data) :
           Len(e[i]) = IF n > 0 /\ i = a.seg + 1 /\ Len(data[i]) < a.off + n
                       THEN a.off + n ELSE Len(data[i])
      /\ \A b \in Relocatables :
           Cell(e, b) = IF b.seg = a.seg /\ b.off >= a.off /\ b.off < a.off + n
                        THEN vals[b.off - a.off + 1] ELSE Cell(data, b)
  BY <1>13 DEF Stores
<1>5. \A b \in Relocatables : (b.seg = a.seg /\ b.off >= a.off /\ b.off < a.off + n) <=>
                                (b.seg = a.seg /\ b.off >= a.off /\ b.off < a.off + (n - 1)) \/ b = p
  <2> SUFFICES ASSUME NEW b \in Relocatables
               PROVE  (b.seg = a.seg /\ b.off >= a.off /\ b.off < a.off + n) <=>
                        (b.seg = a.seg /\ b.off >= a.off /\ b.off < a.off + (n - 1)) \/ b = p
    OBVIOUS
  <2>1. b = p <=> b.seg = a.seg /\ b.off = a.off + n - 1
    BY <1>2, RelocatableFields
  <2> DEFINE k == b.off
             o == a.off
  <2>2. k \in Nat /\ o \in Nat /\ n \in Nat
    BY <1>1
  <2> HIDE DEF k, o
  <2>3. k >= o /\ k < o + n <=> (k >= o /\ k < o + (n - 1)) \/ k = o + n - 1
    BY <2>2, <1>1
  <2> QED
    BY <2>1, <2>3 DEF k, o
<1>6. Cell(e, p) = v
  <2>1. p.off - a.off + 1 = n /\ p.off >= a.off /\ p.off < a.off + n
    BY <1>1, <1>2
  <2> QED
    BY <2>1, <1>2, <1>4 DEF v
<1>7. \A b \in Relocatables : b # p => Cell(e, b) = Cell(d, b)
  BY <1>3, <1>4, <1>5
<1>8. ASSUME NEW f, f \in Seq(Seq(Elements)), Len(f) = Len(data),
             \A b \in Relocatables : Cell(f, b) = IF b = p THEN v ELSE Cell(d, b),
             \A i \in 1..Len(data) : Len(f[i]) = Len(e[i])
      PROVE  f = e
  <2>1. \A b \in Relocatables : Cell(f, b) = Cell(e, b)
    <3> SUFFICES ASSUME NEW b \in Relocatables
                 PROVE  Cell(f, b) = Cell(e, b)
      OBVIOUS
    <3>1. Cell(f, b) = IF b = p THEN v ELSE Cell(d, b)
      BY <1>8
    <3> QED
      BY <3>1, <1>6, <1>7
  <2>2. \A i \in 1..Len(f) : Len(f[i]) = Len(e[i])
    BY <1>8
  <2> QED
    <3>1. f \in Seq(Seq(Elements)) /\ e \in Seq(Seq(Elements)) /\ Len(f) = Len(e)
      BY <1>4, <1>8
    <3> QED
      BY <3>1, <2>1, <2>2, SameData
<1>9. CASE Cell(d, p) = None
  <2> DEFINE new == <<v>>
             f   == StoredAt(d, p, new)
  <2>1. new \in Seq(Values) /\ Len(new) = 1 /\ new[1] = v
    BY <1>2
  <2>2. p.seg < Len(d)
    BY <1>2, <1>3
  <2> HIDE DEF new
  <2>8. Stores(d, f, p, new, Len(new))
    <3>1. /\ d \in Seq(Seq(Elements)) /\ p \in Relocatables /\ p.seg < Len(d)
          /\ new \in Seq(Values) /\ Len(new) > 0
      BY <2>1, <2>2, <1>2, <1>3
    <3> QED
      BY <3>1, StoredAtIs
  <2> HIDE DEF f
  <2>4. /\ f \in Seq(Seq(Elements)) /\ Len(f) = Len(d)
        /\ \A i \in 1..Len(d) :
             Len(f[i]) = IF i = p.seg + 1 /\ Len(d[i]) < p.off + Len(new)
                         THEN p.off + Len(new) ELSE Len(d[i])
        /\ \A b \in Relocatables :
             Cell(f, b) = IF b.seg = p.seg /\ b.off >= p.off /\ b.off < p.off + Len(new)
                          THEN new[b.off - p.off + 1] ELSE Cell(d, b)
    BY <2>1, <2>8 DEF Stores
  <2>5. ASSUME NEW b \in Relocatables
        PROVE  Cell(f, b) = IF b = p THEN v ELSE Cell(d, b)
    <3>1. b = p <=> b.seg = p.seg /\ b.off >= p.off /\ b.off < p.off + 1
      <4>1. b = p <=> b.seg = p.seg /\ b.off = p.off
        BY <1>2, RelocatableFields
      <4> QED
        BY <4>1, <1>1, <1>2
    <3>2. b = p => b.off - p.off + 1 = 1
      BY <1>1, <1>2
    <3> QED
      BY <3>1, <3>2, <2>1, <2>4
  <2>6. ASSUME NEW i \in 1..Len(data)
        PROVE  Len(f[i]) = Len(e[i])
    <3>1. Len(f[i]) = IF i = a.seg + 1 /\ Len(d[i]) < a.off + n THEN a.off + n ELSE Len(d[i])
      <4>1. p.off + Len(new) = a.off + n
        BY <2>1, <1>1, <1>2
      <4> QED
        BY <4>1, <2>4, <1>2, <1>3
    <3>2. Len(data[i]) \in Nat
      BY <1>1
    <3> DEFINE l == Len(data[i])
               g == Len(d[i])
               h == Len(f[i])
               j == Len(e[i])
    <3>3. /\ g = IF n - 1 > 0 /\ i = a.seg + 1 /\ l < a.off + (n - 1) THEN a.off + (n - 1) ELSE l
          /\ j = IF n > 0 /\ i = a.seg + 1 /\ l < a.off + n THEN a.off + n ELSE l
          /\ h = IF i = a.seg + 1 /\ g < a.off + n THEN a.off + n ELSE g
          /\ l \in Nat
      BY <3>1, <3>2, <1>3, <1>4
    <3> HIDE DEF l, g, h, j
    <3>5. a.off \in Nat /\ n \in Nat /\ n >= 1
      BY <1>1
    <3>4. h = j
      <4>1. CASE i # a.seg + 1
        BY <4>1, <3>3
      <4>2. CASE i = a.seg + 1 /\ l < a.off + n
        <5>1. g < a.off + n /\ g \in Nat
          BY <4>2, <3>3, <3>5
        <5> QED
          BY <5>1, <4>2, <3>3, <3>5
      <4>3. CASE i = a.seg + 1 /\ ~(l < a.off + n)
        <5>1. g = l
          BY <4>3, <3>3, <3>5
        <5> QED
          BY <5>1, <4>3, <3>3, <3>5
      <4> QED
        BY <4>1, <4>2, <4>3
    <3> QED
      BY <3>4 DEF h, j
  <2>7. f = e
    BY <2>4, <2>5, <2>6, <1>3, <1>8
  <2> QED
    BY <2>7, <1>9 DEF e, p, v, f, new
<1>10. CASE Cell(d, p) # None
  <2>1. Cell(d, p) = v
    BY <1>10 DEF p, v
  <2>2. p.seg < Len(d) /\ p.off < Len(d[p.seg + 1])
    BY <1>2, <1>3, <1>10, AddressesInside
  <2>3. ASSUME NEW i \in 1..Len(data)
        PROVE  Len(d[i]) = Len(e[i])
    <3> DEFINE l == Len(data[i])
               g == Len(d[i])
               j == Len(e[i])
    <3>1. i = a.seg + 1 => a.off + n - 1 < g
      BY <2>2, <1>2
    <3>2. /\ g = IF n - 1 > 0 /\ i = a.seg + 1 /\ l < a.off + (n - 1) THEN a.off + (n - 1) ELSE l
          /\ j = IF n > 0 /\ i = a.seg + 1 /\ l < a.off + n THEN a.off + n ELSE l
          /\ l \in Nat
      BY <1>1, <1>3, <1>4
    <3> HIDE DEF l, g, j
    <3>3. g = j
      BY <3>1, <3>2, <1>1
    <3> QED
      BY <3>3 DEF g, j
  <2>4. d = e
    BY <2>1, <2>3, <1>3, <1>8
  <2> QED
    BY <2>4, <1>10 DEF e, p, v
<1> QED
  BY <1>9, <1>10

\* The addresses among the first n places that validation has accepted.
Marked(m, a, n) ==
  {b \in {Place(a, i) : i \in 1..n} : b.seg \in m.validation_rules}

\* m with the first count values stored, of which n are validated.
LoadedSome(m, a, vals, count, n) ==
  [data |-> FirstStored(m.data, a, vals, count),
   validated_addresses |-> m.validated_addresses \union Marked(m, a, n),
   validation_rules |-> m.validation_rules]

\* The errors that leave the memory as it was.
WriteErrors == {"UnallocatedSegment", "InconsistentMemory"}

\* The first n values are all loaded.
AllLoaded(m, a, vals, r, n) ==
  /\ r.err = "ok"
  /\ \A i \in 1..n : LoadError(m, a, vals, i) = "ok"
  /\ r.memory = LoadedSome(m, a, vals, n, n)

\* The x-th value is the first that is refused.
StoppedAt(m, a, vals, r, x) ==
  /\ x \in 1..Len(vals) /\ LoadError(m, a, vals, x) # "ok"
  /\ \A i \in 1..(x - 1) : LoadError(m, a, vals, i) = "ok"
  /\ r.err = LoadError(m, a, vals, x)
  /\ r.memory = LoadedSome(m, a, vals, IF r.err \in WriteErrors THEN x - 1 ELSE x, x - 1)

\* Where an insert of load_data goes.
LEMMA PlaceIs ==
  ASSUME NEW a \in Relocatables, NEW i \in Nat
  PROVE  [a EXCEPT !.off = @ + i - 1] = Place(a, i)
<1>1. a = RelocatableValue(a.seg, a.off)
  BY RelocatableFields
<1> QED
  BY <1>1 DEF Place, RelocatableValue

\* The error of an insert of load_data, as the loop meets it in the first memory.
LEMMA LoadErrorAt ==
  ASSUME NEW m, NEW a \in Relocatables, NEW vals, NEW i \in Nat
  PROVE  LoadError(m, a, vals, i) = Insert(m, Place(a, i), vals[i]).err
  BY PlaceIs DEF LoadError

\* The written cell, in a memory with n - 1 values loaded.
LEMMA LoadNextWritten ==
  ASSUME NEW m, MemoryInv(m, Relocatables), NEW a \in Relocatables, a.seg < Len(m.data),
         NEW vals \in Seq(Values), NEW n \in 1..Len(vals),
         NEW r, r = LoadedSome(m, a, vals, n - 1, n - 1),
         Cell(r.data, Place(a, n)) \in {None, vals[n]}
  PROVE  /\ Written(r, Place(a, n), vals[n]) = LoadedSome(m, a, vals, n, n - 1)
         /\ Cell(LoadedSome(m, a, vals, n, n - 1).data, Place(a, n)) = vals[n]
<1> DEFINE p == Place(a, n)
           v == vals[n]
           d == r.data
           e == FirstStored(m.data, a, vals, n)
<1>1. /\ m.data \in Seq(Seq(Elements)) /\ n \in Nat \ {0} /\ n \in 0..Len(vals)
      /\ a.seg \in Nat /\ a.off \in Nat /\ Len(vals) \in Nat
  BY RelocatableFields, LenProperties DEF MemoryInv, Memories
<1>2. d = FirstStored(m.data, a, vals, n - 1)
  BY DEF LoadedSome
<1>3. e = IF Cell(d, p) = None THEN StoredAt(d, p, <<v>>) ELSE d
  <2> HIDE DEF d
  <2>1. Cell(d, Place(a, n)) \in {None, vals[n]}
    BY DEF d
  <2> QED
    BY <2>1, <1>1, <1>2, OneMoreStored
<1>4. p \in Relocatables /\ p.seg = a.seg /\ p.off = a.off + n - 1
  BY <1>1, Places
<1>5. Stores(m.data, e, a, vals, n)
  BY <1>1, FirstStoredCells
<1>6. Cell(e, p) = v
  <2> HIDE DEF e, p
  <2>1. p.off >= a.off /\ p.off < a.off + n /\ p.off - a.off + 1 = n
    BY <1>1, <1>4
  <2> QED
    BY <2>1, <1>4, <1>5 DEF Stores
<1>7. Written(r, p, v) = LoadedSome(m, a, vals, n, n - 1)
  <2> HIDE DEF e, p, v
  <2>1. Written(r, p, v) = [data |-> IF Cell(d, p) = None THEN StoredAt(d, p, <<v>>) ELSE d,
                            validated_addresses |-> r.validated_addresses,
                            validation_rules |-> r.validation_rules]
    BY DEF Written, LoadedSome
  <2>2. Written(r, p, v) = [data |-> e, validated_addresses |-> r.validated_addresses,
                            validation_rules |-> r.validation_rules]
    BY <2>1, <1>3
  <2> QED
    BY <2>2 DEF LoadedSome, e
<1> QED
  BY <1>6, <1>7 DEF LoadedSome

\* One insert of the loop.
LEMMA LoadNextStep ==
  ASSUME NEW m, MemoryInv(m, Relocatables), NEW a \in Relocatables,
         NEW vals \in Seq(Values), NEW n \in 1..Len(vals), NEW r, AllLoaded(m, a, vals, r, n - 1),
         NEW w, w = Insert(r.memory, Place(a, n), vals[n])
  PROVE  AllLoaded(m, a, vals, w, n) \/ StoppedAt(m, a, vals, w, n)
<1> DEFINE p  == Place(a, n)
           v  == vals[n]
           s  == r.memory
           e  == LoadError(m, a, vals, n)
           wm == Written(m, p, v)
           ws == Written(s, p, v)
<1>1. /\ m.data \in Seq(Seq(Elements)) /\ n \in Nat \ {0} /\ n - 1 \in 0..Len(vals)
      /\ a.seg \in Nat /\ a.off \in Nat /\ Len(vals) \in Nat /\ Len(m.data) \in Nat
      /\ m = [data |-> m.data, validated_addresses |-> m.validated_addresses,
              validation_rules |-> m.validation_rules]
  BY RelocatableFields, LenProperties DEF MemoryInv, Memories
<1>2. p \in Relocatables /\ IsRel(p) /\ p.seg = a.seg /\ p.off = a.off + n - 1
      /\ \A i \in 1..(n - 1) : Place(a, i) # p
  BY <1>1, Places
<1>3. v \in Values
  BY ElementOfSeq
<1>4. /\ s = LoadedSome(m, a, vals, n - 1, n - 1)
      /\ \A i \in 1..(n - 1) : LoadError(m, a, vals, i) = "ok"
  BY DEF AllLoaded
<1>5. /\ s.data = FirstStored(m.data, a, vals, n - 1)
      /\ s.validated_addresses = m.validated_addresses \union Marked(m, a, n - 1)
      /\ s.validation_rules = m.validation_rules
  BY <1>4 DEF LoadedSome
<1>6. e = Insert(m, p, v).err
  <2>1. n \in Nat
    BY <1>1
  <2> QED
    BY <2>1, LoadErrorAt
<1> HIDE DEF p, v, s, e
<1>7. Len(s.data) = Len(m.data) /\ Cell(s.data, p) = Cell(m.data, p)
  <2>1. CASE n = 1
    BY <2>1, <1>5 DEF FirstStored
  <2>2. CASE n # 1
    <3> DEFINE q == Place(a, 1)
    <3>1. 1 \in 1..(n - 1) /\ 1 \in 1..Len(vals) /\ 1 \in Nat \ {0}
      BY <2>2, <1>1
    <3>2. q \in Relocatables /\ q.seg = a.seg
      BY <3>1, Places
    <3>3. Insert(m, q, vals[1]).err = "ok"
      <4>1. \A i \in Nat : LoadError(m, a, vals, i) = Insert(m, Place(a, i), vals[i]).err
        BY LoadErrorAt
      <4>2. LoadError(m, a, vals, 1) = "ok"
        BY <3>1, <1>4
      <4> QED
        BY <4>1, <4>2, <3>1
    <3>4. vals[1] \in Values
      BY <3>1, ElementOfSeq
    <3> HIDE DEF q
    <3> DEFINE u == vals[1]
    <3> HIDE DEF u
    <3>5. Insert(m, q, u).err = "ok" /\ u \in Values
      BY <3>3, <3>4 DEF u
    <3>6. q.seg < Len(m.data)
      BY <3>2, <3>5, InsertResult
    <3>7. Stores(m.data, s.data, a, vals, n - 1)
      BY <3>2, <3>6, <1>1, <1>5, FirstStoredCells
    <3>8. ~(p.off < a.off + (n - 1))
      BY <1>1, <1>2
    <3> QED
      BY <3>7, <3>8, <1>2 DEF Stores
  <2> QED
    BY <2>1, <2>2
<1>8. WriteError(s.data, p, v) = WriteError(m.data, p, v)
  BY <1>7 DEF WriteError
<1>9. CASE WriteError(m.data, p, v) # "ok"
  <2>1. e = WriteError(m.data, p, v) /\ w = [memory |-> s, err |-> WriteError(m.data, p, v)]
    BY <1>6, <1>8, <1>9 DEF Insert, s, p, v
  <2>2. WriteError(m.data, p, v) \in {"ok"} \union WriteErrors
    BY <1>2 DEF WriteError, WriteErrors
  <2>3. w.memory = s /\ w.err = e /\ e # "ok" /\ e \in WriteErrors
    BY <2>1, <2>2, <1>9
  <2> QED
    BY <2>3, <1>4 DEF StoppedAt, e
<1>10. CASE WriteError(m.data, p, v) = "ok"
  <2>1. a.seg < Len(m.data) /\ Cell(m.data, p) \in {None, v}
    BY <1>1, <1>2, <1>10 DEF WriteError
  <2>2. e = ValidationError(wm, p) /\ w = [memory |-> ValidateCell(ws, p), err |-> ValidationError(ws, p)]
    BY <1>6, <1>8, <1>10 DEF Insert, s, p, v
  <2>3. ws = LoadedSome(m, a, vals, n, n - 1) /\ Cell(ws.data, p) = v
    <3>1. Cell(s.data, Place(a, n)) \in {None, vals[n]}
      BY <2>1, <1>7 DEF p, v
    <3>2. Written(s, Place(a, n), vals[n]) = LoadedSome(m, a, vals, n, n - 1)
          /\ Cell(LoadedSome(m, a, vals, n, n - 1).data, Place(a, n)) = vals[n]
      BY <3>1, <2>1, <1>4, LoadNextWritten
    <3> QED
      BY <3>2 DEF p, v
  <2>4. /\ Cell(wm.data, p) = v
        /\ wm.validated_addresses = m.validated_addresses
        /\ wm.validation_rules = m.validation_rules
    <3>1. Cell(wm.data, p) = v
      BY <2>1, <1>2, <1>3, WrittenCell
    <3> QED
      BY <3>1, <1>1 DEF Written
  <2> HIDE DEF ws, wm
  <2>5. /\ ws.validated_addresses = m.validated_addresses \union Marked(m, a, n - 1)
        /\ ws.validation_rules = m.validation_rules
    BY <2>3 DEF LoadedSome
  <2>6. p \notin Marked(m, a, n - 1)
    BY <1>2 DEF Marked
  <2>7. /\ NeedsRule(ws, p) <=> NeedsRule(wm, p)
        /\ NeedsRule(ws, p) <=> a.seg \in m.validation_rules /\ p \notin m.validated_addresses
    BY <2>4, <2>5, <2>6, <1>2 DEF NeedsRule
  <2>8. ValidationError(ws, p) = e
    BY <2>2, <2>3, <2>4, <2>7 DEF ValidationError
  <2>9. w.memory = ValidateCell(ws, p) /\ w.err = e
    BY <2>2, <2>8
  <2>10. CASE e # "ok"
    <3>1. w.memory = LoadedSome(m, a, vals, n, n - 1)
      BY <2>3, <2>8, <2>9, <2>10 DEF ValidateCell
    <3>2. e \notin WriteErrors
      <4>1. e \in ValidationErrors \union {"ok"}
        BY <2>8, ErrorKinds
      <4> QED
        BY <4>1, <2>10 DEF ValidationErrors, WriteErrors
    <3> QED
      BY <3>1, <3>2, <2>9, <2>10, <1>4 DEF StoppedAt, e
  <2>11. CASE e = "ok"
    <3> DEFINE V == m.validated_addresses
    <3>1. Marked(m, a, n) = Marked(m, a, n - 1) \union (IF a.seg \in m.validation_rules THEN {p} ELSE {})
      <4>1. \A i : i \in 1..n <=> i \in 1..(n - 1) \/ i = n
        BY <1>1
      <4> QED
        BY <4>1, <1>2 DEF Marked, p
    <3>2. CASE NeedsRule(ws, p)
      <4>1. (V \union Marked(m, a, n - 1)) \union {p} = V \union Marked(m, a, n)
        BY <3>1, <3>2, <2>7
      <4>2. w.memory = [ws EXCEPT !.validated_addresses = @ \union {p}]
        BY <3>2, <2>8, <2>9, <2>11 DEF ValidateCell
      <4>3. w.memory = LoadedSome(m, a, vals, n, n)
        BY <4>1, <4>2, <2>3 DEF LoadedSome
      <4> QED
        BY <4>3, <2>9, <2>11, <1>1, <1>4 DEF AllLoaded, e
    <3>3. CASE ~NeedsRule(ws, p)
      <4>1. V \union Marked(m, a, n - 1) = V \union Marked(m, a, n)
        BY <3>1, <3>3, <2>7
      <4>2. w.memory = ws
        BY <3>3, <2>9 DEF ValidateCell
      <4>3. w.memory = LoadedSome(m, a, vals, n, n)
        BY <4>1, <4>2, <2>3 DEF LoadedSome
      <4> QED
        BY <4>3, <2>9, <2>11, <1>1, <1>4 DEF AllLoaded, e
    <3> QED
      BY <3>2, <3>3
  <2> QED
    BY <2>10, <2>11
<1> QED
  BY <1>9, <1>10

\* A memory with other cells and other validated addresses.
Changed(m, D, V) == [m EXCEPT !.data = D, !.validated_addresses = V]

LEMMA TwoFieldsChanged ==
  ASSUME NEW A, NEW m \in Memories(A), NEW D, NEW V
  PROVE  Changed(m, D, V)
           = [data |-> D, validated_addresses |-> V, validation_rules |-> m.validation_rules]
<1> DEFINE n == [data |-> D, validated_addresses |-> V, validation_rules |-> m.validation_rules]
           w == Changed(m, D, V)
           Names == {"data", "validated_addresses", "validation_rules"}
<1>1. /\ n.data = D /\ n.validated_addresses = V /\ n.validation_rules = m.validation_rules
      /\ n = [name \in Names |-> n[name]]
  OBVIOUS
<1>2. w.data = D /\ w.validated_addresses = V /\ w.validation_rules = m.validation_rules
  BY DEF Memories, Changed
<1>3. DOMAIN w = Names
  BY DEF Memories, Changed
<1>4. w = [name \in Names |-> w[name]]
  BY <1>3 DEF Changed
<1> HIDE DEF n, w
<1>5. n = w
  BY <1>1, <1>2, <1>4
<1> QED
  BY <1>5 DEF n, w

\* What load_data leaves, in the terms of the loop.
LEMMA LoadsAtEnd ==
  ASSUME NEW m, MemoryInv(m, Relocatables), NEW a \in Relocatables,
         NEW vals \in Seq(Values), Len(vals) > 0, NEW r, r = [memory |-> r.memory, err |-> r.err],
         AllLoaded(m, a, vals, r, Len(vals)) \/ \E x : StoppedAt(m, a, vals, r, x)
  PROVE  Loaded(m, a, vals) = r
<1> DEFINE fails == {i \in 1..Len(vals) : LoadError(m, a, vals, i) # "ok"}
           first == CHOOSE i \in fails : \A j \in fails : i <= j
           err   == IF fails = {} THEN "ok" ELSE LoadError(m, a, vals, first)
           count == IF fails = {} THEN Len(vals)
                    ELSE IF err \in WriteErrors THEN first - 1 ELSE first
           found == {j \in 1..Len(vals) : fails = {} \/ j < first}
           valid == {[a EXCEPT !.off = @ + i - 1] : i \in found}
           seen  == {b \in valid : b.seg \in m.validation_rules}
<1>1. Loaded(m, a, vals) =
        [memory |-> IF count = 0 THEN m
                    ELSE Changed(m, StoredAt(m.data, a, SubSeq(vals, 1, count)),
                                 m.validated_addresses \union seen),
         err |-> err]
  BY DEF Loaded, WriteErrors, Changed
<1>2. /\ Len(vals) \in Nat
      /\ m = [data |-> m.data, validated_addresses |-> m.validated_addresses,
              validation_rules |-> m.validation_rules]
  BY LenProperties DEF MemoryInv, Memories
<1>3. ASSUME NEW n \in Nat, found = 1..n
      PROVE  seen = Marked(m, a, n)
  <2>1. valid = {Place(a, i) : i \in 1..n}
    <3>1. \A i \in 1..n : [a EXCEPT !.off = @ + i - 1] = Place(a, i)
      BY PlaceIs
    <3> HIDE DEF found
    <3> QED
      BY <3>1, <1>3
  <2> QED
    BY <2>1 DEF Marked
<1>4. ASSUME NEW n \in Nat, found = 1..n, count \in Nat, count = 0 => n = 0
      PROVE  Loaded(m, a, vals) = [memory |-> LoadedSome(m, a, vals, count, n), err |-> err]
  <2>1. seen = Marked(m, a, n)
    BY <1>3, <1>4
  <2> HIDE DEF seen, count, err, found
  <2>2. CASE count = 0
    <3>1. Marked(m, a, n) = {}
      BY <2>2, <1>4 DEF Marked
    <3>2. LoadedSome(m, a, vals, count, n) = m
      BY <3>1, <2>2, <1>2 DEF LoadedSome, FirstStored
    <3> QED
      BY <3>2, <2>2, <1>1
  <2>3. CASE count # 0
    <3>1. Changed(m, StoredAt(m.data, a, SubSeq(vals, 1, count)),
                  m.validated_addresses \union seen)
            = [data |-> StoredAt(m.data, a, SubSeq(vals, 1, count)),
               validated_addresses |-> m.validated_addresses \union seen,
               validation_rules |-> m.validation_rules]
      BY TwoFieldsChanged DEF MemoryInv
    <3> QED
      BY <3>1, <2>1, <2>3, <1>1 DEF LoadedSome, FirstStored
  <2> QED
    BY <2>2, <2>3
<1>5. CASE AllLoaded(m, a, vals, r, Len(vals))
  <2>1. fails = {}
    BY <1>5 DEF AllLoaded
  <2> HIDE DEF fails
  <2>2. found = 1..Len(vals) /\ count = Len(vals) /\ err = "ok"
    BY <2>1
  <2> HIDE DEF found, count, err
  <2>3. Loaded(m, a, vals) = [memory |-> LoadedSome(m, a, vals, count, Len(vals)), err |-> err]
    BY <2>2, <1>2, <1>4
  <2>4. r.err = "ok" /\ r.memory = LoadedSome(m, a, vals, Len(vals), Len(vals))
    BY <1>5 DEF AllLoaded
  <2> QED
    BY <2>2, <2>3, <2>4
<1>6. ASSUME NEW x, StoppedAt(m, a, vals, r, x)
      PROVE  Loaded(m, a, vals) = r
  <2>1. /\ x \in 1..Len(vals) /\ LoadError(m, a, vals, x) # "ok"
        /\ \A i \in 1..(x - 1) : LoadError(m, a, vals, i) = "ok"
        /\ r.err = LoadError(m, a, vals, x)
        /\ r.memory = LoadedSome(m, a, vals, IF r.err \in WriteErrors THEN x - 1 ELSE x, x - 1)
    BY <1>6 DEF StoppedAt
  <2>2. x \in Nat /\ x - 1 \in Nat
    BY <2>1, <1>2
  <2>3. x \in fails /\ \A j \in fails : x <= j
    BY <2>1, <1>2
  <2>4. fails \subseteq Nat
    BY <1>2
  <2> HIDE DEF fails
  <2>5. first \in fails /\ \A j \in fails : first <= j
    BY <2>3
  <2> HIDE DEF first
  <2>6. first = x /\ fails # {}
    BY <2>3, <2>4, <2>5
  <2>7. err = r.err
    BY <2>1, <2>6
  <2>8. count = IF r.err \in WriteErrors THEN x - 1 ELSE x
    BY <2>6, <2>7
  <2>9. found = 1..(x - 1)
    BY <2>1, <2>2, <2>6, <1>2
  <2>10. count \in Nat /\ (count = 0 => x - 1 = 0)
    BY <2>2, <2>8
  <2> HIDE DEF found, count, err
  <2>11. Loaded(m, a, vals) = [memory |-> LoadedSome(m, a, vals, count, x - 1), err |-> err]
    BY <2>2, <2>9, <2>10, <1>4
  <2>12. r.memory = LoadedSome(m, a, vals, count, x - 1)
    BY <2>1, <2>8
  <2> QED
    BY <2>7, <2>11, <2>12
<1> QED
  BY <1>5, <1>6

\* What an insert of the loop may return.
Outcomes ==
  [memory : {w \in Memories(Relocatables) : MemoryInv(w, Relocatables)},
   err : ValidationErrors \union WriteErrors \union {"ok", "AddressNotRelocatable"}]

\* One iteration of load_data.
InsertNext(ptr, vals, n, r) ==
  IF r.err # "ok" THEN r ELSE Insert(r.memory, AddUsize(ptr, n - 1).val, vals[n])

\* The address of an iteration.
LEMMA NextAddress ==
  /\ \A a \in Relocatables, k \in Nat :
       /\ IsRel(AddUsize(a, k).val) => AddUsize(a, k).val \in Relocatables
       /\ a.off + k <= UsizeMax => AddUsize(a, k).val = RelocatableValue(a.seg, a.off + k)
  /\ \A v \in Ints, k \in Nat : ~IsRel(AddUsize(v, k).val)
<1>1. ASSUME NEW a \in Relocatables, NEW k \in Nat
      PROVE  /\ IsRel(AddUsize(a, k).val) => AddUsize(a, k).val \in Relocatables
             /\ a.off + k <= UsizeMax => AddUsize(a, k).val = RelocatableValue(a.seg, a.off + k)
  <2> DEFINE u == Usize(a.off + k)
  <2>1. ~IsInt(a) /\ a.seg \in Nat /\ a.off \in Nat /\ UsizeMax \in Nat /\ a.off + k \in Nat
    BY RelocatableFields, FieldAssumption DEF IsInt, Relocatables
  <2>2. u.err = "ok" => u.val \in Nat
    BY <2>1 DEF Usize, Ok, Err
  <2>3. a.off + k <= UsizeMax => u = Ok(a.off + k)
    BY <2>1 DEF Usize
  <2>4. AddUsize(a, k) = IF u.err = "ok" THEN Ok(RelocatableValue(a.seg, u.val)) ELSE u
    BY <2>1 DEF AddUsize
  <2>5. u.err # "ok" => u = Err("panic")
    BY DEF Usize, Ok, Err
  <2> HIDE DEF u
  <2>6. CASE u.err = "ok"
    <3>1. AddUsize(a, k).val = RelocatableValue(a.seg, u.val)
      BY <2>4, <2>6 DEF Ok
    <3>2. RelocatableValue(a.seg, u.val) \in Relocatables
      BY <2>1, <2>2, <2>6 DEF RelocatableValue, Relocatables
    <3>3. a.off + k <= UsizeMax => u.val = a.off + k
      BY <2>3 DEF Ok
    <3> QED
      BY <3>1, <3>2, <3>3
  <2>7. CASE u.err # "ok"
    <3>1. AddUsize(a, k).val = None /\ ~(a.off + k <= UsizeMax)
      BY <2>3, <2>4, <2>5, <2>7 DEF Ok, Err
    <3> QED
      BY <3>1 DEF IsRel
  <2> QED
    BY <2>6, <2>7
<1>2. ASSUME NEW v \in Ints, NEW k \in Nat
      PROVE  ~IsRel(AddUsize(v, k).val)
  <2>1. IsInt(v)
    BY NoneAssumption DEF IsInt, Ints, Values
  <2>2. AddUsize(v, k).val = IntValue(v.num + k)
    BY <2>1 DEF AddUsize, Ok
  <2> QED
    BY <2>2 DEF IsRel, IntValue
<1> QED
  BY <1>1, <1>2

\* An iteration of load_data leaves a memory and one of the errors of insert.
LEMMA InsertNextIn ==
  ASSUME NEW ptr \in Values, NEW vals \in Seq(Values), NEW n \in 1..Len(vals), NEW r \in Outcomes
  PROVE  InsertNext(ptr, vals, n, r) \in Outcomes
<1> DEFINE key == AddUsize(ptr, n - 1).val
           m   == r.memory
           v   == vals[n]
           w   == Insert(m, key, v)
<1>1. n - 1 \in Nat /\ v \in Values
  BY LenProperties, ElementOfSeq
<1>2. IsRel(key) => key \in Relocatables
  BY <1>1, NextAddress DEF Values
<1>3. m \in Memories(Relocatables) /\ MemoryInv(m, Relocatables)
  BY DEF Outcomes
<1> HIDE DEF key, m, v
<1>4. CASE IsRel(key)
  <2>1. Within(key, 1, Relocatables)
    BY DEF Within
  <2>2. MemoryInv(w.memory, Relocatables)
    BY <2>1, <1>1, <1>2, <1>3, InsertStep
  <2>3. w.err \in ValidationErrors \union {"ok", "UnallocatedSegment", "InconsistentMemory"}
    BY <1>4, ErrorKinds
  <2>4. w = [memory |-> w.memory, err |-> w.err]
    BY DEF Insert
  <2> HIDE DEF w
  <2>5. w \in Outcomes
    BY <2>2, <2>3, <2>4 DEF Outcomes, WriteErrors, MemoryInv
  <2> QED
    BY <2>5 DEF InsertNext, w, m, key, v
<1>5. CASE ~IsRel(key)
  <2>1. WriteError(m.data, key, v) = "AddressNotRelocatable"
    BY <1>5 DEF WriteError
  <2>2. w = [memory |-> m, err |-> "AddressNotRelocatable"]
    BY <2>1 DEF Insert
  <2> HIDE DEF w
  <2>3. w \in Outcomes
    BY <2>2, <1>3 DEF Outcomes
  <2> QED
    BY <2>3 DEF InsertNext, w, m, key, v
<1> QED
  BY <1>4, <1>5

\* f is what the iterations of load_data leave, one after the other.
InsertsFrom(m, ptr, vals, f) ==
  /\ f[0] = [memory |-> m, err |-> "ok"]
  /\ \A n \in 1..Len(vals) : f[n] = InsertNext(ptr, vals, n, f[n - 1])
  /\ \A n \in 0..Len(vals) : f[n] \in Outcomes
  /\ InsertInOrder(m, ptr, vals) = f[Len(vals)]

\* The loop of load_data is well defined: its iterations have an outcome each.
LEMMA InsertsExist ==
  ASSUME NEW m, MemoryInv(m, Relocatables), NEW ptr \in Values, NEW vals \in Seq(Values)
  PROVE  \E f : InsertsFrom(m, ptr, vals, f)
<1> DEFINE N       == Len(vals)
           base    == [memory |-> m, err |-> "ok"]
           G(n, x) == Insert(x.memory, AddUsize(ptr, n - 1).val, vals[n])
           E(f)    == [n \in 0..N |-> IF n = 0 THEN base
                                      ELSE IF f[n - 1].err # "ok" THEN f[n - 1]
                                      ELSE G(n, f[n - 1])]
           after   == CHOOSE f : f = E(f)
           F(n, x) == InsertNext(ptr, vals, n, x)
           S       == Outcomes
           step    == [n \in 1..N |-> [x \in S |-> F(n, x)]]
<1>1. InsertInOrder(m, ptr, vals) = after[N]
  BY DEF InsertInOrder
<1>2. N \in Nat
  BY LenProperties
<1>3. base \in S
  BY DEF Outcomes, MemoryInv
<1>4. \A n \in 1..N : \A x \in S : F(n, x) \in S
  BY InsertNextIn
<1>5. \A n, x : F(n, x) = IF x.err # "ok" THEN x ELSE G(n, x)
  BY DEF InsertNext
<1> HIDE DEF N, F, G, S, base
<1>6. step \in [1..N -> [S -> S]]
  BY <1>4
<1> HIDE DEF step
<1>7. PICK g : g \in Recursions(N, S, base, step)
  BY <1>2, <1>3, <1>6, RecursionExists
<1>8. /\ g \in [0..N -> S] /\ g[0] = base
      /\ \A n \in 1..N : g[n] = step[n][g[n - 1]]
  BY <1>7 DEF Recursions
<1>9. \A n \in 1..N : g[n] = IF g[n - 1].err # "ok" THEN g[n - 1] ELSE G(n, g[n - 1])
  <2> SUFFICES ASSUME NEW n \in 1..N
               PROVE  g[n] = IF g[n - 1].err # "ok" THEN g[n - 1] ELSE G(n, g[n - 1])
    OBVIOUS
  <2>1. n - 1 \in 0..N
    BY <1>2
  <2>2. g[n - 1] \in S
    BY <2>1, <1>8
  <2>3. step[n][g[n - 1]] = F(n, g[n - 1])
    BY <2>2 DEF step
  <2> QED
    BY <2>3, <1>5, <1>8
<1>10. g = E(g)
  <2>1. \A n \in 0..N : g[n] = IF n = 0 THEN base
                               ELSE IF g[n - 1].err # "ok" THEN g[n - 1] ELSE G(n, g[n - 1])
    BY <1>2, <1>8, <1>9
  <2> QED
    BY <2>1, <1>8
<1>11. after = E(after)
  BY <1>10
<1> HIDE DEF after
<1>12. /\ after[0] = base
       /\ \A n \in 1..N : after[n] = F(n, after[n - 1])
  <2>1. after[0] = base
    BY <1>2, <1>11
  <2>2. ASSUME NEW n \in 1..N
        PROVE  after[n] = F(n, after[n - 1])
    <3>1. n \in 0..N /\ n # 0
      BY <1>2
    <3>2. after[n] = IF after[n - 1].err # "ok" THEN after[n - 1] ELSE G(n, after[n - 1])
      BY <3>1, <1>11
    <3> QED
      BY <3>2, <1>5
  <2> QED
    BY <2>1, <2>2
<1>13. \A n \in 0..N : after[n] \in S
  <2>1. \A n \in 1..N : after[n - 1] \in S => after[n] \in S
    BY <1>4, <1>12
  <2>2. after[0] \in S
    BY <1>3, <1>12
  <2> QED
    BY <2>1, <2>2, <1>2, RecursionStays
<1>14. InsertsFrom(m, ptr, vals, after)
  BY <1>1, <1>12, <1>13 DEF InsertsFrom, N, F, S, base
<1> QED
  BY <1>14

\* load_data is its loop.
LEMMA LoadIsItsLoop ==
  ASSUME NEW m, MemoryInv(m, Relocatables), NEW ptr \in Values, NEW vals \in Seq(Values),
         IsRel(ptr) => ptr.off + Len(vals) <= UsizeMax + 1
  PROVE  LoadData(m, ptr, vals) = InsertInOrder(m, ptr, vals)
<1> DEFINE N    == Len(vals)
           base == [memory |-> m, err |-> "ok"]
<1>1. PICK f : InsertsFrom(m, ptr, vals, f)
  BY InsertsExist
<1>2. /\ f[0] = base
      /\ \A n \in 1..N : f[n] = InsertNext(ptr, vals, n, f[n - 1])
      /\ \A n \in 0..N : f[n] \in Outcomes
      /\ InsertInOrder(m, ptr, vals) = f[N]
  BY <1>1 DEF InsertsFrom
<1>3. N \in Nat /\ (vals = << >> <=> N = 0)
  <2>1. N \in Nat
    BY LenProperties
  <2>2. vals = << >> <=> N = 0
    BY EmptySeq
  <2> QED
    BY <2>1, <2>2
<1> DEFINE id == [n \in 0..N |-> n]
<1>4. CASE N = 0
  BY <1>2, <1>3, <1>4 DEF LoadData
<1>5. CASE N # 0 /\ ~IsRel(ptr)
  <2> DEFINE stop == [memory |-> m, err |-> "AddressNotRelocatable"]
             S    == {n \in 0..N : n = 0 \/ f[n] = stop}
  <2>1. \A n \in 0..N : id[n] \in S
    <3>1. id[0] \in S
      BY <1>3
    <3>2. ASSUME NEW n \in 1..N, id[n - 1] \in S
          PROVE  id[n] \in S
      <4>1. n - 1 \in 0..N /\ n - 1 \in Nat
        BY <1>3
      <4>2. f[n] = InsertNext(ptr, vals, n, f[n - 1])
        BY <1>2
      <4>3. CASE n - 1 = 0
        <5>1. ptr \in Ints
          BY <1>5, RelocatableFields DEF Values
        <5>2. ~IsRel(AddUsize(ptr, n - 1).val)
          BY <5>1, <4>1, NextAddress
        <5>3. Insert(m, AddUsize(ptr, n - 1).val, vals[n]) = stop
          BY <5>2 DEF Insert, WriteError
        <5>4. f[n - 1].err = "ok" /\ f[n - 1].memory = m
          BY <4>3, <1>2
        <5> HIDE DEF stop
        <5> QED
          BY <5>3, <5>4, <4>2 DEF InsertNext
      <4>4. CASE n - 1 # 0
        <5>1. f[n - 1] = stop
          BY <4>1, <4>4, <3>2
        <5> QED
          BY <5>1, <4>2 DEF InsertNext
      <4> QED
        BY <4>3, <4>4
    <3> HIDE DEF id, S
    <3> QED
      BY <3>1, <3>2, <1>3, RecursionStays
  <2>2. f[N] = stop
    <3>1. N \in 0..N
      BY <1>3
    <3> QED
      BY <3>1, <2>1, <1>5
  <2> QED
    BY <2>2, <1>2, <1>3, <1>5 DEF LoadData
<1>6. CASE N # 0 /\ IsRel(ptr)
  <2>1. ptr \in Relocatables /\ ptr.seg \in Nat /\ ptr.off \in Nat
    BY <1>6, RelocatableFields DEF Values, Ints, IsRel
  <2> DEFINE T(n) == AllLoaded(m, ptr, vals, f[n], n) \/ \E x : StoppedAt(m, ptr, vals, f[n], x)
             S    == {n \in 0..N : T(n)}
  <2>2. \A n \in 0..N : id[n] \in S
    <3>1. id[0] \in S
      <4>1. m = LoadedSome(m, ptr, vals, 0, 0)
        <5>1. Marked(m, ptr, 0) = {}
          BY DEF Marked
        <5> QED
          BY <5>1 DEF LoadedSome, FirstStored, MemoryInv, Memories
      <4>2. AllLoaded(m, ptr, vals, f[0], 0)
        BY <4>1, <1>2 DEF AllLoaded
      <4> QED
        BY <4>2, <1>3
    <3>2. ASSUME NEW n \in 1..N, id[n - 1] \in S
          PROVE  id[n] \in S
      <4>1. n - 1 \in 0..N /\ n - 1 \in Nat /\ n \in Nat
        BY <1>3
      <4>2. f[n] = InsertNext(ptr, vals, n, f[n - 1])
        BY <1>2
      <4>3. T(n - 1)
        BY <4>1, <3>2
      <4>4. ASSUME NEW x, StoppedAt(m, ptr, vals, f[n - 1], x)
            PROVE  T(n)
        <5>1. f[n - 1].err # "ok"
          BY <4>4 DEF StoppedAt
        <5>2. f[n] = f[n - 1]
          BY <5>1, <4>2 DEF InsertNext
        <5> QED
          BY <5>2, <4>4
      <4>5. CASE AllLoaded(m, ptr, vals, f[n - 1], n - 1)
        <5>1. AddUsize(ptr, n - 1).val = Place(ptr, n)
          <6>1. ptr.off + (n - 1) <= UsizeMax /\ ptr.off + (n - 1) = ptr.off + n - 1
            BY <4>1, <2>1, <1>3, <1>6, FieldAssumption
          <6> QED
            BY <6>1, <4>1, <2>1, NextAddress DEF Place
        <5>2. f[n - 1].err = "ok"
          BY <4>5 DEF AllLoaded
        <5>3. f[n] = Insert(f[n - 1].memory, Place(ptr, n), vals[n])
          BY <5>1, <5>2, <4>2 DEF InsertNext
        <5>4. AllLoaded(m, ptr, vals, f[n], n) \/ StoppedAt(m, ptr, vals, f[n], n)
          BY <5>3, <4>5, <2>1, LoadNextStep
        <5> QED
          BY <5>4
      <4>6. T(n)
        BY <4>3, <4>4, <4>5
      <4> HIDE DEF T
      <4> QED
        BY <4>1, <4>6
    <3> HIDE DEF id, S
    <3> QED
      BY <3>1, <3>2, <1>3, RecursionStays
  <2>3. T(N)
    <3>1. N \in 0..N
      BY <1>3
    <3> HIDE DEF T
    <3> QED
      BY <3>1, <2>2
  <2>4. f[N] = [memory |-> f[N].memory, err |-> f[N].err]
    <3>1. f[N] \in Outcomes
      BY <1>2, <1>3
    <3> QED
      BY <3>1 DEF Outcomes
  <2>5. Len(vals) > 0
    BY <1>3, <1>6
  <2>6. Loaded(m, ptr, vals) = f[N]
    <3> DEFINE r == f[N]
    <3>1. /\ r = [memory |-> r.memory, err |-> r.err]
          /\ AllLoaded(m, ptr, vals, r, Len(vals)) \/ \E x : StoppedAt(m, ptr, vals, r, x)
      BY <2>3, <2>4
    <3> HIDE DEF r
    <3>2. Loaded(m, ptr, vals) = r
      BY <3>1, <2>1, <2>5, LoadsAtEnd
    <3> QED
      BY <3>2 DEF r
  <2> QED
    BY <2>6, <1>2, <1>3, <1>6 DEF LoadData
<1> QED
  BY <1>4, <1>5, <1>6

-----------------------------------------------------------------------------
(* The theorems about the loops.                                           *)

\* In every reachable memory, load_data is its loop of inserts.
LEMMA LoadsInOrderHere ==
  ASSUME IInv
  PROVE  LoadInsertsInOrder
<1>1. MemoryInv(memory, Relocatables)
  <2>1. MemoryInv(memory, Address)
    BY DEF IInv, TypeOK, ValidatedInRange, MemoryInv, Memories, Elements
  <2> QED
    BY <2>1, AddressFields DEF MemoryInv, Memories
<1>2. SUFFICES ASSUME NEW ptr \in Keys, NEW vals \in Loads,
                      IsRel(ptr) => ptr.off + Len(vals) <= MaxOffset + 1
               PROVE  LoadData(memory, ptr, vals) = InsertInOrder(memory, ptr, vals)
  BY DEF LoadInsertsInOrder
<1>3. vals \in Seq(Values) /\ Len(vals) \in Nat
  BY MemoryBounds, LenProperties DEF Loads
<1>4. ptr \in Values
  BY AddressFields DEF Keys, IntValue, Values, Ints
<1>5. IsRel(ptr) => ptr.off + Len(vals) <= UsizeMax + 1
  <2>1. IsRel(ptr) => ptr.off \in Nat
    BY <1>4, RelocatableFields DEF Values, Ints, IsRel
  <2> QED
    BY <2>1, <1>2, <1>3, MemoryBounds, FieldAssumption
<1> QED
  BY <1>1, <1>3, <1>4, <1>5, LoadIsItsLoop

\* In every reachable memory, and for every pointer and every list of values,
\* the closed form of load_data is the code's loop of inserts: it stops at the
\* first value refused, keeps those before it, and keeps one that was written
\* before its validation failed.
THEOREM LoadsInOrder == Spec => []LoadInsertsInOrder
<1>1. IInv => LoadInsertsInOrder
  BY LoadsInOrderHere
<1> QED
  BY <1>1, IInvHolds, PTL

\* In every reachable memory the closed form of validate_existing_memory is
\* the code's loop over the segments and their cells: it validates what comes
\* before the first cell refused, and nothing after it.
THEOREM ValidationInOrder == Spec => []ValidatesInOrder
<1>1. IInv => ValidatesInOrder
  <2> SUFFICES ASSUME IInv
               PROVE  ValidatesInOrder
    OBVIOUS
  <2>1. MemoryInv(memory, Address)
    BY DEF IInv, TypeOK, ValidatedInRange, MemoryInv, Memories, Elements
  <2>2. MemoryInv(memory, Relocatables)
    BY <2>1, AddressFields DEF MemoryInv, Memories
  <2> QED
    BY <2>2, ValidateIsItsLoop DEF ValidatesInOrder
<1> QED
  BY <1>1, IInvHolds, PTL
=============================================================================
