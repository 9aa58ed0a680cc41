---------------------------- MODULE FrameProofs -----------------------------
(***************************************************************************)
(* Hints are given the addresses that were meant, and the first of a pc    *)
(* every one that is known, for any references, hints and moves of ap.     *)
(***************************************************************************)
EXTENDS Frame, MemoryCellsProofs, FiniteSetTheorems

-----------------------------------------------------------------------------
(* The invariant.                                                          *)

Trackings == [group : Nat, offset : Nat]

\* The offsets of a memory are those of an i32.
Reached(data) ==
  /\ \A i \in 1..Len(data) : Len(data[i]) <= OffsetMax
  /\ \A b \in Relocatables : IsRel(Cell(data, b)) => Cell(data, b).off <= OffsetMax

VmInv ==
  /\ vm = [memory |-> vm.memory, ap |-> vm.ap, fp |-> vm.fp, references |-> vm.references]
  /\ MemoryInv(vm.memory, Relocatables)
  /\ Reached(vm.memory.data)
  /\ vm.ap \in Relocatables /\ vm.ap.off <= OffsetMax
  /\ vm.fp \in Relocatables /\ vm.fp.off <= OffsetMax

\* Within a group, ap has moved as far as its tracking says.
MovedAsTracked(at, then, now) ==
  /\ at \in Relocatables /\ at.seg = vm.ap.seg /\ at.off <= vm.ap.off
  /\ then.group <= now.group
  /\ then.group = now.group => vm.ap.off - at.off = now.offset - then.offset

\* f is the reference list of references.
IsReferenceList(f) ==
  /\ DOMAIN f = DOMAIN GetReferenceList(references)
  /\ \A i \in DOMAIN f : f[i] = GetReferenceList(references)[i]

ReferencesInv ==
  /\ tracking \in Trackings
  /\ references \in Seq([text : Texts, tracking : Trackings])
  /\ made \in Seq(Relocatables) /\ Len(made) = Len(references)
  /\ IsReferenceList(vm.references)
  /\ \A i \in 1..Len(references) : MovedAsTracked(made[i], references[i].tracking, tracking)

\* An answer is that of the vm as it is.
AnswerInv ==
  answer # None =>
    \E list \in Hints : \E k \in 1..Len(list) : \E path \in DOMAIN list[k].ids :
    \E told \in {tracking, None} : \E hints \in HintsOfPc(list) :
      answer = [k |-> k, index |-> list[k].ids[path], told |-> told,
                r |-> AddressOfName(vm, Last(path), hints[k].ids, told)]

FrameInv == VmInv /\ ReferencesInv /\ AnswerInv
-----------------------------------------------------------------------------
(* A reference that is kept whole.                                         *)

\* What the operators of HintVariables take for its address.
AddressOf(text) ==
  Address(text.register, OffsetIn(text, 1), OffsetIn(text, 2), text.inner)

\* Its offsets, and what the parser makes of it.
LEMMA KeptText ==
  ASSUME NEW text \in Texts, Kept(text)
  PROVE  /\ ParseText(text) = AddressOf(text)
         /\ \A i \in 1..2 : OffsetIn(text, i) \in (-OffsetMax - 1)..OffsetMax
         /\ ~text.inner => OffsetIn(text, 2) = 0
         /\ text.register \in {"AP", "FP"} /\ text.inner \in BOOLEAN
<1> DEFINE n == Len(text.offsets)
           off(i) == text.offsets[i]
<1>1. /\ text.offsets \in Seq(Int) /\ text.outer \in BOOLEAN /\ text.inner \in BOOLEAN
      /\ text.register \in {"AP", "FP"} /\ OffsetMax \in Nat
      /\ \A i \in 1..n : off(i) >= -OffsetMax - 1 /\ off(i) <= OffsetMax /\ off(i) \in Int
  BY FrameAssumption, OffsetMaxAssumption, ElementOfSeq DEF Kept
<1>2. n \in Nat /\ n <= 2 /\ (~text.inner => n <= 1) /\ (text.inner => text.outer /\ n > 0)
  BY <1>1, LenProperties, EmptySeq DEF Kept
<1>3. \A i \in 1..n : OffsetOf(off(i)) = off(i)
  BY <1>1 DEF OffsetOf
<1>4. /\ \A i \in 1..n : OffsetIn(text, i) = off(i)
      /\ \A i \in 1..2 : i > n => OffsetIn(text, i) = 0
  BY <1>2 DEF OffsetIn
<1>5. ParseRegister(text) = text.register
  BY <1>2, EmptySeq DEF ParseRegister
<1> HIDE DEF n, off
<1>6. \A i \in 1..2 : OffsetIn(text, i) \in (-OffsetMax - 1)..OffsetMax
  <2> SUFFICES ASSUME NEW i \in 1..2
               PROVE  OffsetIn(text, i) \in (-OffsetMax - 1)..OffsetMax
    OBVIOUS
  <2>1. CASE i \in 1..n
    BY <1>1, <1>4, <2>1
  <2>2. CASE ~(i \in 1..n)
    BY <1>1, <1>2, <1>4, <2>2
  <2> QED
    BY <2>1, <2>2
<1>7. ~text.inner => OffsetIn(text, 2) = 0
  BY <1>2, <1>4
<1>8. ParseText(text) = AddressOf(text)
  <2>1. CASE n = 0
    <3>1. ~text.inner /\ OffsetIn(text, 1) = 0 /\ OffsetIn(text, 2) = 0
      BY <1>2, <1>4, <2>1
    <3>2. ParseText(text) = Address(text.register, 0, 0, FALSE)
      BY <1>5, <2>1 DEF ParseText, ParseDereference, ParseReference, n
    <3> QED
      BY <1>1, <3>1, <3>2 DEF AddressOf, Address
  <2>2. CASE n = 1
    <3>1. OffsetIn(text, 1) = OffsetOf(text.offsets[1]) /\ OffsetIn(text, 2) = 0
      BY <1>3, <1>4, <2>2 DEF off
    <3>2. CASE text.outer
      <4>1. ParseText(text) = Address(text.register, OffsetOf(text.offsets[1]), 0, text.inner)
        BY <1>5, <2>2, <3>2 DEF ParseText, ParseDereference, n
      <4> QED
        BY <3>1, <4>1 DEF AddressOf
    <3>3. CASE ~text.outer
      <4>1. ParseText(text) = Address(text.register, OffsetOf(text.offsets[1]), 0, FALSE)
        BY <1>5, <2>2, <3>3 DEF ParseText, ParseReference, n
      <4>2. text.inner = FALSE
        BY <1>1, <1>2, <3>3
      <4> QED
        BY <3>1, <4>1, <4>2 DEF AddressOf
    <3> QED
      BY <3>2, <3>3
  <2>3. CASE n = 2
    <3>1. text.inner = TRUE /\ text.outer
      BY <1>1, <1>2, <2>3
    <3>2. /\ OffsetIn(text, 1) = OffsetOf(text.offsets[1])
          /\ OffsetIn(text, 2) = OffsetOf(text.offsets[2])
      BY <1>3, <1>4, <2>3 DEF off
    <3>3. ParseText(text) = Address(text.register, OffsetOf(text.offsets[1]),
                                    OffsetOf(text.offsets[2]), TRUE)
      BY <1>5, <2>3, <3>1 DEF ParseText, ParseDereference, n
    <3> QED
      BY <3>1, <3>2, <3>3 DEF AddressOf
  <2> QED
    BY <1>2, <2>1, <2>2, <2>3
<1> QED
  BY <1>1, <1>6, <1>7, <1>8

\* What a reference that starts at an address means.
MeantFrom(data, start, text) ==
  LET first == start.off + OffsetIn(text, 1)
      found == IF first < 0 THEN None ELSE Cell(data, RelocatableValue(start.seg, first))
  IN  IF ~text.inner THEN [seg |-> start.seg, off |-> first + OffsetIn(text, 2)]
      ELSE IF IsRel(found) THEN [seg |-> found.seg, off |-> found.off + OffsetIn(text, 2)]
      ELSE None

\* got is where meant is, or no cell of data.
GotAsMeant(data, got, meant) ==
  \/ meant # None /\ got = RelocatableValue(meant.seg, meant.off)
  \/ (meant = None \/ meant.off < 0) /\ got \notin AddressesIn(data)

\* An offset below zero is beyond every segment; another is itself.
LEMMA Wrapped ==
  ASSUME NEW data \in Seq(Seq(Elements)), Reached(data), NEW s \in Nat,
         NEW off \in (-OffsetMax - 1)..(2 * OffsetMax)
  PROVE  /\ AsOffset(off) \in Nat
         /\ off >= 0 => AsOffset(off) = off
         /\ off < 0 => RelocatableValue(s, AsOffset(off)) \notin AddressesIn(data)
<1> DEFINE W == UsizeMax + 1
<1>1. OffsetMax \in Nat /\ W \in Nat /\ 2 * OffsetMax < W /\ off \in Int
  BY OffsetMaxAssumption, FrameAssumption, FieldAssumption
<1>2. CASE off >= 0
  <2>1. off % W = off
    <3> HIDE DEF W
    <3>1. W > 0 /\ off \in 0..(W - 1) /\ off - W * 0 = off
      BY <1>1, <1>2
    <3> QED
      BY <1>1, <3>1, ResidueAt
  <2> QED
    BY <1>1, <1>2, <2>1 DEF AsOffset
<1>3. CASE off < 0
  <2>1. off + W \in 0..(W - 1) /\ off + W > OffsetMax
    BY <1>1, <1>3, FrameAssumption, FieldAssumption
  <2>2. off % W = off + W
    <3> HIDE DEF W
    <3>1. W > 0 /\ off + W \in 0..(W - 1) /\ (off + W) - W * 1 = off
      BY <1>1, <2>1
    <3> QED
      BY <1>1, <3>1, ResidueAt
  <2>3. AsOffset(off) = off + W
    BY <2>2 DEF AsOffset
  <2> DEFINE at == off + W
             a  == RelocatableValue(s, at)
  <2>4. at \in Nat /\ at > OffsetMax
    BY <2>1
  <2>5. a \in Relocatables /\ a.seg = s /\ a.off = at
    BY <2>4 DEF Relocatables, RelocatableValue
  <2>6. a \in AddressesIn(data) => a.seg < Len(data) /\ a.off < Len(data[a.seg + 1])
    BY <2>5, AddressesInside
  <2> HIDE DEF at, a
  <2>7. a \notin AddressesIn(data)
    <3>1. Len(data) \in Nat
      BY LenProperties
    <3>2. s < Len(data) => s + 1 \in 1..Len(data)
      BY <3>1
    <3>3. s < Len(data) => Len(data[s + 1]) <= OffsetMax /\ Len(data[s + 1]) \in Nat
      BY <3>2, ElementOfSeq, LenProperties DEF Reached
    <3> QED
      BY <1>1, <2>4, <2>5, <2>6, <3>3
  <2> QED
    BY <1>3, <2>3, <2>4, <2>7 DEF a, at
<1> QED
  BY <1>1, <1>2, <1>3
\* AddressFrom finds what a reference that is kept whole means, and finds it
\* wherever that has an address.
LEMMA AddressFromMeant ==
  ASSUME NEW v, v.memory.data \in Seq(Seq(Elements)), Reached(v.memory.data),
         NEW base \in Relocatables, base.off <= OffsetMax, NEW text \in Texts, Kept(text)
  PROVE  LET got   == AddressFrom(v, base, AddressOf(text))
             meant == MeantFrom(v.memory.data, base, text)
         IN  /\ got # None => GotAsMeant(v.memory.data, got, meant)
             /\ meant # None /\ meant.off >= 0 => got # None
<1> DEFINE data  == v.memory.data
           one   == OffsetIn(text, 1)
           two   == OffsetIn(text, 2)
           first == base.off + one
           at    == RelocatableValue(base.seg, first)
           cell  == Cell(data, at)
           got   == AddressFrom(v, base, AddressOf(text))
           meant == MeantFrom(data, base, text)
<1>1. /\ one \in (-OffsetMax - 1)..OffsetMax /\ two \in (-OffsetMax - 1)..OffsetMax
      /\ text.inner \in BOOLEAN /\ (~text.inner => two = 0)
  BY KeptText
<1>2. base.seg \in Nat /\ base.off \in Nat /\ IsRel(base) /\ OffsetMax \in Nat
  BY RelocatableFields, OffsetMaxAssumption
<1>3. first \in (-OffsetMax - 1)..(2 * OffsetMax)
  BY <1>1, <1>2
<1>4. got = IF first < 0 THEN None
            ELSE IF text.inner
            THEN IF IsRel(Cell(data, RelocatableValue(base.seg, AsOffset(first))))
                 THEN RelocatableValue(
                        Cell(data, RelocatableValue(base.seg, AsOffset(first))).seg,
                        AsOffset(Cell(data, RelocatableValue(base.seg, AsOffset(first))).off + two))
                 ELSE None
            ELSE RelocatableValue(base.seg, AsOffset(first + two))
  BY <1>2 DEF AddressFrom, AddressOf, Address
<1>5. \A s \in Nat : \A off \in Nat : RelocatableValue(s, off) # None
  BY NoneAssumption DEF RelocatableValue, Values, Relocatables
<1>6. \A s \in Nat : \A off \in Int : [seg |-> s, off |-> off] # None
  BY FrameAssumption
<1>7. CASE first < 0
  <2>1. got = None
    BY <1>4, <1>7
  <2>2. meant = IF text.inner THEN None ELSE [seg |-> base.seg, off |-> first + two]
    BY <1>7 DEF MeantFrom, IsRel
  <2>3. ~text.inner => first + two = first
    BY <1>1, <1>3
  <2> HIDE DEF got, meant, first, two
  <2>4. ~(meant # None /\ meant.off >= 0)
    <3>1. CASE text.inner
      BY <2>2, <3>1
    <3>2. CASE ~text.inner
      <4>1. meant = [seg |-> base.seg, off |-> first]
        BY <2>2, <2>3, <3>2
      <4>2. meant.off = first
        BY <4>1
      <4> QED
        BY <1>3, <1>7, <4>2
    <3> QED
      BY <3>1, <3>2
  <2> QED
    BY <2>1, <2>4 DEF got, meant
<1>8. CASE ~(first < 0) /\ ~text.inner
  <2>1. first + two = first /\ first >= 0 /\ first \in Nat
    BY <1>1, <1>3, <1>8
  <2>2. AsOffset(first) = first
    BY <1>2, <1>3, <2>1, Wrapped
  <2>3. got = RelocatableValue(base.seg, AsOffset(first + two))
    BY <1>4, <1>8
  <2>4. meant = [seg |-> base.seg, off |-> first + two]
    BY <1>8 DEF MeantFrom
  <2> HIDE DEF got, meant, first, two
  <2>5. got = RelocatableValue(base.seg, first) /\ meant = [seg |-> base.seg, off |-> first]
    BY <2>1, <2>2, <2>3, <2>4
  <2>6. got # None /\ meant # None /\ meant.seg = base.seg /\ meant.off = first
    BY <1>2, <1>5, <1>6, <2>1, <2>5
  <2>7. GotAsMeant(data, got, meant) /\ (meant # None /\ meant.off >= 0 => got # None)
    BY <2>5, <2>6 DEF GotAsMeant
  <2> QED
    BY <2>7 DEF got, meant
<1>9. CASE ~(first < 0) /\ text.inner
  <2>1. first >= 0 /\ first \in Nat
    BY <1>3, <1>9
  <2>2. AsOffset(first) = first
    BY <1>2, <1>3, <2>1, Wrapped
  <2>3. got = IF IsRel(cell) THEN RelocatableValue(cell.seg, AsOffset(cell.off + two)) ELSE None
    <3>1. RelocatableValue(base.seg, AsOffset(first)) = at
      BY <2>2
    <3> HIDE DEF at, got
    <3> QED
      BY <1>4, <1>9, <3>1
  <2>4. meant = IF IsRel(cell) THEN [seg |-> cell.seg, off |-> cell.off + two] ELSE None
    BY <1>9 DEF MeantFrom
  <2>5. at \in Relocatables
    BY <1>2, <2>1 DEF Relocatables, RelocatableValue
  <2>6. cell \in Elements /\ (IsRel(cell) => cell.off <= OffsetMax)
    BY <2>5, AddressesInside DEF Reached
  <2>7. IsRel(cell) => cell.seg \in Nat /\ cell.off \in Nat
    BY <2>6 DEF Elements, Values, Ints, Relocatables, IsRel
  <2> HIDE DEF cell
  <2>8. CASE ~IsRel(cell)
    <3>1. got = None /\ meant = None
      BY <2>3, <2>4, <2>8
    <3> HIDE DEF got, meant
    <3>2. (got # None => GotAsMeant(data, got, meant)) /\ (meant # None /\ meant.off >= 0 => got # None)
      BY <3>1
    <3> QED
      BY <3>2 DEF got, meant
  <2>9. CASE IsRel(cell)
    <3> DEFINE off == cell.off + two
               s   == cell.seg
    <3>1. off \in (-OffsetMax - 1)..(2 * OffsetMax) /\ s \in Nat
      BY <1>1, <1>2, <2>6, <2>7, <2>9
    <3>2. got = RelocatableValue(s, AsOffset(off)) /\ meant = [seg |-> s, off |-> off]
      BY <2>3, <2>4, <2>9
    <3> HIDE DEF off, s, got, meant
    <3>3. /\ AsOffset(off) \in Nat
          /\ off >= 0 => AsOffset(off) = off
          /\ off < 0 => RelocatableValue(s, AsOffset(off)) \notin AddressesIn(data)
      <4> HIDE DEF data
      <4>1. data \in Seq(Seq(Elements)) /\ Reached(data)
        BY DEF data
      <4> QED
        BY <3>1, <4>1, Wrapped
    <3>4. off \in Int /\ (off >= 0 \/ off < 0)
      BY <3>1, <1>2
    <3>5. got # None /\ meant # None /\ meant.seg = s /\ meant.off = off
      BY <1>5, <1>6, <3>1, <3>2, <3>3, <3>4
    <3>6. GotAsMeant(data, got, meant)
      BY <3>2, <3>3, <3>4, <3>5 DEF GotAsMeant
    <3> QED
      BY <3>5, <3>6 DEF got, meant
  <2> QED
    BY <2>8, <2>9
<1> QED
  BY <1>1, <1>7, <1>8, <1>9
-----------------------------------------------------------------------------
(* The references of a program.                                            *)

\* The reference that a hint finds under an index.
LEMMA ListedReference ==
  ASSUME ReferencesInv, NEW i \in Nat
  PROVE  LET text == references[i + 1].text
         IN  /\ i \in DOMAIN vm.references <=>
                  i < Len(references) /\ ParseText(text).register # None
             /\ i \in DOMAIN vm.references =>
                  vm.references[i] =
                    [address |-> ParseText(text),
                     ap_tracking_data |-> IF ParseText(text).register = "FP" THEN None
                                          ELSE references[i + 1].tracking]
<1>1. Len(references) \in Nat
  BY LenProperties DEF ReferencesInv
<1>2. DOMAIN GetReferenceList(references) =
        {j \in 0..(Len(references) - 1) : ParseText(references[j + 1].text).register # None}
  BY DEF GetReferenceList
<1>3. i \in DOMAIN vm.references <=>
        i < Len(references) /\ ParseText(references[i + 1].text).register # None
  BY <1>1, <1>2 DEF ReferencesInv, IsReferenceList
<1>4. ASSUME i \in DOMAIN vm.references
      PROVE  vm.references[i] =
               [address |-> ParseText(references[i + 1].text),
                ap_tracking_data |-> IF ParseText(references[i + 1].text).register = "FP" THEN None
                                     ELSE references[i + 1].tracking]
  <2>1. vm.references[i] = GetReferenceList(references)[i]
    BY <1>4 DEF ReferencesInv, IsReferenceList
  <2>2. i \in {j \in 0..(Len(references) - 1) : ParseText(references[j + 1].text).register # None}
    BY <1>2, <1>4 DEF ReferencesInv, IsReferenceList
  <2> QED
    BY <2>1, <2>2 DEF GetReferenceList
<1> QED
  BY <1>3, <1>4

\* The register that a reference of a program was made from, as it was.
StartOf(i) == IF references[i + 1].text.register = "FP" THEN vm.fp ELSE made[i + 1]

\* ap is corrected to what it was, within the group of the reference.
LEMMA CorrectedToMade ==
  ASSUME VmInv, ReferencesInv, NEW k \in 1..Len(references),
         references[k].tracking.group = tracking.group
  PROVE  CorrectedAp(vm.ap, references[k].tracking, tracking) = Ok(made[k])
<1> DEFINE ref  == references[k].tracking
           diff == tracking.offset - ref.offset
           at   == made[k]
<1>1. /\ vm.ap \in Relocatables /\ vm.ap.off <= OffsetMax /\ vm.ap.off \in Nat
      /\ at \in Relocatables /\ at.seg = vm.ap.seg /\ at.off <= vm.ap.off
      /\ vm.ap.off - at.off = diff /\ at.off \in Nat /\ at = RelocatableValue(at.seg, at.off)
  BY RelocatableFields DEF VmInv, ReferencesInv, MovedAsTracked
<1>2. references[k] \in [text : Texts, tracking : Trackings]
  BY ElementOfSeq DEF ReferencesInv
<1>3. ref.offset \in Nat /\ tracking.offset \in Nat
  BY <1>2 DEF ReferencesInv, Trackings
<1>4. OffsetMax \in Nat /\ UsizeMax \in Nat /\ OffsetMax <= UsizeMax
  BY OffsetMaxAssumption, FieldAssumption, FrameAssumption
<1> HIDE DEF at
<1>5. diff \in Int
  BY <1>3
<1> HIDE DEF diff
<1>6. diff \in 0..UsizeMax /\ vm.ap.off - diff = at.off /\ at.off \in 0..UsizeMax
  BY <1>1, <1>4, <1>5
<1>7. Usize(diff) = Ok(diff) /\ Usize(vm.ap.off - diff) = Ok(at.off)
  BY <1>6 DEF Usize
<1>8. CorrectedAp(vm.ap, ref, tracking) = Ok(RelocatableValue(vm.ap.seg, at.off))
  BY <1>7 DEF CorrectedAp, Ok, diff
<1> QED
  BY <1>1, <1>8 DEF at

\* A reference that is kept whole starts from its register as it was where it
\* was made; surely so when ap has been followed since.
LEMMA BaseMeant ==
  ASSUME VmInv, ReferencesInv, NEW i \in Nat, i < Len(references),
         Kept(references[i + 1].text), NEW told \in {tracking, None}
  PROVE  LET base == BaseAddress(vm, vm.references[i], told)
         IN  /\ base.err = "ok" => base = Ok(StartOf(i))
             /\ (references[i + 1].text.register = "AP" =>
                   told # None /\ references[i + 1].tracking.group = tracking.group)
                => base = Ok(StartOf(i))
             /\ StartOf(i) \in Relocatables /\ StartOf(i).off <= OffsetMax
             /\ vm.references[i].address = AddressOf(references[i + 1].text)
             /\ i \in DOMAIN vm.references
<1> DEFINE text == references[i + 1].text
           ref  == references[i + 1].tracking
           base == BaseAddress(vm, vm.references[i], told)
<1>1. i + 1 \in 1..Len(references) /\ Len(references) \in Nat
  BY LenProperties DEF ReferencesInv
<1>2. references[i + 1] \in [text : Texts, tracking : Trackings]
  BY <1>1, ElementOfSeq DEF ReferencesInv
<1>3. text \in Texts /\ ref \in Trackings
  BY <1>2
<1>4. ParseText(text) = AddressOf(text) /\ text.register \in {"AP", "FP"}
  BY <1>3, KeptText
<1>5. ParseText(text).register = text.register /\ text.register # None
  BY <1>4 DEF AddressOf, Address, Kept
<1>6. /\ i \in DOMAIN vm.references
      /\ vm.references[i] = [address |-> AddressOf(text),
                             ap_tracking_data |-> IF text.register = "FP" THEN None ELSE ref]
  BY <1>4, <1>5, ListedReference
<1>7. ref # None
  BY <1>3, FrameAssumption DEF Trackings
<1>8. StartOf(i) \in Relocatables /\ StartOf(i).off <= OffsetMax
  <2>1. vm.fp \in Relocatables /\ vm.fp.off <= OffsetMax
    BY DEF VmInv
  <2>2. made[i + 1] \in Relocatables /\ made[i + 1].off <= vm.ap.off
    BY <1>1 DEF ReferencesInv, MovedAsTracked
  <2>3. vm.ap.off <= OffsetMax /\ vm.ap.off \in Nat /\ made[i + 1].off \in Nat /\ OffsetMax \in Nat
    BY <2>2, RelocatableFields, OffsetMaxAssumption DEF VmInv
  <2>4. made[i + 1].off <= OffsetMax
    BY <2>2, <2>3
  <2> QED
    BY <2>1, <2>2, <2>4 DEF StartOf
<1>9. AddressOf(text).register = text.register
  BY DEF AddressOf, Address
<1> HIDE DEF text, ref
<1>10. CASE text.register = "FP"
  <2>1. base = Ok(vm.fp)
    BY <1>6, <1>9, <1>10 DEF BaseAddress
  <2>2. StartOf(i) = vm.fp
    BY <1>10 DEF StartOf, text
  <2> QED
    BY <1>6, <1>8, <2>1, <2>2 DEF text
<1>11. CASE text.register = "AP"
  <2>1. StartOf(i) = made[i + 1]
    BY <1>11 DEF StartOf, text
  <2>2. IsRel(vm.ap) /\ ~IsInt(vm.ap)
    <3>1. IsRel(vm.ap)
      BY RelocatableFields DEF VmInv
    <3> QED
      BY <3>1 DEF IsRel, IsInt
  <2>3. base = IF told = None THEN Err("NoneApTrackingData") ELSE CorrectedAp(vm.ap, ref, told)
    BY <1>6, <1>7, <1>9, <1>11, <2>2 DEF BaseAddress
  <2>4. told # None => told = tracking
    OBVIOUS
  <2>5. ref.group = tracking.group => CorrectedAp(vm.ap, ref, tracking) = Ok(made[i + 1])
    BY <1>1, CorrectedToMade DEF ref
  <2>6. ref.group # tracking.group => CorrectedAp(vm.ap, ref, tracking).err # "ok"
    BY DEF CorrectedAp, Err
  <2> HIDE DEF base
  <2>7. base.err = "ok" => base = Ok(StartOf(i))
    BY <2>1, <2>3, <2>4, <2>5, <2>6 DEF Err
  <2>8. told # None /\ ref.group = tracking.group => base = Ok(StartOf(i))
    BY <2>1, <2>3, <2>4, <2>5
  <2> QED
    BY <1>6, <1>8, <1>11, <2>7, <2>8 DEF base, text, ref
<1> QED
  BY <1>4, <1>10, <1>11 DEF text
\* The address of an index whose reference is kept whole.
LEMMA AddressMeant ==
  ASSUME VmInv, ReferencesInv, NEW i \in Nat, i < Len(references),
         Kept(references[i + 1].text), NEW told \in {tracking, None}
  PROVE  LET found == GetAddress(vm, i, told)
         IN  /\ found.err = "ok" /\ found.val # None =>
                  GotAsMeant(vm.memory.data, found.val, Meant(i))
             /\ Known(i) /\ (references[i + 1].text.register = "AP" => told # None)
                  /\ i < Cardinality(DOMAIN vm.references)
                => found.err = "ok" /\ found.val # None
<1> DEFINE found == GetAddress(vm, i, told)
           ref   == vm.references[i]
           text  == references[i + 1].text
           base  == BaseAddress(vm, ref, told)
           start == StartOf(i)
           data  == vm.memory.data
           got   == AddressFrom(vm, start, AddressOf(text))
           meant == MeantFrom(data, start, text)
<1>1. /\ base.err = "ok" => base = Ok(start)
      /\ (text.register = "AP" => told # None /\ references[i + 1].tracking.group = tracking.group)
         => base = Ok(start)
      /\ start \in Relocatables /\ start.off <= OffsetMax
      /\ ref.address = AddressOf(text) /\ i \in DOMAIN vm.references
  BY BaseMeant
<1>2. text \in Texts /\ Kept(text)
  <2>1. i + 1 \in 1..Len(references)
    BY LenProperties DEF ReferencesInv
  <2>2. references[i + 1] \in [text : Texts, tracking : Trackings]
    BY <2>1, ElementOfSeq DEF ReferencesInv
  <2> QED
    BY <2>2
<1>3. data \in Seq(Seq(Elements)) /\ Reached(data)
  BY DEF VmInv, MemoryInv, Memories
<1>4. /\ got # None => GotAsMeant(data, got, meant)
      /\ meant # None /\ meant.off >= 0 => got # None
  <2> HIDE DEF text, start
  <2> QED
    BY <1>1, <1>2, <1>3, AddressFromMeant
<1>5. Meant(i) = meant
  BY DEF Meant, MeantFrom, StartOf
<1>6. base.err = "ok" => ComputeAddr(vm, ref, told) = Ok(got)
  <2> SUFFICES ASSUME base.err = "ok"
               PROVE  ComputeAddr(vm, ref, told) = Ok(got)
    OBVIOUS
  <2>1. ComputeAddr(vm, ref, told) = Ok(AddressFrom(vm, base.val, ref.address))
    BY DEF ComputeAddr
  <2>2. base.val = start
    BY <1>1 DEF Ok
  <2> QED
    BY <1>1, <2>1, <2>2
<1>7. base.err # "ok" => ComputeAddr(vm, ref, told).err # "ok"
  BY DEF ComputeAddr
<1>8. found = IF i < Cardinality(DOMAIN vm.references) THEN ComputeAddr(vm, ref, told)
              ELSE Ok(None)
  BY <1>1 DEF GetAddress
<1> HIDE DEF found, base, got, meant
<1>9. found.err = "ok" /\ found.val # None => GotAsMeant(data, found.val, meant)
  BY <1>4, <1>6, <1>7, <1>8 DEF Ok
<1>10. Known(i) /\ (text.register = "AP" => told # None) /\ i < Cardinality(DOMAIN vm.references)
       => found.err = "ok" /\ found.val # None
  <2> SUFFICES ASSUME Known(i), text.register = "AP" => told # None,
                      i < Cardinality(DOMAIN vm.references)
               PROVE  found.err = "ok" /\ found.val # None
    OBVIOUS
  <2>1. /\ meant # None /\ meant.off >= 0
        /\ text.register = "AP" => references[i + 1].tracking.group = tracking.group
    BY <1>5 DEF Known
  <2>2. base = Ok(start)
    BY <1>1, <2>1
  <2>3. found = Ok(got) /\ got # None
    BY <1>4, <1>6, <1>8, <2>1, <2>2 DEF Ok
  <2> QED
    BY <2>3 DEF Ok
<1> QED
  BY <1>5, <1>9, <1>10 DEF found

\* The variable that a hint asks for by the last name of its path is the one
\* of the path; the first hint of a pc finds every one of its own.
LEMMA NamedIndex ==
  ASSUME NEW list \in Hints, NEW k \in 1..Len(list), NEW path \in DOMAIN list[k].ids,
         NEW hints \in HintsOfPc(list)
  PROVE  LET ids == hints[k].ids
         IN  /\ Last(path) \in DOMAIN ids => ids[Last(path)] = list[k].ids[path]
             /\ k = 1 => Last(path) \in DOMAIN ids
             /\ list[k].ids[path] \in Nat
<1> DEFINE mine == list[k].ids
           name == Last(path)
<1>1. /\ list[k] = [ids |-> mine] /\ DOMAIN mine \subseteq Seq(STRING) /\ mine[path] \in Nat
      /\ \A p, q \in DOMAIN mine : Last(p) = Last(q) => p = q
  BY FrameAssumption
<1>2. PICK first \in RemovePath(list[1].ids) :
        hints = [i \in 1..Len(list) |->
                   [list[i] EXCEPT !.ids = IF i = 1 THEN first ELSE PlainNames(@)]]
  BY DEF HintsOfPc
<1>3. hints[k] = [list[k] EXCEPT !.ids = IF k = 1 THEN first ELSE PlainNames(@)]
  BY <1>2
<1>4. hints[k].ids = IF k = 1 THEN first ELSE PlainNames(mine)
  <2> HIDE DEF mine
  <2>1. hints[k] = [[ids |-> mine] EXCEPT !.ids = IF k = 1 THEN first ELSE PlainNames(@)]
    BY <1>1, <1>3
  <2> QED
    BY <2>1
<1>5. CASE k = 1
  <2>1. first \in RemovePath(mine) /\ hints[k].ids = first
    BY <1>2, <1>4, <1>5
  <2> DEFINE names == {Last(p) : p \in DOMAIN mine}
  <2>2. PICK pick \in {p \in [names -> DOMAIN mine] : \A n \in names : Last(p[n]) = n} :
          first = [n \in names |-> mine[pick[n]]]
    BY <2>1 DEF RemovePath
  <2>3. name \in names
    OBVIOUS
  <2>4. pick[name] \in DOMAIN mine /\ Last(pick[name]) = name
    BY <2>2, <2>3
  <2>5. pick[name] = path
    BY <1>1, <2>4
  <2> QED
    BY <1>1, <2>1, <2>2, <2>3, <2>5
<1>6. CASE k # 1
  <2>1. hints[k].ids = PlainNames(mine)
    BY <1>4, <1>6
  <2> DEFINE plain == {p \in DOMAIN mine : Len(p) = 1}
             names == {Last(p) : p \in plain}
  <2>2. PlainNames(mine) = [n \in names |-> mine[<<n>>]]
    BY DEF PlainNames
  <2>3. ASSUME name \in names
        PROVE  mine[<<name>>] = mine[path]
    <3>1. PICK p \in plain : Last(p) = name
      BY <2>3
    <3>2. p = path
      BY <1>1, <3>1
    <3>3. path \in Seq(STRING) /\ Len(path) = 1
      BY <1>1, <3>1, <3>2
    <3>4. path = <<path[1]>>
      BY <3>3
    <3>5. name = path[1]
      BY <3>3 DEF Last
    <3> QED
      BY <3>4, <3>5
  <2> QED
    BY <1>1, <1>6, <2>1, <2>2, <2>3
<1> QED
  BY <1>5, <1>6
-----------------------------------------------------------------------------
(* The properties of a state.                                              *)

\* An answer is the address of its index, if it is none of the errors.
LEMMA Answered ==
  ASSUME FrameInv, answer # None
  PROVE  \E told \in {tracking, None} :
           LET found == GetAddress(vm, answer.index, told)
           IN  /\ answer.index \in Nat /\ answer.told = told
               /\ answer.r.err = "ok" => answer.r = found /\ found.val # None
               /\ answer.k = 1 /\ found.err = "ok" /\ found.val # None => answer.r = found
<1>1. PICK list \in Hints :
         \E k \in 1..Len(list) : \E path \in DOMAIN list[k].ids :
         \E told \in {tracking, None} : \E hints \in HintsOfPc(list) :
           answer = [k |-> k, index |-> list[k].ids[path], told |-> told,
                     r |-> AddressOfName(vm, Last(path), hints[k].ids, told)]
  BY DEF FrameInv, AnswerInv
<1>2. PICK k \in 1..Len(list) :
         \E path \in DOMAIN list[k].ids :
         \E told \in {tracking, None} : \E hints \in HintsOfPc(list) :
           answer = [k |-> k, index |-> list[k].ids[path], told |-> told,
                     r |-> AddressOfName(vm, Last(path), hints[k].ids, told)]
  BY <1>1
<1>3. PICK path \in DOMAIN list[k].ids :
         \E told \in {tracking, None} : \E hints \in HintsOfPc(list) :
           answer = [k |-> k, index |-> list[k].ids[path], told |-> told,
                     r |-> AddressOfName(vm, Last(path), hints[k].ids, told)]
  BY <1>2
<1>4. PICK told \in {tracking, None} : \E hints \in HintsOfPc(list) :
        answer = [k |-> k, index |-> list[k].ids[path], told |-> told,
                  r |-> AddressOfName(vm, Last(path), hints[k].ids, told)]
  BY <1>3
<1>5. PICK hints \in HintsOfPc(list) :
         answer = [k |-> k, index |-> list[k].ids[path], told |-> told,
                   r |-> AddressOfName(vm, Last(path), hints[k].ids, told)]
  BY <1>4
<1> DEFINE ids   == hints[k].ids
           name  == Last(path)
           index == list[k].ids[path]
           found == GetAddress(vm, index, told)
           r     == AddressOfName(vm, name, ids, told)
<1>6. /\ name \in DOMAIN ids => ids[name] = index
      /\ k = 1 => name \in DOMAIN ids
      /\ index \in Nat
  BY NamedIndex
<1>7. answer.k = k /\ answer.index = index /\ answer.told = told /\ answer.r = r
  BY <1>5
<1> HIDE DEF index, ids, name
<1>8. name \in DOMAIN ids =>
        r = IF found.err # "panic" /\ (found.err # "ok" \/ found.val = None)
            THEN Err("FailedToGetIds") ELSE found
  BY <1>6 DEF AddressOfName
<1>9. name \notin DOMAIN ids => r = Err("FailedToGetIds")
  BY DEF AddressOfName
<1> HIDE DEF r, found
<1>10. r.err = "ok" => r = found /\ found.val # None
  BY <1>8, <1>9 DEF Err
<1>11. k = 1 /\ found.err = "ok" /\ found.val # None => r = found
  BY <1>6, <1>8
<1> QED
  BY <1>6, <1>7, <1>10, <1>11 DEF found

\* What the runner gives every reference an entry for; the others make the
\* references fewer than the indices.
LEMMA EntriesCounted ==
  ASSUME ReferencesInv
  PROVE  /\ Cardinality(WithoutEntry) \in Nat
         /\ Cardinality(DOMAIN vm.references) = Len(references) - Cardinality(WithoutEntry)
<1> DEFINE n == Len(references)
           listed(i) == ParseText(references[i].text).register # None
           entries == {i \in 1..n : listed(i)}
           D == {j \in 0..(n - 1) : listed(j + 1)}
           f == [i \in entries |-> i - 1]
<1>1. n \in Nat
  BY LenProperties DEF ReferencesInv
<1>2. DOMAIN vm.references = D
  BY DEF ReferencesInv, IsReferenceList, GetReferenceList
<1>3. WithoutEntry = (1..n) \ entries
  BY DEF WithoutEntry
<1> HIDE DEF listed
<1>4. f \in Bijection(entries, D)
  <2>1. ASSUME NEW i \in entries
        PROVE  i \in 1..n /\ i - 1 \in 0..(n - 1) /\ listed((i - 1) + 1)
    <3>1. i \in 1..n /\ listed(i) /\ (i - 1) + 1 = i
      BY <1>1
    <3> QED
      BY <1>1, <3>1
  <2>2. f \in [entries -> D]
    BY <2>1
  <2>3. \A i, j \in entries : f[i] = f[j] => i = j
    BY <1>1
  <2>4. \A j \in D : \E i \in entries : f[i] = j
    <3> SUFFICES ASSUME NEW j \in D
                 PROVE  \E i \in entries : f[i] = j
      OBVIOUS
    <3>1. j + 1 \in entries /\ (j + 1) - 1 = j
      BY <1>1
    <3> QED
      BY <3>1
  <2> HIDE DEF f, entries, D
  <2> QED
    BY <2>2, <2>3, <2>4 DEF Bijection, Injection, Surjection, IsInjective
<1>5. IsFiniteSet(1..n) /\ Cardinality(1..n) = n
  <2> HIDE DEF n
  <2>1. n \in Int /\ 1 \in Int /\ (IF 1 > n THEN 0 ELSE n - 1 + 1) = n
    BY <1>1
  <2>2. IsFiniteSet(1..n) /\ Cardinality(1..n) = IF 1 > n THEN 0 ELSE n - 1 + 1
    BY <2>1, FS_Interval
  <2> QED
    BY <2>1, <2>2
<1>6. entries \in SUBSET (1..n)
  OBVIOUS
<1> HIDE DEF f, entries, D
<1>7. IsFiniteSet(entries) /\ Cardinality(entries) \in Nat
  BY <1>5, <1>6, FS_Subset, FS_CardinalityType
<1>8. Cardinality(D) = Cardinality(entries)
  BY <1>4, <1>7, FS_Bijection DEF ExistsBijection
<1>9. /\ IsFiniteSet((1..n) \ entries)
      /\ Cardinality((1..n) \ entries) = n - Cardinality(entries)
  <2> DEFINE all == 1..n
  <2>1. all \intersect entries = entries /\ IsFiniteSet(all) /\ Cardinality(all) = n
    BY <1>5, <1>6
  <2> HIDE DEF all
  <2>2. /\ IsFiniteSet(all \ entries)
        /\ Cardinality(all \ entries) = Cardinality(all) - Cardinality(all \intersect entries)
    BY <2>1, FS_Difference
  <2> QED
    BY <2>1, <2>2 DEF all
<1>10. Cardinality((1..n) \ entries) \in Nat
  BY <1>9, FS_CardinalityType
<1> QED
  BY <1>1, <1>2, <1>3, <1>7, <1>8, <1>9, <1>10

\* An address that is found is the one that was meant.
LEMMA FrameInvMeant == FrameInv => AddressAsMeant
<1> SUFFICES ASSUME FrameInv, Found, Kept(references[answer.index + 1].text)
             PROVE  GotAsMeant(vm.memory.data, answer.r.val, Meant(answer.index))
  BY DEF AddressAsMeant, GotAsMeant
<1> DEFINE i == answer.index
<1>1. answer # None /\ answer.r.err = "ok"
  BY DEF Found
<1>2. PICK told \in {tracking, None} :
        /\ i \in Nat /\ answer.r = GetAddress(vm, i, told) /\ answer.r.val # None
  BY <1>1, Answered
<1> HIDE DEF i
<1>3. i \in DOMAIN vm.references
  BY <1>2 DEF GetAddress, Ok
<1>4. i < Len(references)
  BY <1>2, <1>3, ListedReference DEF FrameInv
<1> QED
  BY <1>1, <1>2, <1>4, AddressMeant DEF FrameInv, i

\* An address that is known is found by the first hint.
LEMMA FrameInvFound == FrameInv => KnownIsFound
<1> SUFFICES ASSUME FrameInv, answer # None, Known(answer.index), answer.k = 1,
                    answer.index < Len(references) - Cardinality(WithoutEntry)
             PROVE  answer.r.err = "ok"
  BY DEF KnownIsFound, Found
<1> DEFINE i == answer.index
<1>1. PICK told \in {tracking, None} :
        LET found == GetAddress(vm, i, told)
        IN  /\ i \in Nat /\ answer.told = told
            /\ answer.k = 1 /\ found.err = "ok" /\ found.val # None => answer.r = found
  BY Answered
<1>2. /\ i < Len(references) /\ Kept(references[i + 1].text)
      /\ references[i + 1].text.register = "AP" => told # None
  BY <1>1 DEF Known
<1>3. i < Cardinality(DOMAIN vm.references)
  BY EntriesCounted DEF FrameInv
<1> HIDE DEF i
<1>4. Known(i)
  BY DEF i
<1>5. GetAddress(vm, i, told).err = "ok" /\ GetAddress(vm, i, told).val # None
  BY <1>1, <1>2, <1>3, <1>4, AddressMeant DEF FrameInv
<1> QED
  BY <1>1, <1>5
-----------------------------------------------------------------------------
(* The steps.                                                              *)

\* The addresses with an offset of an i32.
NearAddresses == {b \in Relocatables : b.off < OffsetMax}

\* A memory has no cells but near ones if its segments are that short.
LEMMA NearSegments ==
  ASSUME NEW data \in Seq(Seq(Elements))
  PROVE  AddressesIn(data) \subseteq NearAddresses
           <=> \A i \in 1..Len(data) : Len(data[i]) <= OffsetMax
<1>1. OffsetMax \in Nat /\ Len(data) \in Nat
  BY OffsetMaxAssumption, LenProperties
<1>2. \A i \in 1..Len(data) : Len(data[i]) \in Nat
  BY ElementOfSeq, LenProperties
<1>3. ASSUME AddressesIn(data) \subseteq NearAddresses, NEW i \in 1..Len(data)
      PROVE  Len(data[i]) <= OffsetMax
  <2> SUFFICES ASSUME Len(data[i]) > OffsetMax
               PROVE  FALSE
    BY <1>1, <1>2
  <2> DEFINE b == RelocatableValue(i - 1, OffsetMax)
  <2>1. b \in Relocatables /\ b.seg = i - 1 /\ b.off = OffsetMax
    BY <1>1 DEF Relocatables, RelocatableValue
  <2> HIDE DEF b
  <2>2. (i - 1) + 1 = i /\ i - 1 < Len(data)
    BY <1>1
  <2>3. b \in AddressesIn(data)
    BY <2>1, <2>2, AddressesInside
  <2>4. b.off < OffsetMax
    BY <1>3, <2>3 DEF NearAddresses
  <2> QED
    BY <1>1, <2>1, <2>4
<1>4. ASSUME \A i \in 1..Len(data) : Len(data[i]) <= OffsetMax, NEW b \in AddressesIn(data)
      PROVE  b \in NearAddresses
  <2>1. b \in Relocatables /\ b.seg < Len(data) /\ b.off < Len(data[b.seg + 1])
    BY AddressesInside
  <2>2. b.seg \in Nat /\ b.off \in Nat
    BY <2>1, RelocatableFields
  <2>3. b.seg + 1 \in 1..Len(data)
    BY <1>1, <2>1, <2>2
  <2>4. b.off < OffsetMax
    BY <1>1, <1>2, <1>4, <2>1, <2>2, <2>3
  <2> QED
    BY <2>1, <2>4 DEF NearAddresses
<1> QED
  BY <1>3, <1>4

\* A memory whose addresses are in a set has them in a greater one.
LEMMA WiderMemory ==
  ASSUME NEW B, NEW A \in SUBSET B, NEW m, MemoryInv(m, A)
  PROVE  MemoryInv(m, B)
  BY DEF MemoryInv, Memories

\* What is pushed at ap keeps the memory, and its offsets near.
LEMMA PushedMemory ==
  ASSUME VmInv, NEW v \in Pushed, vm.ap.off + 1 <= OffsetMax
  PROVE  LET m == Insert(vm.memory, vm.ap, v).memory
         IN  MemoryInv(m, Relocatables) /\ Reached(m.data)
<1> DEFINE m == vm.memory
           n == Insert(m, vm.ap, v).memory
<1>1. /\ MemoryInv(m, Relocatables) /\ Reached(m.data) /\ m.data \in Seq(Seq(Elements))
      /\ vm.ap \in Relocatables /\ vm.ap.off \in Nat
  BY SegmentsCounted, RelocatableFields DEF VmInv
<1>2. /\ v \in Values /\ (IsRel(v) => v.off <= OffsetMax)
      /\ OffsetMax \in Nat
  BY FrameAssumption, OffsetMaxAssumption
<1>3. NearAddresses \in SUBSET Relocatables
  BY DEF NearAddresses
<1> HIDE DEF m
<1>4. MemoryInv(m, NearAddresses)
  <2>1. AddressesIn(m.data) \subseteq NearAddresses
    BY <1>1, NearSegments DEF Reached
  <2>2. \A a \in m.validated_addresses : a \in NearAddresses
    <3> SUFFICES ASSUME NEW a \in m.validated_addresses
                 PROVE  a \in NearAddresses
      OBVIOUS
    <3>1. a \in Relocatables /\ Cell(m.data, a) # None
      BY <1>1 DEF MemoryInv, Memories, InRange, IsInt
    <3>2. a \in AddressesIn(m.data)
      BY <1>1, <3>1, AddressesInside
    <3> QED
      BY <2>1, <3>2
  <2> QED
    BY <1>1, <2>1, <2>2 DEF MemoryInv, Memories
<1>5. vm.ap \in NearAddresses /\ Within(vm.ap, 1, NearAddresses)
  <2>1. vm.ap.off < OffsetMax
    BY <1>1, <1>2
  <2>2. ASSUME NEW b \in Relocatables, b.off < vm.ap.off + 1
        PROVE  b.off < OffsetMax
    BY <1>1, <1>2, <2>2, RelocatableFields
  <2> QED
    BY <1>1, <2>1, <2>2 DEF NearAddresses, Within
<1>6. MemoryInv(n, NearAddresses)
  BY <1>2, <1>3, <1>4, <1>5, InsertStep
<1>7. MemoryInv(n, Relocatables) /\ n.data \in Seq(Seq(Elements))
  <2> HIDE DEF n
  <2> QED
    BY <1>3, <1>6, WiderMemory, SegmentsCounted
<1>8. \A b \in Relocatables : \/ Cell(n.data, b) = Cell(m.data, b)
                              \/ Cell(n.data, b) = v
  BY <1>1, <1>2, InsertCells
<1> HIDE DEF n
<1>9. Reached(n.data)
  <2>1. \A i \in 1..Len(n.data) : Len(n.data[i]) <= OffsetMax
    BY <1>6, <1>7, NearSegments DEF MemoryInv
  <2>2. \A b \in Relocatables : IsRel(Cell(n.data, b)) => Cell(n.data, b).off <= OffsetMax
    BY <1>1, <1>2, <1>8 DEF Reached
  <2> QED
    BY <2>1, <2>2 DEF Reached
<1> QED
  BY <1>7, <1>9 DEF n, m

\* Where ap is after a move, and what else the vm then has.
LEMMA MovedVm ==
  ASSUME VmInv, NEW n \in Nat, NEW w, Move(n, w),
         MemoryInv(w, Relocatables), Reached(w.data)
  PROVE  /\ VmInv' /\ vm'.references = vm.references
         /\ vm'.ap.seg = vm.ap.seg /\ vm'.ap.off = vm.ap.off + n
<1>1. /\ vm = [memory |-> vm.memory, ap |-> vm.ap, fp |-> vm.fp, references |-> vm.references]
      /\ vm.ap = RelocatableValue(vm.ap.seg, vm.ap.off) /\ vm.ap.seg \in Nat /\ vm.ap.off \in Nat
  BY RelocatableFields DEF VmInv
<1>2. /\ vm' = [vm EXCEPT !.ap.off = @ + n, !.memory = w]
      /\ vm.ap.off + n <= OffsetMax
  BY DEF Move
<1>3. vm' = [memory |-> w, ap |-> [vm.ap EXCEPT !.off = @ + n], fp |-> vm.fp,
             references |-> vm.references]
  BY <1>1, <1>2
<1>4. vm'.ap = RelocatableValue(vm.ap.seg, vm.ap.off + n)
  BY <1>1, <1>3 DEF RelocatableValue
<1>5. /\ vm'.ap \in Relocatables /\ vm'.ap.seg = vm.ap.seg /\ vm'.ap.off = vm.ap.off + n
  BY <1>1, <1>4 DEF Relocatables, RelocatableValue
<1>6. /\ vm'.memory = w /\ vm'.fp = vm.fp /\ vm'.references = vm.references
      /\ vm' = [memory |-> vm'.memory, ap |-> vm'.ap, fp |-> vm'.fp,
                references |-> vm'.references]
  BY <1>3
<1>7. vm.fp \in Relocatables /\ vm.fp.off <= OffsetMax
  BY DEF VmInv
<1>8. VmInv'
  BY <1>2, <1>5, <1>6, <1>7 DEF VmInv
<1> QED
  BY <1>5, <1>6, <1>8

\* ap moves, and the compiler follows it or starts a new group.
LEMMA MoveKeeps ==
  ASSUME FrameInv, NEW n \in Nat, NEW w, Move(n, w),
         MemoryInv(w, Relocatables), Reached(w.data),
         \/ tracking' = [tracking EXCEPT !.offset = @ + n]
         \/ tracking' = [group |-> tracking.group + 1, offset |-> 0]
  PROVE  FrameInv'
<1>1. /\ VmInv' /\ vm'.references = vm.references
      /\ vm'.ap.seg = vm.ap.seg /\ vm'.ap.off = vm.ap.off + n
  BY MovedVm DEF FrameInv
<1>2. references' = references /\ made' = made /\ answer' = None
  BY DEF Move
<1>3. /\ tracking' \in Trackings /\ tracking.group \in Nat /\ tracking.offset \in Nat
      /\ \/ tracking'.group = tracking.group /\ tracking'.offset = tracking.offset + n
         \/ tracking'.group = tracking.group + 1
  BY DEF FrameInv, ReferencesInv, Trackings
<1>4. IsReferenceList(vm.references)'
  BY <1>1, <1>2 DEF FrameInv, ReferencesInv, IsReferenceList
<1>5. ASSUME NEW i \in 1..Len(references)
      PROVE  MovedAsTracked(made[i], references[i].tracking, tracking)'
  <2> DEFINE at  == made[i]
             ref == references[i].tracking
  <2>1. /\ at \in Relocatables /\ at.seg = vm.ap.seg /\ at.off <= vm.ap.off
        /\ ref.group <= tracking.group
        /\ ref.group = tracking.group => vm.ap.off - at.off = tracking.offset - ref.offset
    BY DEF FrameInv, ReferencesInv, MovedAsTracked
  <2>2. references[i] \in [text : Texts, tracking : Trackings]
    BY ElementOfSeq DEF FrameInv, ReferencesInv
  <2>3. ref.group \in Nat /\ ref.offset \in Nat /\ at.off \in Nat /\ vm.ap.off \in Nat
    BY <2>1, <2>2, RelocatableFields DEF Trackings, FrameInv, VmInv
  <2>4. at' = at /\ ref' = ref
    BY <1>2
  <2> HIDE DEF at, ref
  <2>5. at.seg = vm'.ap.seg /\ at.off <= vm'.ap.off
    BY <1>1, <2>1, <2>3
  <2>6. ref.group <= tracking'.group
    BY <1>3, <2>1, <2>3
  <2>7. ref.group = tracking'.group =>
          vm'.ap.off - at.off = tracking'.offset - ref.offset
    <3>1. CASE tracking'.group = tracking.group /\ tracking'.offset = tracking.offset + n
      <4> SUFFICES ASSUME ref.group = tracking'.group
                   PROVE  vm'.ap.off - at.off = tracking'.offset - ref.offset
        OBVIOUS
      <4>1. vm.ap.off - at.off = tracking.offset - ref.offset
        BY <2>1, <3>1
      <4>2. \A a, b, c, d \in Nat : a - b = c - d => (a + n) - b = (c + n) - d
        BY SMTT(30)
      <4>3. \A a, b, c, d : a \in Nat /\ b \in Nat /\ c \in Nat /\ d \in Nat /\ a - b = c - d
              => (a + n) - b = (c + n) - d
        BY <4>2
      <4>4. /\ vm.ap.off \in Nat /\ at.off \in Nat /\ tracking.offset \in Nat
            /\ ref.offset \in Nat
        BY <1>3, <2>3
      <4>5. (vm.ap.off + n) - at.off = (tracking.offset + n) - ref.offset
        BY <4>1, <4>3, <4>4
      <4> QED
        BY <1>1, <3>1, <4>5
    <3>2. CASE tracking'.group = tracking.group + 1
      <4>1. ref.group # tracking'.group
        BY <1>3, <2>1, <2>3, <3>2
      <4> QED
        BY <4>1
    <3> QED
      BY <1>3, <3>1, <3>2
  <2> QED
    BY <2>1, <2>4, <2>5, <2>6, <2>7 DEF MovedAsTracked, at, ref
<1>6. ReferencesInv'
  BY <1>2, <1>3, <1>4, <1>5 DEF FrameInv, ReferencesInv
<1>7. AnswerInv'
  BY <1>2 DEF AnswerInv
<1> QED
  BY <1>1, <1>6, <1>7 DEF FrameInv

\* A push keeps the invariant.
LEMMA PushKeeps ==
  ASSUME FrameInv, NEW v \in Pushed, Push(v)
  PROVE  FrameInv'
<1> DEFINE w == Insert(vm.memory, vm.ap, v).memory
<1>1. /\ Move(1, w) /\ tracking' = [tracking EXCEPT !.offset = @ + 1]
      /\ vm.ap.off + 1 <= OffsetMax
  BY DEF Push, Move
<1>2. MemoryInv(w, Relocatables) /\ Reached(w.data)
  BY <1>1, PushedMemory DEF FrameInv
<1> HIDE DEF w
<1> QED
  BY <1>1, <1>2, MoveKeeps

\* So does an ap that moves, known to the compiler or not.
LEMMA AdvanceApKeeps ==
  ASSUME FrameInv, NEW n \in Jumps, AdvanceAp(n) \/ RevokeAp(n)
  PROVE  FrameInv'
<1>1. MemoryInv(vm.memory, Relocatables) /\ Reached(vm.memory.data) /\ n \in Nat
  BY FrameAssumption DEF FrameInv, VmInv
<1>2. /\ Move(n, vm.memory)
      /\ \/ tracking' = [tracking EXCEPT !.offset = @ + n]
         \/ tracking' = [group |-> tracking.group + 1, offset |-> 0]
  BY DEF AdvanceAp, RevokeAp
<1> QED
  BY <1>1, <1>2, MoveKeeps

\* So does a reference that is defined.
LEMMA DefineKeeps ==
  ASSUME FrameInv, NEW text \in Texts, Define(text)
  PROVE  FrameInv'
<1> DEFINE ref == [text |-> text, tracking |-> tracking]
           n   == Len(references)
<1>1. /\ references' = Append(references, ref) /\ made' = Append(made, vm.ap)
      /\ vm' = [vm EXCEPT !.references = GetReferenceList(references')]
      /\ answer' = None /\ tracking' = tracking
  BY DEF Define
<1>2. /\ ref \in [text : Texts, tracking : Trackings] /\ ref.tracking = tracking
      /\ references \in Seq([text : Texts, tracking : Trackings])
      /\ made \in Seq(Relocatables) /\ Len(made) = n
      /\ vm.ap \in Relocatables /\ vm.ap.off \in Nat
      /\ tracking.group \in Nat /\ tracking.offset \in Nat
  BY RelocatableFields DEF FrameInv, ReferencesInv, VmInv, Trackings
<1>3. /\ vm'.memory = vm.memory /\ vm'.ap = vm.ap /\ vm'.fp = vm.fp
      /\ vm'.references = GetReferenceList(references')
      /\ vm' = [memory |-> vm'.memory, ap |-> vm'.ap, fp |-> vm'.fp,
                references |-> vm'.references]
  <2>1. vm = [memory |-> vm.memory, ap |-> vm.ap, fp |-> vm.fp, references |-> vm.references]
    BY DEF FrameInv, VmInv
  <2>2. \A list : [vm EXCEPT !.references = list] =
                    [memory |-> vm.memory, ap |-> vm.ap, fp |-> vm.fp, references |-> list]
    BY <2>1
  <2> QED
    BY <1>1, <2>2
<1>4. VmInv'
  BY <1>3 DEF FrameInv, VmInv
<1> HIDE DEF ref
<1>5. /\ references' \in Seq([text : Texts, tracking : Trackings]) /\ Len(references') = n + 1
      /\ made' \in Seq(Relocatables) /\ Len(made') = n + 1 /\ n \in Nat
      /\ \A i \in 1..n : references'[i] = references[i] /\ made'[i] = made[i]
      /\ references'[n + 1] = ref /\ made'[n + 1] = vm.ap
  BY <1>1, <1>2, AppendProperties, LenProperties
<1>6. IsReferenceList(vm.references)'
  BY <1>3 DEF IsReferenceList
<1> HIDE DEF n
<1>7. ASSUME NEW i \in 1..(n + 1)
      PROVE  MovedAsTracked(made[i], references[i].tracking, tracking)'
  <2>1. CASE i \in 1..n
    <3>1. MovedAsTracked(made[i], references[i].tracking, tracking)
      BY <2>1 DEF FrameInv, ReferencesInv, n
    <3> QED
      BY <1>1, <1>3, <1>5, <2>1, <3>1 DEF MovedAsTracked
  <2>2. CASE i = n + 1
    <3>1. made'[i] = vm.ap /\ references'[i].tracking = tracking
      BY <1>2, <1>5, <2>2
    <3> QED
      BY <1>1, <1>2, <1>3, <3>1 DEF MovedAsTracked
  <2> QED
    BY <1>5, <2>1, <2>2
<1>8. ReferencesInv'
  BY <1>1, <1>5, <1>6, <1>7 DEF FrameInv, ReferencesInv
<1>9. AnswerInv'
  BY <1>1 DEF AnswerInv
<1> QED
  BY <1>4, <1>8, <1>9 DEF FrameInv

\* So does a hint that looks up its ids.
LEMMA LookUpKeeps ==
  ASSUME FrameInv, NEW list \in Hints, NEW k \in 1..Len(list),
         NEW path \in DOMAIN list[k].ids, NEW told \in {tracking, None},
         LookUp(list, k, path, told)
  PROVE  FrameInv'
<1>1. /\ UNCHANGED <<vm, tracking, references, made>>
      /\ \E hints \in HintsOfPc(list) :
           answer' = [k |-> k, index |-> list[k].ids[path], told |-> told,
                      r |-> AddressOfName(vm, Last(path), hints[k].ids, told)]
  BY DEF LookUp
<1>2. VmInv' /\ ReferencesInv'
  BY <1>1 DEF FrameInv, VmInv, ReferencesInv, IsReferenceList, MovedAsTracked
<1>3. AnswerInv'
  BY <1>1 DEF AnswerInv
<1> QED
  BY <1>2, <1>3 DEF FrameInv

\* The invariant holds at the start.
LEMMA FrameInvInit == Init => FrameInv
<1> SUFFICES ASSUME Init
             PROVE  FrameInv
  OBVIOUS
<1> DEFINE top  == RelocatableValue(1, Len(Arguments))
           data == << << >>, Arguments>>
<1>1. /\ Arguments \in Seq(Values) /\ Len(Arguments) \in Nat /\ Len(Arguments) <= OffsetMax
      /\ \A i \in 1..Len(Arguments) : Arguments[i] \in Values
      /\ \A i \in 1..Len(Arguments) : IsRel(Arguments[i]) => Arguments[i].off <= OffsetMax
      /\ OffsetMax \in Nat
  <2>1. \A i \in 1..Len(Arguments) : Arguments[i] \in Range(Arguments)
    BY FrameAssumption DEF Range
  <2> QED
    BY <2>1, FrameAssumption, OffsetMaxAssumption, ElementOfSeq, LenProperties
<1>2. /\ vm = [memory |-> [EmptyMemory EXCEPT !.data = data], ap |-> top, fp |-> top,
               references |-> << >>]
      /\ tracking = [group |-> 0, offset |-> 0]
      /\ references = << >> /\ made = << >> /\ answer = None
  BY DEF Init
<1>3. top \in Relocatables /\ top.off = Len(Arguments)
  BY <1>1 DEF Relocatables, RelocatableValue
<1>4. /\ data \in Seq(Seq(Elements)) /\ Len(data) = 2
      /\ data[1] = << >> /\ data[2] = Arguments /\ Len(data[1]) = 0
  <2>1. Arguments \in Seq(Elements) /\ << >> \in Seq(Elements)
    BY <1>1 DEF Elements
  <2> QED
    BY <2>1
<1> HIDE DEF top, data
<1>5. vm.memory = [data |-> data, validated_addresses |-> {}, validation_rules |-> {}]
  BY <1>2 DEF EmptyMemory
<1>6. MemoryInv(vm.memory, Relocatables)
  BY <1>4, <1>5, AddressesInside DEF MemoryInv, Memories
<1>7. Reached(vm.memory.data)
  <2>1. \A i \in 1..Len(data) : Len(data[i]) <= OffsetMax
    BY <1>1, <1>4
  <2>2. ASSUME NEW b \in Relocatables, IsRel(Cell(data, b))
        PROVE  Cell(data, b).off <= OffsetMax
    <3>1. b.seg \in Nat /\ b.off \in Nat
      BY RelocatableFields
    <3>2. Cell(data, b) # None
      BY <2>2 DEF IsRel
    <3>3. b.seg < 2 /\ b.off < Len(data[b.seg + 1]) /\ Cell(data, b) = data[b.seg + 1][b.off + 1]
      BY <1>4, <3>2 DEF Cell
    <3>4. b.seg = 1
      <4>1. CASE b.seg = 0
        BY <1>4, <3>1, <3>3, <4>1
      <4> QED
        BY <3>1, <3>3, <4>1
    <3>5. Cell(data, b) = Arguments[b.off + 1] /\ b.off + 1 \in 1..Len(Arguments)
      BY <1>1, <1>4, <3>1, <3>3, <3>4
    <3> QED
      BY <1>1, <2>2, <3>5
  <2> QED
    BY <1>5, <2>1, <2>2 DEF Reached
<1>8. VmInv
  BY <1>1, <1>2, <1>3, <1>6, <1>7 DEF VmInv
<1>9. IsReferenceList(vm.references)
  <2>1. DOMAIN GetReferenceList(references) =
          {j \in 0..(0 - 1) : ParseText(references[j + 1].text).register # None}
    BY <1>2 DEF GetReferenceList
  <2>2. DOMAIN GetReferenceList(references) = {}
    BY <2>1
  <2>3. DOMAIN vm.references = {}
    BY <1>2
  <2> QED
    BY <2>2, <2>3 DEF IsReferenceList
<1>10. ReferencesInv
  <2>1. /\ references \in Seq([text : Texts, tracking : Trackings]) /\ Len(references) = 0
        /\ made \in Seq(Relocatables) /\ Len(made) = 0
    BY <1>2
  <2> QED
    BY <1>2, <1>9, <2>1 DEF ReferencesInv, Trackings
<1>11. AnswerInv
  BY <1>2 DEF AnswerInv
<1> QED
  BY <1>8, <1>10, <1>11 DEF FrameInv

\* Every step keeps it.
LEMMA FrameInvNext == FrameInv /\ [Next]_vars => FrameInv'
<1> SUFFICES ASSUME FrameInv, [Next]_vars
             PROVE  FrameInv'
  OBVIOUS
<1>1. CASE \E v \in Pushed : Push(v)
  BY <1>1, PushKeeps
<1>2. CASE \E n \in Jumps : AdvanceAp(n) \/ RevokeAp(n)
  BY <1>2, AdvanceApKeeps
<1>3. CASE \E text \in Texts : Len(references) < MaxReferences /\ Define(text)
  BY <1>3, DefineKeeps
<1>4. CASE \E list \in Hints : \E k \in 1..Len(list) : \E path \in DOMAIN list[k].ids :
             \E told \in {tracking, None} : LookUp(list, k, path, told)
  BY <1>4, LookUpKeeps
<1>5. CASE UNCHANGED vars
  BY <1>5 DEF vars, FrameInv, VmInv, ReferencesInv, AnswerInv, IsReferenceList, MovedAsTracked
<1> QED
  BY <1>1, <1>2, <1>3, <1>4, <1>5 DEF Next

-----------------------------------------------------------------------------
\* Whatever the references of a program and however ap moves, an address that
\* a hint is given for a variable is where the variable was when it was
\* defined, or is in no cell: the correction of ap by what the trackings say
\* (apply_ap_tracking_correction) leads back to the ap of the definition, the
\* names of a hint lead to its own indices, and an offset below zero leads
\* into no other cell.
THEOREM FrameAddressAsMeant == Spec => []AddressAsMeant
<1>1. Spec => []FrameInv
  BY FrameInvInit, FrameInvNext, PTL DEF Spec
<1> QED
  BY <1>1, FrameInvMeant, PTL

\* The first hint of a pc is given the address of every variable of its own
\* that is known there (get_address_from_reference), if its index is below the
\* number of the references that have an entry.
THEOREM FrameKnownIsFound == Spec => []KnownIsFound
<1>1. Spec => []FrameInv
  BY FrameInvInit, FrameInvNext, PTL DEF Spec
<1> QED
  BY <1>1, FrameInvFound, PTL
=============================================================================
