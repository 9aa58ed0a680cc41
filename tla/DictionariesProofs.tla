-------------------------- MODULE DictionariesProofs --------------------------
(***************************************************************************)
(* The dictionaries are maps, the accesses in their segments replay to     *)
(* them, and squash_dict passes exactly the lists of accesses that replay, *)
(* for any keys, values and programs.                                      *)
(***************************************************************************)
EXTENDS Dictionaries, MemoryCellsProofs, FiniteSetTheorems

-----------------------------------------------------------------------------
(* A vm, and the operators on its dictionaries.                            *)

\* A dictionary of values.
IsDict(d) ==
  /\ d = [entries |-> d.entries, default_value |-> d.default_value]
  /\ \A k \in DOMAIN d.entries : d.entries[k] \in Vals
  /\ d.default_value \in Vals \union {None}

IsTracker(t) ==
  /\ t = [data |-> t.data, current_ptr |-> t.current_ptr]
  /\ IsDict(t.data)
  /\ t.current_ptr = RelocatableValue(t.current_ptr.seg, t.current_ptr.off)

\* The variables of the main scope.
MainScope(p) ==
  IF p.initial_dict = None THEN << >> ELSE [name \in {"initial_dict"} |-> p.initial_dict]

\* A memory whose integers are elements of the field, and the fields of an
\* access.
NatCells(m) ==
  \A b \in Relocatables : IsInt(Cell(m.data, b)) => Cell(m.data, b).num \in Nat

Fields == {IntValue(n) : n \in Nat} \union {None}

\* A vm: its record, its memory and its trackers.
Sound(v) ==
  /\ v = [memory |-> v.memory, trackers |-> v.trackers, scopes |-> v.scopes]
  /\ MemoryInv(v.memory, Relocatables)
  /\ v.trackers = [s \in DOMAIN v.trackers |-> v.trackers[s]]
  /\ DOMAIN v.trackers \subseteq Nat
  /\ \A s \in DOMAIN v.trackers : s < Len(v.memory.data) /\ IsTracker(v.trackers[s])

\* w has the maps of v.
SameMaps(v, w) ==
  /\ DOMAIN w.trackers = DOMAIN v.trackers
  /\ \A s \in DOMAIN v.trackers :
       /\ w.trackers[s].data.default_value = v.trackers[s].data.default_value
       /\ \A k : Current(w.trackers[s].data, k) = Current(v.trackers[s].data, k)

\* w has the maps of v, but for a key of the one at s, which maps to value.
PutMap(v, w, s, key, value) ==
  /\ DOMAIN w.trackers = DOMAIN v.trackers
  /\ \A t \in DOMAIN v.trackers :
       /\ w.trackers[t].data.default_value = v.trackers[t].data.default_value
       /\ \A k : Current(w.trackers[t].data, k) =
                   IF t = s /\ k = key THEN value ELSE Current(v.trackers[t].data, k)

\* The pointer after an access.
NextPointer(p) == RelocatableValue(p.seg, p.off + DictAccessSize)

\* The pointer of the tracker at s has moved by one access, the others are
\* where they were.
Advanced(v, w, s) ==
  \A t \in DOMAIN v.trackers :
    w.trackers[t].current_ptr =
      IF t = s THEN NextPointer(v.trackers[t].current_ptr) ELSE v.trackers[t].current_ptr

\* The keys and the values are numbers, and None is not.
LEMMA NumbersKnown ==
  /\ Keys \subseteq Nat /\ Keys \subseteq Int
  /\ Vals \subseteq Nat /\ Vals \subseteq Int /\ None \notin Int /\ None \notin Nat
  BY ProgramsAssumption

\* An entry that is written is what the key maps to, and no other key.
LEMMA InsertedEntry ==
  ASSUME NEW d, IsDict(d), NEW key, NEW value \in Vals
  PROVE  LET e == DictionaryInsert(d, key, value)
         IN  /\ IsDict(e) /\ e.default_value = d.default_value
             /\ \A k : Current(e, k) = IF k = key THEN value ELSE Current(d, k)
<1> DEFINE e == DictionaryInsert(d, key, value)
<1>1. e = [entries |-> Put(d.entries, key, value), default_value |-> d.default_value]
  BY DEF DictionaryInsert, IsDict
<1>2. /\ DOMAIN Put(d.entries, key, value) = DOMAIN d.entries \union {key}
      /\ Put(d.entries, key, value)[key] = value
      /\ \A y \in DOMAIN d.entries : y # key => Put(d.entries, key, value)[y] = d.entries[y]
  BY DEF Put
<1> HIDE DEF e
<1>3. IsDict(e)
  BY <1>1, <1>2 DEF IsDict
<1>4. \A k : Current(e, k) = IF k = key THEN value ELSE Current(d, k)
  BY <1>1, <1>2 DEF Current
<1> QED
  BY <1>1, <1>3, <1>4 DEF e

\* A lookup answers what the key maps to and changes no map, the default that
\* it stores included.
LEMMA LookedUp ==
  ASSUME NEW d, IsDict(d), NEW key
  PROVE  LET got == DictionaryGet(d, key)
         IN  /\ got.val = Current(d, key)
             /\ IsDict(got.dict) /\ got.dict.default_value = d.default_value
             /\ \A k : Current(got.dict, k) = Current(d, k)
<1>1. CASE key \in DOMAIN d.entries \/ d.default_value = None
  BY <1>1 DEF DictionaryGet, Current
<1>2. CASE key \notin DOMAIN d.entries /\ d.default_value # None
  <2>1. d.default_value \in Vals /\ Current(d, key) = d.default_value
    BY <1>2 DEF IsDict, Current
  <2>2. DictionaryGet(d, key) =
          [val |-> d.default_value, dict |-> DictionaryInsert(d, key, d.default_value)]
    BY <1>2 DEF DictionaryGet
  <2> QED
    BY <2>1, <2>2, InsertedEntry
<1> QED
  BY <1>1, <1>2

\* w is v with other data in the tracker at s, whose pointer is p.
DataPut(v, w, s, d, p) ==
  /\ w = [memory |-> v.memory, trackers |-> w.trackers, scopes |-> v.scopes]
  /\ DOMAIN w.trackers = DOMAIN v.trackers
  /\ w.trackers[s].data = d
  /\ w.trackers[s].current_ptr = p
  /\ \A t \in DOMAIN v.trackers : t # s => w.trackers[t] = v.trackers[t]

\* The data of a tracker.
LEMMA WithDataStep ==
  ASSUME NEW v, Sound(v), NEW s \in DOMAIN v.trackers, NEW d, IsDict(d), NEW n
  PROVE  LET w == WithData(v, s, d, n)
             p == v.trackers[s].current_ptr
         IN  /\ Sound(w)
             /\ DataPut(v, w, s, d, RelocatableValue(p.seg, p.off + n * DictAccessSize))
<1> DEFINE w == WithData(v, s, d, n)
           p == v.trackers[s].current_ptr
           q == RelocatableValue(p.seg, p.off + n * DictAccessSize)
           t == [data |-> d, current_ptr |-> q]
<1>1. /\ v = [memory |-> v.memory, trackers |-> v.trackers, scopes |-> v.scopes]
      /\ v.trackers = [r \in DOMAIN v.trackers |-> v.trackers[r]]
      /\ \A r \in DOMAIN v.trackers : r < Len(v.memory.data) /\ IsTracker(v.trackers[r])
  BY DEF Sound
<1>2. v.trackers[s] = [data |-> v.trackers[s].data, current_ptr |-> RelocatableValue(p.seg, p.off)]
  BY <1>1 DEF IsTracker
<1> DEFINE x == [v.trackers[s] EXCEPT !.data = d]
           y == [v EXCEPT !.trackers[s].data = d]
<1>3. x = [data |-> d, current_ptr |-> RelocatableValue(p.seg, p.off)]
  BY <1>2
<1>4. w = [memory |-> v.memory, trackers |-> [v.trackers EXCEPT ![s] = t], scopes |-> v.scopes]
  <2>1. y = [memory |-> v.memory, scopes |-> v.scopes, trackers |-> [v.trackers EXCEPT ![s] = x]]
    BY <1>1
  <2>2. y.trackers[s] = x /\ DOMAIN y.trackers = DOMAIN v.trackers
    BY <1>1, <2>1
  <2>3. w = [y EXCEPT !.trackers[s].current_ptr.off = @ + n * DictAccessSize]
    BY DEF WithData
  <2> DEFINE z == [y.trackers[s] EXCEPT !.current_ptr.off = @ + n * DictAccessSize]
  <2> HIDE DEF x, y
  <2>4. w = [memory |-> y.memory, scopes |-> y.scopes, trackers |-> [y.trackers EXCEPT ![s] = z]]
    BY <2>1, <2>3
  <2>5. z = t
    BY <1>3, <2>2 DEF RelocatableValue
  <2> QED
    BY <1>1, <2>1, <2>2, <2>4, <2>5
<1>5. IsTracker(t)
  BY DEF IsTracker, RelocatableValue
<1> HIDE DEF w, t
<1>6. /\ w.trackers = [v.trackers EXCEPT ![s] = t]
      /\ w.memory = v.memory /\ w.scopes = v.scopes
  BY <1>4
<1>7. DOMAIN w.trackers = DOMAIN v.trackers /\ w.trackers[s] = t
  BY <1>1, <1>6
<1>8. \A r \in DOMAIN v.trackers : r # s => w.trackers[r] = v.trackers[r]
  BY <1>1, <1>6
<1>9. w.trackers = [r \in DOMAIN w.trackers |-> w.trackers[r]]
  BY <1>6
<1>10. Sound(w)
  BY <1>1, <1>4, <1>5, <1>6, <1>7, <1>8, <1>9 DEF Sound
<1>11. DataPut(v, w, s, d, q)
  BY <1>4, <1>6, <1>7, <1>8 DEF DataPut, t
<1> QED
  BY <1>10, <1>11 DEF w

-----------------------------------------------------------------------------
(* The hints of an access.                                                 *)

\* What a hint r of an access at s leaves of v: the maps as they were, or one
\* key of the map at s changed.
AccessOutcome(v, r, s, key, value) ==
  /\ Sound(r.vm) /\ r.vm.scopes = v.scopes
  /\ r.err # "ok" => SameMaps(v, r.vm)
  /\ r.err = "ok" =>
       /\ s \in DOMAIN v.trackers
       /\ Current(v.trackers[s].data, key) # None
       /\ PutMap(v, r.vm, s, key, value)
       /\ Advanced(v, r.vm, s)

\* Other data with the same maps.
LEMMA DataPutSame ==
  ASSUME NEW v, NEW w, NEW s \in DOMAIN v.trackers, NEW d, NEW p, DataPut(v, w, s, d, p),
         d.default_value = v.trackers[s].data.default_value,
         \A k : Current(d, k) = Current(v.trackers[s].data, k)
  PROVE  SameMaps(v, w)
  BY DEF DataPut, SameMaps

\* Other data for one key.
LEMMA DataPutKey ==
  ASSUME NEW v, NEW w, NEW s \in DOMAIN v.trackers, NEW d, NEW p, NEW key, NEW value,
         DataPut(v, w, s, d, p),
         d.default_value = v.trackers[s].data.default_value,
         \A k : Current(d, k) = IF k = key THEN value ELSE Current(v.trackers[s].data, k)
  PROVE  PutMap(v, w, s, key, value)
  BY DEF DataPut, PutMap

\* A pointer that has moved.
LEMMA DataPutAdvanced ==
  ASSUME NEW v, NEW w, NEW s \in DOMAIN v.trackers, NEW d, NEW p,
         p = v.trackers[s].current_ptr,
         DataPut(v, w, s, d, RelocatableValue(p.seg, p.off + 1 * DictAccessSize))
  PROVE  Advanced(v, w, s)
<1>1. 1 * DictAccessSize = DictAccessSize
  BY DEF DictAccessSize
<1> QED
  BY <1>1 DEF DataPut, Advanced, NextPointer

\* The error of an access whose arguments are integers and an address.
LEMMA AccessRefused ==
  ASSUME NEW v, NEW ints, \A i \in ints : IsInt(i), NEW s \in Nat, NEW off \in Nat
  PROVE  AccessError(v, ints, RelocatableValue(s, off)) =
           IF s \notin DOMAIN v.trackers THEN "NoDictTracker" ELSE "ok"
<1>1. IsRel(RelocatableValue(s, off)) /\ RelocatableValue(s, off).seg = s
  BY NoneAssumption DEF IsRel, RelocatableValue, Values, Relocatables
<1> QED
  BY <1>1 DEF AccessError

\* dict_read: the maps stay as they are, and the answer is what the key maps to.
LEMMA DictReadStep ==
  ASSUME NEW v, Sound(v), NEW key \in Int, NEW s \in Nat, NEW off \in Nat
  PROVE  LET r == DictRead(v, IntValue(key), RelocatableValue(s, off))
             value == Current(v.trackers[s].data, key)
         IN  /\ AccessOutcome(v, r, s, key, value)
             /\ r.vm.memory = v.memory
             /\ r.err = "ok" => r.val = IntValue(value)
<1> DEFINE ptr   == RelocatableValue(s, off)
           k     == IntValue(key)
           r     == DictRead(v, k, ptr)
           got   == Lookup(v, ptr, k)
           after == WithData(v, s, got.dict, 1)
           value == Current(v.trackers[s].data, key)
           d     == v.trackers[s].data
           p     == v.trackers[s].current_ptr
           q     == RelocatableValue(p.seg, p.off + 1 * DictAccessSize)
<1>1. IsInt(k) /\ k.num = key /\ ptr.seg = s
  BY NoneAssumption DEF IntValue, IsInt, Values, Ints, RelocatableValue
<1>2. AccessError(v, {k}, ptr) = IF s \notin DOMAIN v.trackers THEN "NoDictTracker" ELSE "ok"
  BY <1>1, AccessRefused
<1>3. CASE s \notin DOMAIN v.trackers
  <2>1. r = Refuse(v, "NoDictTracker")
    BY <1>2, <1>3 DEF DictRead
  <2>2. r.vm = v /\ r.err = "NoDictTracker"
    BY <2>1 DEF Refuse, Answer
  <2> QED
    BY <2>2 DEF AccessOutcome, SameMaps
<1>4. CASE s \in DOMAIN v.trackers
  <2>1. IsDict(d)
    BY <1>4 DEF Sound, IsTracker
  <2>2. got = DictionaryGet(d, key)
    BY <1>1 DEF Lookup
  <2>3. /\ got.val = value /\ IsDict(got.dict) /\ got.dict.default_value = d.default_value
        /\ \A j : Current(got.dict, j) = Current(d, j)
    BY <2>1, <2>2, LookedUp
  <2>4. r = IF got.val = None THEN Refuse(after, "NoValueForKey")
            ELSE Answer(after, "ok", IntValue(got.val))
    BY <1>1, <1>2, <1>4 DEF DictRead
  <2> HIDE DEF r, got, after, value
  <2>5. Sound(after) /\ DataPut(v, after, s, got.dict, q)
    BY <1>4, <2>3, WithDataStep DEF after
  <2>6. SameMaps(v, after)
    BY <1>4, <2>3, <2>5, DataPutSame
  <2>7. PutMap(v, after, s, key, value)
    BY <2>6 DEF SameMaps, PutMap, value
  <2>8. Advanced(v, after, s)
    BY <1>4, <2>5, DataPutAdvanced
  <2>9. after.memory = v.memory /\ after.scopes = v.scopes
    BY <2>5 DEF DataPut
  <2>10. /\ r.vm = after
         /\ r.err = IF got.val = None THEN "NoValueForKey" ELSE "ok"
         /\ r.err = "ok" => r.val = IntValue(value)
    BY <2>3, <2>4 DEF Refuse, Answer
  <2>11. r.err = "ok" => value # None
    BY <2>3, <2>10
  <2>12. AccessOutcome(v, r, s, key, value)
    BY <1>4, <2>5, <2>6, <2>7, <2>8, <2>9, <2>10, <2>11 DEF AccessOutcome, value
  <2> QED
    BY <2>9, <2>10, <2>12 DEF r, value
<1> QED
  BY <1>3, <1>4

\* Insert, as the hints and the library use it: the memory grows, and without
\* an error the cell has the value.
LEMMA InsertedCell ==
  ASSUME NEW m, MemoryInv(m, Relocatables), NEW key, IsRel(key) => key \in Relocatables,
         NEW val \in Values
  PROVE  LET i == Insert(m, key, val)
         IN  /\ MemoryInv(i.memory, Relocatables) /\ Grows(m, i.memory)
             /\ i.err = "ok" => key \in Relocatables /\ Cell(i.memory.data, key) = val
<1> DEFINE i == Insert(m, key, val)
           w == Written(m, key, val)
<1>1. IsRel(key) => Within(key, 1, Relocatables)
  BY DEF Within
<1>2. MemoryInv(i.memory, Relocatables) /\ Grows(m, i.memory)
  BY <1>1, InsertStep
<1>3. ASSUME i.err = "ok"
      PROVE  key \in Relocatables /\ Cell(i.memory.data, key) = val
  <2>1. WriteError(m.data, key, val) = "ok"
    BY <1>3 DEF Insert
  <2>2. IsRel(key)
    BY <2>1 DEF WriteError
  <2>3. key.seg < Len(m.data) /\ Cell(m.data, key) \in {None, val}
    BY <1>3, <2>2, InsertResult
  <2>4. Cell(w.data, key) = val
    BY <2>2, <2>3, WrittenCell
  <2>5. i.memory = ValidateCell(w, key)
    BY <2>1 DEF Insert
  <2>6. ValidateCell(w, key).data = w.data
    <3>1. m \in Memories(Relocatables)
      BY DEF MemoryInv
    <3>2. w.data = w.data /\ w \in {m, [m EXCEPT !.data = StoredAt(@, key, <<val>>)]}
      BY DEF Written
    <3>3. w = [data |-> w.data, validated_addresses |-> w.validated_addresses,
               validation_rules |-> w.validation_rules]
      BY <3>1, <3>2 DEF Memories
    <3> QED
      BY <3>3 DEF ValidateCell
  <2> QED
    BY <2>2, <2>4, <2>5, <2>6
<1> QED
  BY <1>2, <1>3

\* A field that is inserted.
LEMMA InsertedField ==
  ASSUME NEW m, MemoryInv(m, Relocatables), NatCells(m), NEW key,
         IsRel(key) => key \in Relocatables, NEW val \in Values, val \in Fields
  PROVE  NatCells(Insert(m, key, val).memory)
<1> DEFINE n == Insert(m, key, val).memory
<1>1. \A b \in Relocatables :
        Cell(n.data, b) = Cell(m.data, b) \/ (b = key /\ Cell(n.data, b) = val)
  BY InsertCells
<1>2. IsInt(val) => val.num \in Nat
  BY DEF Fields, IntValue, IsInt
<1> HIDE DEF n
<1>3. NatCells(n)
  BY <1>1, <1>2 DEF NatCells
<1> QED
  BY <1>3 DEF n

\* A vm with a memory that has grown.
LEMMA SoundMemory ==
  ASSUME NEW v, Sound(v), NEW n, MemoryInv(n, Relocatables), Len(n.data) >= Len(v.memory.data)
  PROVE  LET w == [v EXCEPT !.memory = n]
         IN  Sound(w) /\ w.memory = n /\ w.trackers = v.trackers /\ w.scopes = v.scopes
<1> DEFINE w == [v EXCEPT !.memory = n]
<1>1. w = [memory |-> n, trackers |-> v.trackers, scopes |-> v.scopes]
  BY DEF Sound
<1>2. Len(v.memory.data) \in Nat /\ Len(n.data) \in Nat
  BY LenProperties DEF Sound, MemoryInv, Memories
<1>3. \A s \in DOMAIN v.trackers : s \in Nat /\ s < Len(v.memory.data)
  BY DEF Sound
<1>4. \A s \in DOMAIN v.trackers : s < Len(n.data)
  BY <1>2, <1>3
<1> HIDE DEF w
<1> QED
  BY <1>1, <1>4 DEF w, Sound

\* The address of a field of an access.
LEMMA FieldAddress ==
  ASSUME NEW s \in Nat, NEW off \in Nat, NEW i \in Nat
  PROVE  LET a == AddUsize(RelocatableValue(s, off), i)
         IN  /\ IsRel(a.val) => a.val \in Relocatables
             /\ off + i <= UsizeMax => a = Ok(RelocatableValue(s, off + i))
<1>1. /\ RelocatableValue(s, off) # None /\ ~IsInt(RelocatableValue(s, off))
      /\ RelocatableValue(s, off).seg = s /\ RelocatableValue(s, off).off = off
  BY NoneAssumption DEF IsInt, RelocatableValue, Values, Relocatables
<1>2. UsizeMax \in Nat /\ off + i \in Nat
  BY FieldAssumption
<1> DEFINE u == Usize(off + i)
<1>3. u.err = "ok" => u.val \in Nat
  BY <1>2 DEF Usize, Ok, Err
<1>4. off + i <= UsizeMax => u = Ok(off + i)
  BY <1>2 DEF Usize
<1>5. AddUsize(RelocatableValue(s, off), i) =
        IF u.err = "ok" THEN Ok(RelocatableValue(s, u.val)) ELSE u
  BY <1>1 DEF AddUsize
<1>6. u.err # "ok" => u = Err("panic")
  BY DEF Usize, Ok, Err
<1> HIDE DEF u
<1>7. ASSUME u.err = "ok" PROVE AddUsize(RelocatableValue(s, off), i).val \in Relocatables
  BY <1>3, <1>5, <1>7 DEF Ok, RelocatableValue, Relocatables
<1>8. ASSUME u.err # "ok" PROVE AddUsize(RelocatableValue(s, off), i).val = None
  BY <1>5, <1>6, <1>8 DEF Err
<1>9. ASSUME off + i <= UsizeMax
      PROVE  AddUsize(RelocatableValue(s, off), i) = Ok(RelocatableValue(s, off + i))
  BY <1>4, <1>5, <1>9 DEF Ok
<1> QED
  BY <1>7, <1>8, <1>9 DEF IsRel

\* What dict_update leaves.
UpdateOutcome(v, r, s, key, prev, value) ==
  /\ AccessOutcome(v, r, s, key, value)
  /\ r.vm.memory = v.memory
  /\ r.err = "ok" => Current(v.trackers[s].data, key) = prev

\* dict_update: refused, it changes no map; else the key maps to new_value, and
\* mapped to prev_value.
LEMMA DictUpdateStep ==
  ASSUME NEW v, Sound(v), NEW key \in Int, NEW prev \in Int, NEW value \in Vals,
         NEW s \in Nat, NEW off \in Nat
  PROVE  UpdateOutcome(v, DictUpdate(v, IntValue(key), IntValue(prev), IntValue(value),
                                     RelocatableValue(s, off)), s, key, prev, value)
<1> DEFINE ptr     == RelocatableValue(s, off)
           k       == IntValue(key)
           w       == IntValue(prev)
           n       == IntValue(value)
           r       == DictUpdate(v, k, w, n, ptr)
           got     == Lookup(v, ptr, k)
           written == DictionaryInsert(got.dict, key, value)
           refused == WithData(v, s, got.dict, 0)
           after   == WithData(v, s, written, 1)
           now     == Current(v.trackers[s].data, key)
           d       == v.trackers[s].data
           p       == v.trackers[s].current_ptr
           q(i)    == RelocatableValue(p.seg, p.off + i * DictAccessSize)
<1>1. /\ IsInt(k) /\ k.num = key /\ IsInt(w) /\ w.num = prev /\ IsInt(n) /\ n.num = value
      /\ ptr.seg = s
  BY NoneAssumption, NumbersKnown
  DEF IntValue, IsInt, Values, Ints, RelocatableValue
<1>2. AccessError(v, {k, w, n}, ptr) =
        IF s \notin DOMAIN v.trackers THEN "NoDictTracker" ELSE "ok"
  BY <1>1, AccessRefused
<1>3. CASE s \notin DOMAIN v.trackers
  <2>1. r = Refuse(v, "NoDictTracker")
    BY <1>2, <1>3 DEF DictUpdate
  <2>2. r.vm = v /\ r.err = "NoDictTracker"
    BY <2>1 DEF Refuse, Answer
  <2> QED
    BY <2>2 DEF UpdateOutcome, AccessOutcome, SameMaps
<1>4. CASE s \in DOMAIN v.trackers
  <2>1. IsDict(d)
    BY <1>4 DEF Sound, IsTracker
  <2>2. got = DictionaryGet(d, key)
    BY <1>1 DEF Lookup
  <2>3. /\ got.val = now /\ IsDict(got.dict) /\ got.dict.default_value = d.default_value
        /\ \A j : Current(got.dict, j) = Current(d, j)
    BY <2>1, <2>2, LookedUp
  <2>4. r = IF got.val # prev THEN Refuse(refused, "WrongPrevValue")
            ELSE Answer(after, "ok", None)
    BY <1>1, <1>2, <1>4 DEF DictUpdate
  <2> HIDE DEF got
  <2>5. /\ IsDict(written) /\ written.default_value = d.default_value
        /\ \A j : Current(written, j) = IF j = key THEN value ELSE Current(d, j)
    BY <2>3, InsertedEntry
  <2> HIDE DEF r, written, refused, after, now
  <2>6. Sound(after) /\ DataPut(v, after, s, written, q(1))
    BY <1>4, <2>5, WithDataStep DEF after
  <2>7. Sound(refused) /\ DataPut(v, refused, s, got.dict, q(0))
    BY <1>4, <2>3, WithDataStep DEF refused
  <2>8. SameMaps(v, refused)
    BY <1>4, <2>3, <2>7, DataPutSame
  <2>9. PutMap(v, after, s, key, value) /\ Advanced(v, after, s)
    BY <1>4, <2>5, <2>6, DataPutKey, DataPutAdvanced
  <2>10. /\ after.memory = v.memory /\ after.scopes = v.scopes
         /\ refused.memory = v.memory /\ refused.scopes = v.scopes
    BY <2>6, <2>7 DEF DataPut
  <2>11. prev # None
    BY NumbersKnown
  <2>12. CASE got.val # prev
    <3>1. r.vm = refused /\ r.err = "WrongPrevValue"
      BY <2>4, <2>12 DEF Refuse, Answer
    <3> QED
      BY <2>7, <2>8, <2>10, <3>1 DEF UpdateOutcome, AccessOutcome, r
  <2>13. CASE got.val = prev
    <3>1. r.vm = after /\ r.err = "ok" /\ now = prev
      BY <2>3, <2>4, <2>13 DEF Answer
    <3> QED
      BY <1>4, <2>6, <2>9, <2>10, <2>11, <3>1 DEF UpdateOutcome, AccessOutcome, r, now
  <2> QED
    BY <2>12, <2>13
<1> QED
  BY <1>3, <1>4

\* What a key maps to.
LEMMA CurrentValue ==
  ASSUME NEW d, IsDict(d), NEW k
  PROVE  Current(d, k) \in Vals \union {None}
  BY DEF IsDict, Current

\* A memory that has not changed has grown.
LEMMA GrowsItself ==
  ASSUME NEW m, MemoryInv(m, Relocatables)
  PROVE  Grows(m, m)
<1>1. m.data \in Seq(Seq(Elements))
  BY DEF MemoryInv, Memories
<1>2. \A i \in 1..Len(m.data) : Len(m.data[i]) \in Nat
  BY <1>1, LenProperties, ElementOfSeq
<1> QED
  BY <1>2 DEF Grows

\* dict_write: refused, even half way, it changes no map; else the key maps to
\* new_value, and what it mapped to is in the access.
LEMMA DictWriteStep ==
  ASSUME NEW v, Sound(v), NEW key \in Int, NEW value \in Vals, NEW s \in Nat, NEW off \in Nat
  PROVE  LET r == DictWrite(v, IntValue(key), IntValue(value), RelocatableValue(s, off))
         IN  /\ AccessOutcome(v, r, s, key, value)
             /\ Grows(v.memory, r.vm.memory)
             /\ NatCells(v.memory) => NatCells(r.vm.memory)
             /\ r.err = "ok" /\ off + 1 <= UsizeMax =>
                  Cell(r.vm.memory.data, RelocatableValue(s, off + 1)) =
                    IntValue(Current(v.trackers[s].data, key))
<1> DEFINE ptr     == RelocatableValue(s, off)
           k       == IntValue(key)
           n       == IntValue(value)
           r       == DictWrite(v, k, n, ptr)
           got     == Lookup(v, ptr, k)
           after   == WithData(v, s, got.dict, 1)
           at      == AddUsize(ptr, 1).val
           i       == Insert(v.memory, at, IntValue(got.val))
           written == DictionaryInsert(got.dict, key, value)
           changed == WithData(v, s, written, 1)
           now     == Current(v.trackers[s].data, key)
           d       == v.trackers[s].data
           p       == v.trackers[s].current_ptr
           q       == RelocatableValue(p.seg, p.off + 1 * DictAccessSize)
<1>1. /\ IsInt(k) /\ k.num = key /\ IsInt(n) /\ n.num = value /\ ptr.seg = s
  BY NoneAssumption, NumbersKnown
  DEF IntValue, IsInt, Values, Ints, RelocatableValue
<1>2. AccessError(v, {k, n}, ptr) =
        IF s \notin DOMAIN v.trackers THEN "NoDictTracker" ELSE "ok"
  BY <1>1, AccessRefused
<1>3. MemoryInv(v.memory, Relocatables) /\ Grows(v.memory, v.memory)
  BY GrowsItself DEF Sound
<1>4. CASE s \notin DOMAIN v.trackers
  <2>1. r = Refuse(v, "NoDictTracker")
    BY <1>2, <1>4 DEF DictWrite
  <2>2. r.vm = v /\ r.err = "NoDictTracker"
    BY <2>1 DEF Refuse, Answer
  <2> QED
    BY <1>3, <2>2 DEF AccessOutcome, SameMaps
<1>5. CASE s \in DOMAIN v.trackers
  <2>1. IsDict(d)
    BY <1>5 DEF Sound, IsTracker
  <2>2. got = DictionaryGet(d, key)
    BY <1>1 DEF Lookup
  <2>3. /\ got.val = now /\ IsDict(got.dict) /\ got.dict.default_value = d.default_value
        /\ \A j : Current(got.dict, j) = Current(d, j)
    BY <2>1, <2>2, LookedUp
  <2>4. r = IF got.val = None THEN Refuse(after, "NoValueForKey")
            ELSE IF i.err # "ok" THEN Refuse([after EXCEPT !.memory = i.memory], i.err)
            ELSE Answer([changed EXCEPT !.memory = i.memory], "ok", None)
    BY <1>1, <1>2, <1>5 DEF DictWrite
  <2> HIDE DEF got
  <2>5. /\ IsDict(written) /\ written.default_value = d.default_value
        /\ \A j : Current(written, j) = IF j = key THEN value ELSE Current(d, j)
    BY <2>3, InsertedEntry
  <2> HIDE DEF r, written, after, changed, now, i, at
  <2>6. Sound(changed) /\ DataPut(v, changed, s, written, q)
    BY <1>5, <2>5, WithDataStep DEF changed
  <2>7. Sound(after) /\ DataPut(v, after, s, got.dict, q)
    BY <1>5, <2>3, WithDataStep DEF after
  <2>8. SameMaps(v, after)
    BY <1>5, <2>3, <2>7, DataPutSame
  <2>9. PutMap(v, changed, s, key, value) /\ Advanced(v, changed, s)
    BY <1>5, <2>5, <2>6, DataPutKey, DataPutAdvanced
  <2>10. /\ changed.memory = v.memory /\ changed.scopes = v.scopes
         /\ after.memory = v.memory /\ after.scopes = v.scopes
    BY <2>6, <2>7 DEF DataPut
  <2>11. CASE got.val = None
    <3>1. r.vm = after /\ r.err = "NoValueForKey"
      BY <2>4, <2>11 DEF Refuse, Answer
    <3> QED
      BY <1>3, <2>7, <2>8, <2>10, <3>1 DEF AccessOutcome, r
  <2>12. CASE got.val # None
    <3>1. now \in Vals /\ now # None
      BY <2>1, <2>3, <2>12, CurrentValue DEF now
    <3>2. IntValue(got.val) \in Values
      BY <2>3, <3>1, NumbersKnown DEF IntValue, Values, Ints
    <3>3. IsRel(at) => at \in Relocatables
      BY FieldAddress DEF at
    <3>4. /\ MemoryInv(i.memory, Relocatables) /\ Grows(v.memory, i.memory)
          /\ i.err = "ok" => Cell(i.memory.data, at) = IntValue(got.val)
      BY <1>3, <3>2, <3>3, InsertedCell DEF i
    <3>8. NatCells(v.memory) => NatCells(i.memory)
      <4>1. IntValue(got.val) \in Fields
        BY <2>3, <3>1, NumbersKnown DEF Fields
      <4> QED
        BY <1>3, <3>2, <3>3, <4>1, InsertedField DEF i
    <3>5. Len(i.memory.data) >= Len(v.memory.data)
      <4>1. Len(i.memory.data) = Len(v.memory.data) /\ Len(i.memory.data) \in Nat
        BY <3>4, LenProperties DEF Grows, MemoryInv, Memories
      <4> QED
        BY <4>1
    <3>6. CASE i.err # "ok"
      <4> DEFINE w == [after EXCEPT !.memory = i.memory]
      <4>1. Sound(w) /\ w.memory = i.memory /\ w.trackers = after.trackers
              /\ w.scopes = after.scopes
        BY <2>7, <2>10, <3>4, <3>5, SoundMemory
      <4>2. r.vm = w /\ r.err = i.err
        BY <2>4, <2>12, <3>6 DEF Refuse, Answer
      <4> HIDE DEF w
      <4>3. SameMaps(v, w)
        BY <2>8, <4>1 DEF SameMaps
      <4> QED
        BY <2>10, <3>4, <3>6, <3>8, <4>1, <4>2, <4>3 DEF AccessOutcome, r
    <3>7. CASE i.err = "ok"
      <4> DEFINE w == [changed EXCEPT !.memory = i.memory]
      <4>1. Sound(w) /\ w.memory = i.memory /\ w.trackers = changed.trackers
              /\ w.scopes = changed.scopes
        BY <2>6, <2>10, <3>4, <3>5, SoundMemory
      <4>2. r.vm = w /\ r.err = "ok"
        BY <2>4, <2>12, <3>7 DEF Answer
      <4> HIDE DEF w
      <4>3. PutMap(v, w, s, key, value) /\ Advanced(v, w, s)
        BY <2>9, <4>1 DEF PutMap, Advanced
      <4>4. off + 1 <= UsizeMax => at = RelocatableValue(s, off + 1)
        BY FieldAddress DEF at, Ok
      <4>5. off + 1 <= UsizeMax => Cell(w.memory.data, RelocatableValue(s, off + 1)) = IntValue(now)
        BY <2>3, <3>4, <3>7, <4>1, <4>4
      <4>6. AccessOutcome(v, r, s, key, value)
        BY <1>5, <2>10, <3>1, <4>1, <4>2, <4>3 DEF AccessOutcome, now
      <4> QED
        BY <3>4, <3>8, <4>1, <4>2, <4>5, <4>6 DEF r, now
    <3> QED
      BY <3>6, <3>7
  <2> QED
    BY <2>11, <2>12
<1> QED
  BY <1>4, <1>5

\* A memory that grows twice has grown.
LEMMA GrowsTransitive ==
  ASSUME NEW m, MemoryInv(m, Relocatables), NEW n, MemoryInv(n, Relocatables),
         NEW o, MemoryInv(o, Relocatables), Grows(m, n), Grows(n, o)
  PROVE  Grows(m, o)
<1>1. /\ m.data \in Seq(Seq(Elements)) /\ n.data \in Seq(Seq(Elements))
      /\ o.data \in Seq(Seq(Elements))
  BY DEF MemoryInv, Memories
<1>2. /\ \A i \in 1..Len(m.data) : Len(m.data[i]) \in Nat
      /\ \A i \in 1..Len(n.data) : Len(n.data[i]) \in Nat
      /\ \A i \in 1..Len(o.data) : Len(o.data[i]) \in Nat
  BY <1>1, LenProperties, ElementOfSeq
<1>3. /\ Len(n.data) = Len(m.data) /\ Len(o.data) = Len(n.data)
      /\ \A i \in 1..Len(m.data) : Len(m.data[i]) <= Len(n.data[i])
      /\ \A i \in 1..Len(n.data) : Len(n.data[i]) <= Len(o.data[i])
  BY DEF Grows
<1>4. \A i \in 1..Len(m.data) : Len(m.data[i]) <= Len(o.data[i])
  BY <1>2, <1>3
<1> QED
  BY <1>3, <1>4 DEF Grows

\* The field at off + i is asserted, in the memory a that m becomes.
FieldAsserted(m, a, s, off, i, value) ==
  /\ MemoryInv(a.memory, Relocatables) /\ Grows(m.memory, a.memory)
  /\ NatCells(m.memory) => NatCells(a.memory)
  /\ m.err # "ok" => a.err = m.err
  /\ a.err = "ok" =>
       /\ m.err = "ok"
       /\ value # None /\ off + i <= UsizeMax =>
            Cell(a.memory.data, RelocatableValue(s, off + i)) = value

\* A field that the library asserts.
LEMMA AssertedFieldStep ==
  ASSUME NEW m, MemoryInv(m.memory, Relocatables), NEW s \in Nat, NEW off \in Nat,
         NEW i \in Nat, NEW value \in Elements, value \in Fields
  PROVE  FieldAsserted(m, AssertedField(m, RelocatableValue(s, off), i, value), s, off, i, value)
<1> DEFINE a  == AssertedField(m, RelocatableValue(s, off), i, value)
           at == AddUsize(RelocatableValue(s, off), i).val
           j  == Insert(m.memory, at, value)
<1>1. CASE m.err # "ok" \/ value = None
  BY <1>1, GrowsItself DEF AssertedField, FieldAsserted
<1>2. CASE ~(m.err # "ok" \/ value = None)
  <2>1. value \in Values
    BY <1>2 DEF Elements
  <2>2. /\ IsRel(at) => at \in Relocatables
        /\ off + i <= UsizeMax => at = RelocatableValue(s, off + i)
    BY FieldAddress DEF Ok
  <2> HIDE DEF at
  <2>3. /\ MemoryInv(j.memory, Relocatables) /\ Grows(m.memory, j.memory)
        /\ j.err = "ok" => Cell(j.memory.data, at) = value
    BY <2>1, <2>2, InsertedCell
  <2>5. NatCells(m.memory) => NatCells(j.memory)
    BY <2>1, <2>2, InsertedField
  <2>4. a = j
    BY <1>2 DEF AssertedField, at
  <2> HIDE DEF a, j
  <2> QED
    BY <1>2, <2>2, <2>3, <2>4, <2>5 DEF a, FieldAsserted
<1> QED
  BY <1>1, <1>2

\* The i-th field of the access at off, from 1, is what is asserted of it.
FieldIs(data, s, off, i, value) ==
  value # None => Cell(data, RelocatableValue(s, off + (i - 1))) = value

\* a is what the assertions of three fields make of the outcome r of a hint.
FieldsAsserted(r, a, s, off, x, y, z) ==
  /\ Sound(a.vm) /\ Grows(r.vm.memory, a.vm.memory)
  /\ NatCells(r.vm.memory) => NatCells(a.vm.memory)
  /\ a.vm.trackers = r.vm.trackers /\ a.vm.scopes = r.vm.scopes
  /\ r.err # "ok" => a.err = r.err
  /\ a.err = "ok" => r.err = "ok"
  /\ a.err = "ok" /\ off + 2 <= UsizeMax =>
       /\ FieldIs(a.vm.memory.data, s, off, 1, x)
       /\ FieldIs(a.vm.memory.data, s, off, 2, y)
       /\ FieldIs(a.vm.memory.data, s, off, 3, z)

\* The fields of an access that the library asserts.
LEMMA AssertedStep ==
  ASSUME NEW r, Sound(r.vm), NEW s \in Nat, NEW off \in Nat,
         NEW x \in Elements, NEW y \in Elements, NEW z \in Elements, {x, y, z} \subseteq Fields
  PROVE  FieldsAsserted(r, Asserted(r, RelocatableValue(s, off), <<x, y, z>>), s, off, x, y, z)
<1> DEFINE ptr == RelocatableValue(s, off)
           m0  == [memory |-> r.vm.memory, err |-> r.err]
           m1  == AssertedField(m0, ptr, 0, x)
           m2  == AssertedField(m1, ptr, 1, y)
           m3  == AssertedField(m2, ptr, 2, z)
           a   == Asserted(r, ptr, <<x, y, z>>)
           w   == [r.vm EXCEPT !.memory = m3.memory]
<1>1. a = Answer(w, m3.err, r.val)
  BY DEF Asserted
<1> HIDE DEF m0, m1, m2, m3, a
<1>3. m0.memory = r.vm.memory /\ m0.err = r.err
  BY DEF m0
<1>2. MemoryInv(m0.memory, Relocatables)
  BY <1>3 DEF Sound
<1>12. x \in Fields /\ y \in Fields /\ z \in Fields
  OBVIOUS
<1>21. FieldAsserted(m0, m1, s, off, 0, x)
  BY <1>2, <1>12, AssertedFieldStep DEF m1
<1>4. /\ MemoryInv(m1.memory, Relocatables) /\ Grows(m0.memory, m1.memory)
      /\ NatCells(m0.memory) => NatCells(m1.memory)
      /\ m0.err # "ok" => m1.err = m0.err
      /\ m1.err = "ok" =>
           /\ m0.err = "ok"
           /\ x # None /\ off + 0 <= UsizeMax =>
                Cell(m1.memory.data, RelocatableValue(s, off + 0)) = x
  BY <1>21 DEF FieldAsserted
<1>22. FieldAsserted(m1, m2, s, off, 1, y)
  BY <1>4, <1>12, AssertedFieldStep DEF m2
<1>5. /\ MemoryInv(m2.memory, Relocatables) /\ Grows(m1.memory, m2.memory)
      /\ NatCells(m1.memory) => NatCells(m2.memory)
      /\ m1.err # "ok" => m2.err = m1.err
      /\ m2.err = "ok" =>
           /\ m1.err = "ok"
           /\ y # None /\ off + 1 <= UsizeMax =>
                Cell(m2.memory.data, RelocatableValue(s, off + 1)) = y
  BY <1>22 DEF FieldAsserted
<1>23. FieldAsserted(m2, m3, s, off, 2, z)
  BY <1>5, <1>12, AssertedFieldStep DEF m3
<1>6. /\ MemoryInv(m3.memory, Relocatables) /\ Grows(m2.memory, m3.memory)
      /\ NatCells(m2.memory) => NatCells(m3.memory)
      /\ m2.err # "ok" => m3.err = m2.err
      /\ m3.err = "ok" =>
           /\ m2.err = "ok"
           /\ z # None /\ off + 2 <= UsizeMax =>
                Cell(m3.memory.data, RelocatableValue(s, off + 2)) = z
  BY <1>23 DEF FieldAsserted
<1>7. Grows(m1.memory, m3.memory) /\ Grows(m0.memory, m3.memory)
  BY <1>2, <1>4, <1>5, <1>6, GrowsTransitive
<1>8. Len(m3.memory.data) = Len(r.vm.memory.data) /\ Len(m3.memory.data) \in Nat
  BY <1>3, <1>6, <1>7, LenProperties DEF Grows, MemoryInv, Memories
<1>9. /\ Sound(w) /\ w.memory = m3.memory
      /\ w.trackers = r.vm.trackers /\ w.scopes = r.vm.scopes
  BY <1>6, <1>8, SoundMemory
<1> HIDE DEF w
<1>10. a.vm = w /\ a.err = m3.err
  BY <1>1 DEF Answer
<1>11. ASSUME a.err = "ok", off + 2 <= UsizeMax
       PROVE  /\ FieldIs(w.memory.data, s, off, 1, x)
              /\ FieldIs(w.memory.data, s, off, 2, y)
              /\ FieldIs(w.memory.data, s, off, 3, z)
  <2>1. off + 0 <= UsizeMax /\ off + 1 <= UsizeMax
    BY <1>11, FieldAssumption
  <2>2. /\ RelocatableValue(s, off + 0) \in Relocatables
        /\ RelocatableValue(s, off + 1) \in Relocatables
    BY DEF RelocatableValue, Relocatables
  <2>3. x # None => Cell(m3.memory.data, RelocatableValue(s, off + 0)) = x
    BY <1>4, <1>5, <1>6, <1>7, <1>10, <1>11, <2>1, <2>2 DEF Grows
  <2>4. y # None => Cell(m3.memory.data, RelocatableValue(s, off + 1)) = y
    BY <1>5, <1>6, <1>10, <1>11, <2>1, <2>2 DEF Grows
  <2>5. z # None => Cell(m3.memory.data, RelocatableValue(s, off + 2)) = z
    BY <1>6, <1>10, <1>11
  <2>6. off + (1 - 1) = off + 0 /\ off + (2 - 1) = off + 1 /\ off + (3 - 1) = off + 2
    OBVIOUS
  <2> QED
    BY <1>9, <2>3, <2>4, <2>5, <2>6 DEF FieldIs
<1> QED
  BY <1>3, <1>4, <1>5, <1>6, <1>7, <1>9, <1>10, <1>11 DEF a, FieldsAsserted

-----------------------------------------------------------------------------
(* New dictionaries.                                                       *)

\* w is v with a dictionary d in a new segment.
Created(v, w, d) ==
  LET n == Len(v.memory.data)
  IN  /\ n \in Nat /\ n \notin DOMAIN v.trackers
      /\ DOMAIN w.trackers = DOMAIN v.trackers \union {n}
      /\ w.trackers[n] = [data |-> d, current_ptr |-> RelocatableValue(n, 0)]
      /\ \A s \in DOMAIN v.trackers : w.trackers[s] = v.trackers[s]

\* Every cell of v is as it was in w.
SameCells(v, w) ==
  \A b \in Relocatables : Cell(w.memory.data, b) = Cell(v.memory.data, b)

\* new_dict and new_default_dict.
NewTrackerOutcome(v, r, d) ==
  /\ Sound(r.vm) /\ r.vm.scopes = v.scopes /\ SameCells(v, r.vm)
  /\ r.err # "ok" => r.vm.trackers = v.trackers
  /\ r.err = "ok" => Created(v, r.vm, d) /\ r.vm.memory = WithNewSegment(v.memory)

\* A segment, and a tracker for it.
LEMMA NewTrackerStep ==
  ASSUME NEW v, Sound(v), NEW d, IsDict(d)
  PROVE  NewTrackerOutcome(v, NewTracker(v, d), d)
<1> DEFINE n     == Len(v.memory.data)
           base  == RelocatableValue(n, 0)
           added == [v EXCEPT !.memory = WithNewSegment(@)]
           m     == WithNewSegment(v.memory)
           t     == [data |-> d, current_ptr |-> base]
           r     == NewTracker(v, d)
           w     == [added EXCEPT !.trackers = Put(@, n, t)]
<1>1. /\ v = [memory |-> v.memory, trackers |-> v.trackers, scopes |-> v.scopes]
      /\ MemoryInv(v.memory, Relocatables)
  BY DEF Sound
<1>2. /\ MemoryInv(m, Relocatables) /\ Len(m.data) = n + 1
      /\ \A b \in Relocatables : Cell(m.data, b) = Cell(v.memory.data, b)
  BY <1>1, NewSegmentStep
<1>3. n \in Nat
  BY <1>1, LenProperties DEF MemoryInv, Memories
<1>4. base.seg = n
  BY DEF RelocatableValue
<1>5. added = [v EXCEPT !.memory = m]
  BY <1>1
<1> HIDE DEF m, added
<1>6. /\ Sound(added) /\ added.memory = m /\ added.trackers = v.trackers
      /\ added.scopes = v.scopes
  <2>1. Len(m.data) >= Len(v.memory.data)
    BY <1>2, <1>3
  <2> QED
    BY <1>2, <1>5, <2>1, SoundMemory
<1>7. r = IF n \in DOMAIN v.trackers THEN Refuse(added, "CantCreateDictionaryOnTakenSegment")
          ELSE Answer(w, "ok", base)
  <2> DEFINE x == [added EXCEPT !.trackers = Put(@, base.seg, t)]
  <2>1. r = IF base.seg \in DOMAIN v.trackers
            THEN Refuse(added, "CantCreateDictionaryOnTakenSegment")
            ELSE Answer(x, "ok", base)
    BY DEF NewTracker, added, m
  <2>2. x = w
    BY <1>4
  <2> HIDE DEF x, w
  <2> QED
    BY <1>4, <2>1, <2>2
<1>8. w = [memory |-> m, trackers |-> Put(v.trackers, n, t), scopes |-> v.scopes]
  BY <1>6 DEF Sound
<1>9. IsTracker(t)
  BY DEF IsTracker, RelocatableValue
<1> HIDE DEF t, r, w
<1>10. CASE n \in DOMAIN v.trackers
  <2>1. r.vm = added /\ r.err = "CantCreateDictionaryOnTakenSegment"
    BY <1>7, <1>10 DEF Refuse, Answer
  <2> QED
    BY <1>2, <1>6, <2>1 DEF NewTrackerOutcome, SameCells, r
<1>11. CASE n \notin DOMAIN v.trackers
  <2>1. r.vm = w /\ r.err = "ok"
    BY <1>7, <1>11 DEF Answer
  <2>2. /\ DOMAIN w.trackers = DOMAIN v.trackers \union {n} /\ w.trackers[n] = t
        /\ \A s \in DOMAIN v.trackers : w.trackers[s] = v.trackers[s]
    BY <1>8, <1>11 DEF Put
  <2>3. w.trackers = [s \in DOMAIN w.trackers |-> w.trackers[s]]
    BY <1>8 DEF Put
  <2>4. \A s \in DOMAIN v.trackers : s \in Nat /\ s < n /\ IsTracker(v.trackers[s])
    BY DEF Sound
  <2>5. \A s \in DOMAIN w.trackers : s \in Nat /\ s < Len(w.memory.data)
    BY <1>2, <1>3, <1>8, <2>2, <2>4
  <2>6. Sound(w)
    BY <1>2, <1>8, <1>9, <2>2, <2>3, <2>4, <2>5 DEF Sound
  <2>7. Created(v, w, d)
    BY <1>3, <1>11, <2>2 DEF Created, t
  <2>8. w.scopes = v.scopes /\ SameCells(v, w) /\ w.memory = m
    BY <1>2, <1>8 DEF SameCells
  <2> QED
    BY <2>1, <2>6, <2>7, <2>8 DEF NewTrackerOutcome, r, m
<1> QED
  BY <1>10, <1>11

-----------------------------------------------------------------------------
(* Scopes: the caller's, and one inside of it during a squash.             *)

OneScope(v)  == v.scopes = <<v.scopes[1]>>
\* The main scope and the one inside of it.
TwoScopes(v) == v.scopes = <<v.scopes[1], v.scopes[2]>>

\* A hint of the squash leaves w of v: only variables of the inner scope differ.
InnerStep(v, w) ==
  /\ w = [memory |-> v.memory, trackers |-> v.trackers, scopes |-> w.scopes]
  /\ TwoScopes(w) /\ w.scopes[1] = v.scopes[1]

\* A vm is its three fields.
Record(v) == v = [memory |-> v.memory, trackers |-> v.trackers, scopes |-> v.scopes]

\* A hint may leave the variables alone.
LEMMA InnerItself ==
  ASSUME NEW v, Record(v), TwoScopes(v)
  PROVE  InnerStep(v, v)
  BY DEF Record, InnerStep

\* The variables are those of the inner scope.
LEMMA AssignInner ==
  ASSUME NEW v, NEW w, InnerStep(v, w), NEW name, NEW value
  PROVE  InnerStep(v, AssignVariable(w, name, value))
<1> DEFINE a == w.scopes[1]
           b == w.scopes[2]
           c == Put(b, name, value)
           x == AssignVariable(w, name, value)
<1>1. /\ w = [memory |-> v.memory, trackers |-> v.trackers, scopes |-> w.scopes]
      /\ w.scopes = <<a, b>> /\ a = v.scopes[1]
  BY DEF InnerStep, TwoScopes
<1>2. Len(w.scopes) = 2
  BY <1>1
<1>3. x = [memory |-> v.memory, trackers |-> v.trackers,
           scopes |-> [w.scopes EXCEPT ![2] = c]]
  BY <1>1, <1>2 DEF AssignVariable
<1> HIDE DEF a, b, c, x
<1>4. [<<a, b>> EXCEPT ![2] = c] = <<a, c>>
  OBVIOUS
<1>5. x = [memory |-> v.memory, trackers |-> v.trackers, scopes |-> <<a, c>>]
  BY <1>1, <1>3, <1>4
<1>6. x.scopes = <<a, c>> /\ x.scopes[1] = a /\ x.scopes[2] = c
  BY <1>5
<1> QED
  BY <1>1, <1>5, <1>6 DEF InnerStep, TwoScopes, x

\* Entering a scope.
LEMMA EnterStep ==
  ASSUME NEW v, Record(v), OneScope(v)
  PROVE  InnerStep(v, EnterScope(v))
<1> DEFINE a == v.scopes[1]
           w == EnterScope(v)
           b == << >>
<1>1. Append(<<a>>, b) = <<a, b>>
  <2> HIDE DEF a, b
  <2>1. /\ <<a>> \in Seq({a, b}) /\ Len(<<a>>) = 1 /\ <<a>>[1] = a
        /\ <<a, b>> \in Seq({a, b}) /\ Len(<<a, b>>) = 2 /\ <<a, b>>[1] = a /\ <<a, b>>[2] = b
    OBVIOUS
  <2> DEFINE s == Append(<<a>>, b)
  <2>2. s \in Seq({a, b}) /\ Len(s) = 2 /\ s[1] = a /\ s[2] = b
    BY <2>1, AppendProperties
  <2> HIDE DEF s
  <2>3. \A i \in 1..Len(s) : s[i] = <<a, b>>[i]
    BY <2>1, <2>2
  <2>4. s = <<a, b>>
    BY <2>1, <2>2, <2>3, SeqEqual
  <2> QED
    BY <2>4 DEF s
<1>2. w = [memory |-> v.memory, trackers |-> v.trackers, scopes |-> Append(v.scopes, << >>)]
  BY DEF EnterScope, Record
<1>3. w = [memory |-> v.memory, trackers |-> v.trackers, scopes |-> <<a, << >> >>]
  BY <1>1, <1>2 DEF OneScope
<1>4. w.scopes = <<a, << >> >> /\ w.scopes[1] = a /\ w.scopes[2] = << >>
  BY <1>3
<1> HIDE DEF w
<1> QED
  BY <1>3, <1>4 DEF InnerStep, TwoScopes, w

\* Leaving it.
LEMMA ExitStep ==
  ASSUME NEW v, Record(v), TwoScopes(v)
  PROVE  LET r == ExitScope(v)
         IN  /\ r.err = "ok"
             /\ r.vm = [memory |-> v.memory, trackers |-> v.trackers, scopes |-> <<v.scopes[1]>>]
<1> DEFINE a == v.scopes[1]
           b == v.scopes[2]
<1>1. v.scopes = <<a, b>>
  BY DEF TwoScopes
<1> HIDE DEF a, b
<1>2. Len(v.scopes) = 2
  BY <1>1
<1>3. SubSeq(<<a, b>>, 1, 1) = <<a>>
  <2>1. <<a, b>> \in Seq({a, b}) /\ Len(<<a, b>>) = 2
    OBVIOUS
  <2> DEFINE s == SubSeq(<<a, b>>, 1, 1)
  <2>2. s \in Seq({a, b}) /\ Len(s) = 1 /\ s[1] = a
    BY <2>1, SubSeqProperties
  <2>3. <<a>> \in Seq({a, b}) /\ Len(<<a>>) = 1 /\ <<a>>[1] = a
    OBVIOUS
  <2> HIDE DEF s
  <2>4. \A i \in 1..Len(s) : s[i] = <<a>>[i]
    BY <2>2, <2>3
  <2>5. s = <<a>>
    BY <2>2, <2>3, <2>4, SeqEqual
  <2> QED
    BY <2>5 DEF s
<1>4. Front(v.scopes) = <<a>>
  BY <1>1, <1>2, <1>3 DEF Front
<1>5. ExitScope(v) = Answer([v EXCEPT !.scopes = Front(@)], "ok", None)
  BY <1>2 DEF ExitScope
<1>6. [v EXCEPT !.scopes = Front(@)] =
        [memory |-> v.memory, trackers |-> v.trackers, scopes |-> <<a>>]
  BY <1>4 DEF Record
<1> QED
  BY <1>5, <1>6 DEF Answer, a

\* A hint that needs variables: refused without them, it leaves v as it is.
LEMMA WithVariablesStep ==
  ASSUME NEW v, Record(v), TwoScopes(v), NEW names, NEW r, InnerStep(v, r.vm)
  PROVE  InnerStep(v, WithVariables(v, names, r).vm)
<1>1. InnerStep(v, Refuse(v, "NoLocalVariable").vm)
  BY InnerItself DEF Refuse, Answer
<1> QED
  BY <1>1 DEF WithVariables

\* The hints that assign variables.
LEMMA FirstGuessesStep ==
  ASSUME NEW v, Record(v), TwoScopes(v), NEW indices, NEW keys
  PROVE  InnerStep(v, FirstGuesses(v, indices, keys).vm)
<1> DEFINE x == AssignVariable(v, "access_indices", indices)
           y == AssignVariable(x, "keys", Front(keys))
           z == AssignVariable(y, "key", Last(keys))
<1>1. InnerStep(v, v)
  BY InnerItself
<1>2. InnerStep(v, x)
  BY <1>1, AssignInner
<1>3. InnerStep(v, y)
  BY <1>2, AssignInner
<1>4. InnerStep(v, z)
  BY <1>3, AssignInner
<1>5. FirstGuesses(v, indices, keys).vm \in {v, z}
  BY DEF FirstGuesses, Refuse, Answer
<1> QED
  BY <1>1, <1>4, <1>5

\* The accesses of a key wait in variables of the inner scope.
LEMMA FirstAccessStep ==
  ASSUME NEW v, Record(v), TwoScopes(v), NEW sorted
  PROVE  InnerStep(v, FirstAccess(v, sorted).vm)
<1> DEFINE x == AssignVariable(v, "current_access_indices", Front(sorted))
           y == AssignVariable(x, "current_access_index", Last(sorted))
<1>1. InnerStep(v, v)
  BY InnerItself
<1>2. InnerStep(v, x)
  BY <1>1, AssignInner
<1>3. InnerStep(v, y)
  BY <1>2, AssignInner
<1>4. FirstAccess(v, sorted).vm \in {v, y}
  BY DEF FirstAccess, Refuse, Answer
<1> QED
  BY <1>1, <1>3, <1>4

\* The next of them is taken from there.
LEMMA NextAccessStep ==
  ASSUME NEW v, Record(v), TwoScopes(v), NEW indices, NEW current
  PROVE  InnerStep(v, NextAccess(v, indices, current).vm)
<1> DEFINE x == AssignVariable(v, "new_access_index", Last(indices))
           y == AssignVariable(x, "current_access_indices", Front(indices))
           z == AssignVariable(y, "current_access_index", Last(indices))
<1>1. InnerStep(v, v)
  BY InnerItself
<1>2. InnerStep(v, x)
  BY <1>1, AssignInner
<1>3. InnerStep(v, y)
  BY <1>2, AssignInner
<1>4. InnerStep(v, z)
  BY <1>3, AssignInner
<1>5. NextAccess(v, indices, current).vm \in {v, z}
  BY DEF NextAccess, Refuse, Answer
<1> QED
  BY <1>1, <1>4, <1>5

\* So is the next key.
LEMMA NextKeyStep ==
  ASSUME NEW v, Record(v), TwoScopes(v)
  PROVE  InnerStep(v, NextKey(v).vm)
<1> DEFINE keys == Local(v, "keys")
           x    == AssignVariable(v, "keys", Front(keys))
           y    == AssignVariable(x, "key", Last(keys))
           r    == IF keys = << >> THEN Refuse(v, "EmptyKeys") ELSE Answer(y, "ok", Last(keys))
<1>1. InnerStep(v, v)
  BY InnerItself
<1>2. InnerStep(v, x)
  BY <1>1, AssignInner
<1>3. InnerStep(v, y)
  BY <1>2, AssignInner
<1>4. r.vm \in {v, y}
  BY DEF Refuse, Answer
<1>5. NextKey(v) = WithVariables(v, {"keys"}, r)
  BY DEF NextKey
<1> HIDE DEF r
<1>6. InnerStep(v, r.vm)
  BY <1>1, <1>3, <1>4
<1> QED
  BY <1>5, <1>6, WithVariablesStep

\* Every hint of a squash leaves all but the variables of the inner scope as
\* they were, whether it is refused or not.
LEMMA SquashHintStep ==
  ASSUME NEW v, Record(v), TwoScopes(v)
  PROVE  /\ InnerStep(v, FirstIteration(v).vm)
         /\ InnerStep(v, SkipLoop(v).vm)
         /\ InnerStep(v, CheckAccessIndex(v).vm)
         /\ InnerStep(v, ContinueLoop(v).vm)
         /\ InnerStep(v, LenAssert(v).vm)
         /\ \A n : InnerStep(v, UsedAccessesAssert(v, n).vm)
         /\ InnerStep(v, AssertLenKeys(v).vm)
         /\ InnerStep(v, NextKey(v).vm)
         /\ \A address, diff, n : InnerStep(v, SquashDict(v, address, diff, n).vm)
<1> DEFINE Leaves(r) == InnerStep(v, r.vm)
<1>1. \A err : Leaves(Refuse(v, err))
  BY InnerItself DEF Refuse, Answer
<1>2. \A val : Leaves(Answer(v, "ok", val))
  BY InnerItself DEF Answer
<1>3. \A sorted : Leaves(FirstAccess(v, sorted))
  BY FirstAccessStep
<1>4. \A indices, current : Leaves(NextAccess(v, indices, current))
  BY NextAccessStep
<1>5. \A indices, keys : Leaves(FirstGuesses(v, indices, keys))
  BY FirstGuessesStep
<1>6. \A names, r : Leaves(r) => Leaves(WithVariables(v, names, r))
  BY WithVariablesStep
<1> HIDE DEF Leaves
<1>7. Leaves(FirstIteration(v))
  BY <1>1, <1>3, <1>6 DEF FirstIteration
<1>8. Leaves(SkipLoop(v)) /\ Leaves(ContinueLoop(v))
  BY <1>2, <1>6 DEF SkipLoop, ContinueLoop
<1>9. Leaves(CheckAccessIndex(v))
  BY <1>4, <1>6 DEF CheckAccessIndex
<1>10. Leaves(LenAssert(v)) /\ Leaves(AssertLenKeys(v))
  BY <1>1, <1>2, <1>6 DEF LenAssert, AssertLenKeys
<1>11. \A n : Leaves(UsedAccessesAssert(v, n))
  BY <1>1, <1>2, <1>6 DEF UsedAccessesAssert
<1>12. \A address, diff, n : Leaves(SquashDict(v, address, diff, n))
  BY <1>1, <1>5 DEF SquashDict
<1>13. Leaves(NextKey(v))
  BY NextKeyStep DEF Leaves
<1> QED
  BY <1>7, <1>8, <1>9, <1>10, <1>11, <1>12, <1>13 DEF Leaves

-----------------------------------------------------------------------------
(* An access: the hint and what the library asserts after it.              *)

\* The access at off is of a key, from one value to another.
Logged(data, s, off, key, prev, value) ==
  /\ Cell(data, RelocatableValue(s, off)) = IntValue(key)
  /\ Cell(data, RelocatableValue(s, off + 1)) = IntValue(prev)
  /\ Cell(data, RelocatableValue(s, off + 2)) = IntValue(value)

\* w is v after an access at off, that set a key of the map at s to value; it
\* may have failed before or after the map has changed.
AccessDone(v, w, err, s, off, key, value) ==
  /\ Sound(w) /\ w.scopes = v.scopes /\ Grows(v.memory, w.memory)
  /\ NatCells(v.memory) => NatCells(w.memory)
  /\ ~SameMaps(v, w) =>
       /\ s \in DOMAIN v.trackers
       /\ Current(v.trackers[s].data, key) # None
       /\ PutMap(v, w, s, key, value)
  /\ err = "ok" =>
       /\ s \in DOMAIN v.trackers
       /\ Current(v.trackers[s].data, key) # None
       /\ PutMap(v, w, s, key, value)
       /\ Advanced(v, w, s)
       /\ off + 2 <= UsizeMax =>
            Logged(w.memory.data, s, off, key, Current(v.trackers[s].data, key), value)

\* An integer in a cell.
LEMMA IntValueKnown ==
  ASSUME NEW n \in Int
  PROVE  IntValue(n) \in Values /\ IntValue(n) # None /\ IntValue(n).num = n
  BY NoneAssumption DEF IntValue, Values, Ints

\* The assertions after a hint.  What the hint has written itself is in the
\* memory already.
LEMMA AssertedDone ==
  ASSUME NEW v, Sound(v), NEW r, NEW s \in Nat, NEW off \in Nat, NEW key \in Int,
         NEW value \in Vals \union {None}, AccessOutcome(v, r, s, key, value), Grows(v.memory, r.vm.memory),
         NatCells(v.memory) => NatCells(r.vm.memory),
         NEW x \in Elements, NEW y \in Elements, NEW z \in Elements, {x, y, z} \subseteq Fields,
         r.err = "ok" =>
           /\ x = IntValue(key) /\ value # None /\ z = IntValue(value)
           /\ \/ y = IntValue(Current(v.trackers[s].data, key))
              \/ /\ y = None
                 /\ off + 1 <= UsizeMax =>
                      Cell(r.vm.memory.data, RelocatableValue(s, off + 1)) =
                        IntValue(Current(v.trackers[s].data, key))
  PROVE  LET a == Asserted(r, RelocatableValue(s, off), <<x, y, z>>)
         IN  AccessDone(v, a.vm, a.err, s, off, key, value)
<1> DEFINE a   == Asserted(r, RelocatableValue(s, off), <<x, y, z>>)
           now == Current(v.trackers[s].data, key)
<1>1. Sound(r.vm) /\ r.vm.scopes = v.scopes
  BY DEF AccessOutcome
<1>2. /\ Sound(a.vm) /\ Grows(r.vm.memory, a.vm.memory)
      /\ NatCells(r.vm.memory) => NatCells(a.vm.memory)
      /\ a.vm.trackers = r.vm.trackers /\ a.vm.scopes = r.vm.scopes
      /\ r.err # "ok" => a.err = r.err
      /\ a.err = "ok" => r.err = "ok"
      /\ a.err = "ok" /\ off + 2 <= UsizeMax =>
           /\ FieldIs(a.vm.memory.data, s, off, 1, x)
           /\ FieldIs(a.vm.memory.data, s, off, 2, y)
           /\ FieldIs(a.vm.memory.data, s, off, 3, z)
  BY <1>1, AssertedStep DEF FieldsAsserted
<1> HIDE DEF a
<1>3. Grows(v.memory, a.vm.memory)
  BY <1>1, <1>2, GrowsTransitive DEF Sound
<1>4. SameMaps(v, r.vm) => SameMaps(v, a.vm)
  BY <1>2 DEF SameMaps
<1>5. /\ PutMap(v, r.vm, s, key, value) => PutMap(v, a.vm, s, key, value)
      /\ Advanced(v, r.vm, s) => Advanced(v, a.vm, s)
  BY <1>2 DEF PutMap, Advanced
<1>6. r.err = "ok" => /\ s \in DOMAIN v.trackers /\ now # None
                      /\ PutMap(v, r.vm, s, key, value) /\ Advanced(v, r.vm, s)
  BY DEF AccessOutcome
<1>7. r.err # "ok" => SameMaps(v, r.vm)
  BY DEF AccessOutcome
<1>8. ASSUME a.err = "ok", off + 2 <= UsizeMax
      PROVE  Logged(a.vm.memory.data, s, off, key, now, value)
  <2>1. /\ r.err = "ok" /\ x = IntValue(key) /\ value # None /\ z = IntValue(value)
        /\ \/ y = IntValue(now)
           \/ /\ y = None
              /\ off + 1 <= UsizeMax =>
                   Cell(r.vm.memory.data, RelocatableValue(s, off + 1)) = IntValue(now)
    BY <1>2, <1>8
  <2>2. x # None /\ z # None /\ IntValue(now) # None
    <3>1. IsDict(v.trackers[s].data)
      BY <1>6, <2>1 DEF Sound, IsTracker
    <3>2. now \in Int
      BY <1>6, <2>1, <3>1, CurrentValue, NumbersKnown
    <3> HIDE DEF now
    <3> QED
      BY <2>1, <3>2, IntValueKnown, NumbersKnown
  <2>3. off + 1 <= UsizeMax
    BY <1>8, FieldAssumption
  <2>4. off + (1 - 1) = off /\ off + (2 - 1) = off + 1 /\ off + (3 - 1) = off + 2
    OBVIOUS
  <2>5. /\ Cell(a.vm.memory.data, RelocatableValue(s, off)) = x
        /\ Cell(a.vm.memory.data, RelocatableValue(s, off + 2)) = z
    BY <1>2, <1>8, <2>2, <2>4 DEF FieldIs
  <2>6. Cell(a.vm.memory.data, RelocatableValue(s, off + 1)) = IntValue(now)
    <3>1. CASE y = IntValue(now)
      BY <1>2, <1>8, <2>2, <2>4, <3>1 DEF FieldIs
    <3>2. CASE y = None /\ (off + 1 <= UsizeMax =>
                 Cell(r.vm.memory.data, RelocatableValue(s, off + 1)) = IntValue(now))
      <4>1. RelocatableValue(s, off + 1) \in Relocatables
        BY DEF RelocatableValue, Relocatables
      <4> HIDE DEF now
      <4> QED
        BY <1>2, <2>2, <2>3, <3>2, <4>1 DEF Grows
    <3> QED
      BY <2>1, <3>1, <3>2
  <2> QED
    BY <2>1, <2>5, <2>6 DEF Logged
<1> QED
  BY <1>1, <1>2, <1>3, <1>4, <1>5, <1>6, <1>7, <1>8 DEF AccessDone, a

\* dict_read and its assertions.
LEMMA ReadDone ==
  ASSUME NEW v, Sound(v), NEW key \in Nat, NEW s \in Nat, NEW off \in Nat
  PROVE  LET r     == DictRead(v, IntValue(key), RelocatableValue(s, off))
             a     == Asserted(r, RelocatableValue(s, off), <<IntValue(key), r.val, r.val>>)
             value == Current(v.trackers[s].data, key)
         IN  /\ AccessDone(v, a.vm, a.err, s, off, key, value)
             /\ a.err = "ok" => r.val = IntValue(value)
<1> DEFINE r     == DictRead(v, IntValue(key), RelocatableValue(s, off))
           x     == IntValue(key)
           y     == IF r.err = "ok" THEN r.val ELSE None
           a     == Asserted(r, RelocatableValue(s, off), <<x, r.val, r.val>>)
           value == Current(v.trackers[s].data, key)
           nowhere == s \notin DOMAIN v.trackers
<1>1. /\ AccessOutcome(v, r, s, key, value) /\ r.vm.memory = v.memory
      /\ r.err = "ok" => r.val = IntValue(value)
  BY DictReadStep
<1>2. Grows(v.memory, r.vm.memory)
  BY <1>1, GrowsItself DEF Sound
<1>3. x \in Elements
  BY IntValueKnown DEF Elements
<1>4. r.err = "ok" => /\ s \in DOMAIN v.trackers /\ value # None /\ value \in Vals
  <2>1. r.err = "ok" => s \in DOMAIN v.trackers /\ value # None
    BY <1>1 DEF AccessOutcome
  <2>2. s \in DOMAIN v.trackers => value \in Vals \union {None}
    BY CurrentValue DEF Sound, IsTracker
  <2> QED
    BY <2>1, <2>2
<1>5. r.err # "ok" => r.val = None
  BY DEF DictRead, Refuse, Answer
<1> HIDE DEF r, value
<1>6. r.val \in Elements
  BY <1>1, <1>4, <1>5, IntValueKnown, NumbersKnown DEF Elements
<1>11. x \in Fields /\ r.val \in Fields
  BY <1>1, <1>4, <1>5, NumbersKnown DEF Fields
<1>7. Sound(r.vm)
  BY <1>1 DEF AccessOutcome
<1>8. FieldsAsserted(r, a, s, off, x, r.val, r.val)
  BY <1>3, <1>6, <1>7, <1>11, AssertedStep
<1> HIDE DEF a
<1>9. CASE r.err = "ok"
  <2>1. AccessDone(v, a.vm, a.err, s, off, key, value)
    BY <1>1, <1>2, <1>3, <1>4, <1>6, <1>9, <1>11, AssertedDone DEF a, value
  <2> QED
    BY <1>1, <1>9, <2>1 DEF a, r, value
<1>10. CASE r.err # "ok"
  <2>1. /\ Sound(a.vm) /\ Grows(r.vm.memory, a.vm.memory)
        /\ NatCells(r.vm.memory) => NatCells(a.vm.memory)
        /\ a.vm.trackers = r.vm.trackers /\ a.vm.scopes = r.vm.scopes
        /\ a.err # "ok"
    BY <1>8, <1>10 DEF FieldsAsserted
  <2>2. SameMaps(v, r.vm) /\ r.vm.scopes = v.scopes
    BY <1>1, <1>10 DEF AccessOutcome
  <2>3. SameMaps(v, a.vm)
    BY <2>1, <2>2 DEF SameMaps
  <2>4. Grows(v.memory, a.vm.memory)
    BY <1>1, <2>1
  <2> QED
    BY <1>1, <2>1, <2>2, <2>3, <2>4 DEF AccessDone, a, r, value
<1> QED
  BY <1>9, <1>10

\* dict_write and its assertions.
LEMMA WriteDone ==
  ASSUME NEW v, Sound(v), NEW key \in Nat, NEW value \in Vals, NEW s \in Nat, NEW off \in Nat
  PROVE  LET r == DictWrite(v, IntValue(key), IntValue(value), RelocatableValue(s, off))
             a == Asserted(r, RelocatableValue(s, off), <<IntValue(key), None, IntValue(value)>>)
         IN  AccessDone(v, a.vm, a.err, s, off, key, value)
<1> DEFINE r == DictWrite(v, IntValue(key), IntValue(value), RelocatableValue(s, off))
           x == IntValue(key)
           z == IntValue(value)
<1>1. /\ AccessOutcome(v, r, s, key, value) /\ Grows(v.memory, r.vm.memory)
      /\ NatCells(v.memory) => NatCells(r.vm.memory)
      /\ r.err = "ok" /\ off + 1 <= UsizeMax =>
           Cell(r.vm.memory.data, RelocatableValue(s, off + 1)) =
             IntValue(Current(v.trackers[s].data, key))
  BY DictWriteStep
<1>2. x \in Elements /\ z \in Elements /\ None \in Elements /\ value # None
  BY IntValueKnown, NumbersKnown DEF Elements
<1>3. {x, None, z} \subseteq Fields
  BY NumbersKnown DEF Fields
<1> HIDE DEF r
<1> QED
  BY <1>1, <1>2, <1>3, AssertedDone DEF r

\* dict_update and its assertions.
LEMMA UpdateDone ==
  ASSUME NEW v, Sound(v), NEW key \in Nat, NEW prev \in Vals, NEW value \in Vals,
         NEW s \in Nat, NEW off \in Nat
  PROVE  LET r == DictUpdate(v, IntValue(key), IntValue(prev), IntValue(value),
                             RelocatableValue(s, off))
             a == Asserted(r, RelocatableValue(s, off),
                           <<IntValue(key), IntValue(prev), IntValue(value)>>)
         IN  AccessDone(v, a.vm, a.err, s, off, key, value)
<1> DEFINE r == DictUpdate(v, IntValue(key), IntValue(prev), IntValue(value),
                           RelocatableValue(s, off))
           x == IntValue(key)
           y == IntValue(prev)
           z == IntValue(value)
<1>1. prev \in Int /\ value \in Int
  BY NumbersKnown
<1>a. UpdateOutcome(v, DictUpdate(v, IntValue(key), IntValue(prev), IntValue(value),
                                  RelocatableValue(s, off)), s, key, prev, value)
  BY <1>1, DictUpdateStep
<1>b. UpdateOutcome(v, r, s, key, prev, value)
  BY <1>a
<1> HIDE DEF r
<1>2. /\ AccessOutcome(v, r, s, key, value) /\ r.vm.memory = v.memory
      /\ r.err = "ok" => Current(v.trackers[s].data, key) = prev
  BY <1>b DEF UpdateOutcome
<1>3. Grows(v.memory, r.vm.memory)
  BY <1>2, GrowsItself DEF Sound
<1>4. x \in Elements /\ y \in Elements /\ z \in Elements /\ value # None
  BY <1>1, IntValueKnown, NumbersKnown DEF Elements
<1>5. {x, y, z} \subseteq Fields
  BY NumbersKnown DEF Fields
<1>6. NatCells(v.memory) => NatCells(r.vm.memory)
  BY <1>2
<1>7. r.err = "ok" => /\ x = IntValue(key) /\ value # None /\ z = IntValue(value)
                      /\ y = IntValue(Current(v.trackers[s].data, key))
  BY <1>2, <1>4
<1>8. key \in Int /\ value \in Vals \union {None} /\ AccessOutcome(v, r, s, key, value)
  BY <1>2
<1> DEFINE a == Asserted(r, RelocatableValue(s, off), <<x, y, z>>)
<1> HIDE DEF x, y, z
<1>9. AccessDone(v, a.vm, a.err, s, off, key, value)
  BY <1>3, <1>4, <1>5, <1>6, <1>7, <1>8, AssertedDone
<1> QED
  BY <1>9 DEF r, x, y, z

-----------------------------------------------------------------------------
(* The invariant, and what the actions do.                                 *)

\* Types, and the scopes: the caller's alone outside of a squash, one inside
\* of it during one.
MapInv ==
  /\ program \in Programs
  /\ Sound(vm)
  /\ DOMAIN ptrs \subseteq Nat /\ \A s \in DOMAIN ptrs : ptrs[s] \in Nat
  /\ made \in Nat
  /\ vm.scopes[1] = MainScope(program)
  /\ "pc" \in DOMAIN squash
  /\ error = "ok" => IF squash.pc = Done THEN OneScope(vm) ELSE TwoScopes(vm)

\* An access at off to the segment s, of a key that is to map to value.
Accessed(s, off, key, value) ==
  /\ error = "ok" /\ squash.pc = Done
  /\ made < program.accesses /\ made' = made + 1
  /\ off \in Nat /\ off <= ptrs[s]
  /\ AccessDone(vm, vm', error', s, off, key, value)
  /\ ptrs' = IF error' = "ok"
             THEN Put(ptrs, s, IF off = ptrs[s] THEN off + DictAccessSize ELSE ptrs[s])
             ELSE ptrs
  /\ reused' = (reused \/ off # ptrs[s])
  /\ \/ answer' = answer /\ (value \in Vals \/ value = Current(vm.trackers[s].data, key))
     \/ /\ error' = "ok" /\ value = Current(vm.trackers[s].data, key)
        /\ answer' = IntValue(value)
  /\ UNCHANGED <<program, squash>>

\* The three kinds of access.
LEMMA AccessTaken ==
  ASSUME MapInv, NEW s \in DOMAIN ptrs, NEW k \in Keys, NEW ptr \in Pointers(s),
         \/ Read(IntValue(k), ptr)
         \/ \E v \in Vals : Write(IntValue(k), IntValue(v), ptr)
         \/ \E v, w \in Vals : Update(IntValue(k), IntValue(v), IntValue(w), ptr)
  PROVE  \E off, value : Accessed(s, off, k, value)
<1>1. PICK off \in Nat : off <= ptrs[s] /\ ptr = RelocatableValue(s, off)
  BY DEF Pointers, MapInv
<1>2. ptr.seg = s /\ ptr.off = off
  BY <1>1 DEF RelocatableValue
<1>3. s \in Nat /\ k \in Nat /\ Sound(vm)
  BY ProgramsAssumption DEF MapInv
<1>4. ASSUME NEW r, NEW fields, NEW value, Access(r, ptr, fields),
             LET a == Asserted(r, ptr, fields)
             IN  AccessDone(vm, a.vm, a.err, s, off, k, value)
      PROVE  /\ error = "ok" /\ squash.pc = Done
             /\ made < program.accesses /\ made' = made + 1
             /\ AccessDone(vm, vm', error', s, off, k, value)
             /\ ptrs' = IF error' = "ok"
                        THEN Put(ptrs, s, IF off = ptrs[s] THEN off + DictAccessSize ELSE ptrs[s])
                        ELSE ptrs
             /\ reused' = (reused \/ off # ptrs[s])
             /\ UNCHANGED <<program, squash>>
             /\ error' = Asserted(r, ptr, fields).err
  BY <1>2, <1>4 DEF Access, Calls
<1>5. CASE Read(IntValue(k), ptr)
  <2> DEFINE r     == DictRead(vm, IntValue(k), ptr)
             a     == Asserted(r, ptr, <<IntValue(k), r.val, r.val>>)
             value == Current(vm.trackers[s].data, k)
  <2>1. /\ AccessDone(vm, a.vm, a.err, s, off, k, value)
        /\ a.err = "ok" => r.val = IntValue(value)
    BY <1>1, <1>3, ReadDone
  <2>2. /\ Access(r, ptr, <<IntValue(k), r.val, r.val>>)
        /\ answer' = IF error' = "ok" THEN r.val ELSE answer
    BY <1>5 DEF Read
  <2>3. Accessed(s, off, k, value)
    BY <1>1, <1>4, <2>1, <2>2 DEF Accessed
  <2> QED
    BY <2>3
<1>6. ASSUME NEW value \in Vals, Write(IntValue(k), IntValue(value), ptr)
      PROVE  Accessed(s, off, k, value)
  <2> DEFINE r == DictWrite(vm, IntValue(k), IntValue(value), ptr)
             a == Asserted(r, ptr, <<IntValue(k), None, IntValue(value)>>)
  <2>1. AccessDone(vm, a.vm, a.err, s, off, k, value)
    BY <1>1, <1>3, WriteDone
  <2>2. Access(r, ptr, <<IntValue(k), None, IntValue(value)>>) /\ answer' = answer
    BY <1>6 DEF Write
  <2> QED
    BY <1>1, <1>4, <2>1, <2>2 DEF Accessed
<1>7. ASSUME NEW prev \in Vals, NEW value \in Vals,
             Update(IntValue(k), IntValue(prev), IntValue(value), ptr)
      PROVE  Accessed(s, off, k, value)
  <2> DEFINE r == DictUpdate(vm, IntValue(k), IntValue(prev), IntValue(value), ptr)
             a == Asserted(r, ptr, <<IntValue(k), IntValue(prev), IntValue(value)>>)
  <2>1. AccessDone(vm, a.vm, a.err, s, off, k, value)
    BY <1>1, <1>3, UpdateDone
  <2>2. /\ Access(r, ptr, <<IntValue(k), IntValue(prev), IntValue(value)>>)
        /\ answer' = answer
    BY <1>7 DEF Update
  <2> QED
    BY <1>1, <1>4, <2>1, <2>2 DEF Accessed
<1> QED
  BY <1>5, <1>6, <1>7

\* It holds at first.
LEMMA MapInvInit == Init => MapInv
<1> SUFFICES ASSUME Init
             PROVE  MapInv
  OBVIOUS
<1> DEFINE a == program.array
           b == <<a>>
           m == [EmptyMemory EXCEPT !.data = b]
           c == IF program.initial_dict = None THEN << >>
                ELSE [name \in {"initial_dict"} |-> program.initial_dict]
<1>1. a \in Seq(Elements) /\ Len(a) \in Nat
  BY ProgramsAssumption, LenProperties DEF Init, Elements
<1>2. m = [data |-> b, validated_addresses |-> {}, validation_rules |-> {}]
  <2>1. EmptyMemory = [data |-> << >>, validated_addresses |-> {}, validation_rules |-> {}]
    BY DEF EmptyMemory
  <2> HIDE DEF b
  <2>2. \A x, y, z :
          [[data |-> x, validated_addresses |-> y, validation_rules |-> z] EXCEPT !.data = b] =
          [data |-> b, validated_addresses |-> y, validation_rules |-> z]
    OBVIOUS
  <2> QED
    BY <2>1, <2>2
<1>3. vm = [memory |-> m, trackers |-> << >>, scopes |-> <<c>>]
  BY DEF Init
<1>4. squash = NoSquash /\ ptrs = [s \in {0} |-> Len(a)] /\ made = 0 /\ program \in Programs
  BY DEF Init
<1>5. c = MainScope(program)
  BY DEF MainScope
<1> HIDE DEF a, m, c
<1>6. MemoryInv(m, Relocatables)
  <2>1. <<a>> \in Seq(Seq(Elements)) /\ Len(<<a>>) = 1
    BY <1>1
  <2>2. m \in Memories(Relocatables)
    BY <1>2, <2>1 DEF Memories
  <2>3. AddressesIn(<<a>>) \subseteq Relocatables
    BY <2>1, AddressesInside
  <2> QED
    BY <1>2, <2>2, <2>3 DEF MemoryInv
<1>7. vm.trackers = [s \in DOMAIN vm.trackers |-> vm.trackers[s]] /\ DOMAIN vm.trackers = {}
  BY <1>3
<1>8. Sound(vm)
  BY <1>3, <1>6, <1>7 DEF Sound
<1>9. OneScope(vm) /\ vm.scopes[1] = c
  BY <1>3 DEF OneScope
<1>10. squash.pc = Done /\ "pc" \in DOMAIN squash
  BY <1>4 DEF NoSquash
<1> QED
  BY <1>1, <1>4, <1>5, <1>8, <1>9, <1>10 DEF MapInv

\* What a dictionary is created with.
Given(p) == IF p.initial_dict = None THEN << >> ELSE p.initial_dict

\* A dictionary d is created, or refused.
DictionaryAdded(d) ==
  /\ error = "ok" /\ squash.pc = Done
  /\ IsDict(d) /\ d.entries = Given(program)
  /\ NewTrackerOutcome(vm, [vm |-> vm', err |-> error'], d)
  /\ ptrs' = IF error' = "ok" THEN Put(ptrs, Len(vm.memory.data), 0) ELSE ptrs
  /\ UNCHANGED <<program, made, answer, reused, squash>>

\* The variable of the main scope that new dictionaries are made of.
LEMMA GivenDict ==
  ASSUME MapInv, OneScope(vm)
  PROVE  /\ (Local(vm, "initial_dict") = None) <=> (program.initial_dict = None)
         /\ Local(vm, "initial_dict") # None => Local(vm, "initial_dict") = program.initial_dict
         /\ \A k \in DOMAIN Given(program) : Given(program)[k] \in Vals
<1> DEFINE c == vm.scopes[1]
<1>1. vm.scopes = <<c>> /\ c = MainScope(program)
  BY DEF MapInv, OneScope
<1>2. Last(vm.scopes) = c
  <2>1. Len(vm.scopes) = 1
    BY <1>1
  <2> QED
    BY <2>1 DEF Last
<1> HIDE DEF c
<1>3. CASE program.initial_dict = None
  BY <1>1, <1>2, <1>3 DEF Local, MainScope, Given
<1>4. CASE program.initial_dict # None
  <2>1. "initial_dict" \in DOMAIN c /\ c["initial_dict"] = program.initial_dict
    BY <1>1, <1>4 DEF MainScope
  <2>2. \A k \in DOMAIN program.initial_dict : program.initial_dict[k] \in Vals
    BY <1>4, ProgramsAssumption DEF MapInv
  <2> QED
    BY <1>2, <1>4, <2>1, <2>2 DEF Local, Given
<1> QED
  BY <1>3, <1>4

\* dict_new and default_dict_new.
LEMMA DictionaryTaken ==
  ASSUME MapInv, NewDict \/ \E v \in Vals : NewDefaultDict(IntValue(v))
  PROVE  \E d : DictionaryAdded(d)
<1>1. ASSUME NEW r, NEW d, IsDict(d), d.entries = Given(program), NewTrackerOutcome(vm, r, d),
             Calls(r, Len(vm.memory.data), 0), UNCHANGED <<made, answer, reused>>
      PROVE  DictionaryAdded(d)
  <2>1. /\ vm' = r.vm /\ error' = r.err /\ error = "ok" /\ squash.pc = Done
        /\ ptrs' = (IF r.err = "ok" THEN Put(ptrs, Len(vm.memory.data), 0) ELSE ptrs)
        /\ UNCHANGED <<program, squash>>
    BY <1>1 DEF Calls
  <2>2. NewTrackerOutcome(vm, [vm |-> vm', err |-> error'], d)
    BY <1>1, <2>1 DEF NewTrackerOutcome
  <2> QED
    BY <1>1, <2>1, <2>2 DEF DictionaryAdded
<1>2. /\ error = "ok" /\ squash.pc = Done
      /\ Sound(vm)
  BY DEF MapInv, NewDict, NewDefaultDict, Calls
<1>3. OneScope(vm)
  BY <1>2 DEF MapInv
<1>4. /\ (Local(vm, "initial_dict") = None) <=> (program.initial_dict = None)
      /\ Local(vm, "initial_dict") # None => Local(vm, "initial_dict") = program.initial_dict
      /\ \A k \in DOMAIN Given(program) : Given(program)[k] \in Vals
  BY <1>3, GivenDict
<1> DEFINE g == Given(program)
<1>5. \A x \in Vals \union {None} : IsDict([entries |-> g, default_value |-> x])
  BY <1>4 DEF IsDict
<1>6. CASE NewDict
  <2> DEFINE d == [entries |-> g, default_value |-> None]
             r == DictNew(vm)
  <2>1. IsDict(d)
    BY <1>5
  <2>2. Calls(r, Len(vm.memory.data), 0) /\ UNCHANGED <<made, answer, reused>>
    BY <1>6 DEF NewDict
  <2>3. NewTrackerOutcome(vm, r, d)
    <3>1. CASE Local(vm, "initial_dict") = None
      <4>1. r = Refuse(vm, "NoInitialDict")
        BY <3>1 DEF DictNew
      <4>2. r.vm = vm /\ r.err = "NoInitialDict"
        BY <4>1 DEF Refuse, Answer
      <4> QED
        BY <1>2, <4>2 DEF NewTrackerOutcome, SameCells
    <3>2. CASE Local(vm, "initial_dict") # None
      <4>1. Local(vm, "initial_dict") = g
        BY <1>4, <3>2 DEF Given
      <4>2. r = NewTracker(vm, d)
        BY <3>2, <4>1 DEF DictNew
      <4> QED
        BY <1>2, <2>1, <4>2, NewTrackerStep
    <3> QED
      BY <3>1, <3>2
  <2>4. d.entries = g
    OBVIOUS
  <2> HIDE DEF d, r
  <2>5. DictionaryAdded(d)
    BY <1>1, <2>1, <2>2, <2>3, <2>4
  <2> QED
    BY <2>5
<1>7. ASSUME NEW v \in Vals, NewDefaultDict(IntValue(v))
      PROVE  \E d : DictionaryAdded(d)
  <2> DEFINE d == [entries |-> g, default_value |-> v]
             r == DefaultDictNew(vm, IntValue(v))
  <2>1. IsDict(d)
    BY <1>5
  <2>2. Calls(r, Len(vm.memory.data), 0) /\ UNCHANGED <<made, answer, reused>>
    BY <1>7 DEF NewDefaultDict
  <2>3. NewTrackerOutcome(vm, r, d)
    <3>1. IsInt(IntValue(v)) /\ IntValue(v).num = v
      BY NoneAssumption, NumbersKnown DEF IntValue, IsInt, Values, Ints
    <3>2. (IF Local(vm, "initial_dict") = None THEN << >> ELSE Local(vm, "initial_dict")) = g
      BY <1>4 DEF Given
    <3>3. r = NewTracker(vm, d)
      BY <3>1, <3>2 DEF DefaultDictNew
    <3> QED
      BY <1>2, <2>1, <3>3, NewTrackerStep
  <2>4. d.entries = g
    OBVIOUS
  <2> HIDE DEF d, r
  <2>5. DictionaryAdded(d)
    BY <1>1, <2>1, <2>2, <2>3, <2>4
  <2> QED
    BY <2>5
<1> QED
  BY <1>6, <1>7

\* A step of a squash: the scopes apart, the vm stays as it is, and the
\* variables of the caller do too.
Squashing ==
  /\ error = "ok"
  /\ Record(vm')
  /\ vm'.memory = vm.memory /\ vm'.trackers = vm.trackers /\ vm'.scopes[1] = vm.scopes[1]
  /\ "pc" \in DOMAIN squash'
  /\ error' = "ok" => IF squash'.pc = Done THEN OneScope(vm') ELSE TwoScopes(vm')
  /\ UNCHANGED <<program, ptrs, made, answer, reused>>

\* A hint of squash_dict_inner, when the next one is at next.
LEMMA SquashesStep ==
  ASSUME MapInv, squash.pc # Done, error = "ok", NEW r, NEW asserted, NEW next,
         InnerStep(vm, r.vm), "pc" \in DOMAIN next, next.pc # Done,
         Squashes(r, asserted, next)
  PROVE  Squashing
<1>1. /\ vm' = r.vm /\ squash' \in {squash, next}
      /\ UNCHANGED <<program, ptrs, made, answer, reused>>
  BY DEF Squashes
<1>2. "pc" \in DOMAIN squash' /\ squash'.pc # Done
  BY <1>1 DEF MapInv
<1>3. /\ vm' = [memory |-> vm.memory, trackers |-> vm.trackers, scopes |-> vm'.scopes]
      /\ TwoScopes(vm') /\ vm'.scopes[1] = vm.scopes[1]
  BY <1>1 DEF InnerStep
<1>4. vm'.memory = vm.memory /\ vm'.trackers = vm.trackers
  BY <1>3
<1>5. Record(vm')
  BY <1>3, <1>4 DEF Record
<1> QED
  BY <1>1, <1>2, <1>3, <1>4, <1>5 DEF Squashing

\* The hints of squash_dict_inner.
LEMMA SquashInnerTaken ==
  ASSUME MapInv, SquashStep
  PROVE  Squashing
<1>1. error = "ok" /\ squash.pc # Done
  BY DEF SquashStep, SquashFirst, SquashSkip, SquashCheck, SquashContinue, SquashLen, SquashUsed,
         SquashKeys, SquashNext, SquashExit, At, Done
<1>2. /\ Record(vm) /\ TwoScopes(vm) /\ "pc" \in DOMAIN squash
  BY <1>1 DEF MapInv, Sound, Record
<1>3. CASE SquashFirst
  <2>1. PICK r \in {FirstIteration(vm)} :
          Squashes([r EXCEPT !.err = IF @ = "ok" THEN RuleError(IntValue(r.val)) ELSE @],
            IsAccess(r.val),
            [squash EXCEPT !.index = r.val, !.used = 1, !.pc = "skip",
                           !.first_value = Found(r.val).prev_value,
                           !.value = Found(r.val).new_value])
    BY <1>3 DEF SquashFirst
  <2> DEFINE x == [r EXCEPT !.err = IF @ = "ok" THEN RuleError(IntValue(r.val)) ELSE @]
             n == [squash EXCEPT !.index = r.val, !.used = 1, !.pc = "skip",
                           !.first_value = Found(r.val).prev_value,
                           !.value = Found(r.val).new_value]
  <2>2. InnerStep(vm, x.vm)
    <3>1. InnerStep(vm, r.vm)
      BY <1>2, SquashHintStep
    <3>2. x.vm = r.vm
      OBVIOUS
    <3> QED
      BY <3>1, <3>2
  <2>3. "pc" \in DOMAIN n /\ n.pc = "skip"
    BY <1>2
  <2> HIDE DEF x, n
  <2>4. n.pc # Done
    BY <2>3 DEF Done
  <2> QED
    BY <1>1, <2>1, <2>2, <2>3, <2>4, SquashesStep DEF x, n
<1>4. CASE SquashSkip
  <2>1. PICK r \in {SkipLoop(vm)} : Squashes(r, TRUE, 
            [squash EXCEPT !.pc = IF r.val = 1 THEN "len" ELSE "check"])
    BY <1>4 DEF SquashSkip
  <2> DEFINE n == [squash EXCEPT !.pc = IF r.val = 1 THEN "len" ELSE "check"]
  <2>2. InnerStep(vm, r.vm)
    BY <1>2, SquashHintStep
  <2>3. "pc" \in DOMAIN n /\ n.pc # Done
    BY <1>2 DEF Done
  <2> HIDE DEF n
  <2> QED
    BY <1>1, <2>1, <2>2, <2>3, SquashesStep DEF n
<1>5. CASE SquashContinue
  <2>1. PICK r \in {ContinueLoop(vm)} : Squashes(r, TRUE, 
            [squash EXCEPT !.pc = IF r.val = 1 THEN "check" ELSE "len"])
    BY <1>5 DEF SquashContinue
  <2> DEFINE n == [squash EXCEPT !.pc = IF r.val = 1 THEN "check" ELSE "len"]
  <2>2. InnerStep(vm, r.vm)
    BY <1>2, SquashHintStep
  <2>3. "pc" \in DOMAIN n /\ n.pc # Done
    BY <1>2 DEF Done
  <2> HIDE DEF n
  <2> QED
    BY <1>1, <2>1, <2>2, <2>3, SquashesStep DEF n
<1>6. CASE SquashNext
  <2>1. PICK r \in {NextKey(vm)} : Squashes(r, IF squash.big_keys THEN r.val > squash.key
                           ELSE InRange(IntValue(r.val - squash.key - 1)), 
            [squash EXCEPT !.key = r.val, !.pc = "first"])
    BY <1>6 DEF SquashNext
  <2> DEFINE n == [squash EXCEPT !.key = r.val, !.pc = "first"]
  <2>2. InnerStep(vm, r.vm)
    BY <1>2, SquashHintStep
  <2>3. "pc" \in DOMAIN n /\ n.pc # Done
    BY <1>2 DEF Done
  <2> HIDE DEF n
  <2> QED
    BY <1>1, <2>1, <2>2, <2>3, SquashesStep DEF n
<1>7. CASE SquashLen
  <2> DEFINE r == LenAssert(vm)
  <2>1. Squashes(r, InRange(IntValue(squash.end - 1 - DictAccessSize * squash.index)),
          [squash EXCEPT !.pc = "used"])
    BY <1>7 DEF SquashLen
  <2> DEFINE n == [squash EXCEPT !.pc = "used"]
  <2>2. InnerStep(vm, r.vm)
    BY <1>2, SquashHintStep
  <2>3. "pc" \in DOMAIN n /\ n.pc # Done
    BY <1>2 DEF Done
  <2> HIDE DEF n, r
  <2> QED
    BY <1>1, <2>1, <2>2, <2>3, SquashesStep DEF n, r
<1>8. CASE SquashKeys
  <2> DEFINE r == AssertLenKeys(vm)
  <2>1. Squashes(r, TRUE,
          [squash EXCEPT !.pc = "exit"])
    BY <1>8 DEF SquashKeys
  <2> DEFINE n == [squash EXCEPT !.pc = "exit"]
  <2>2. InnerStep(vm, r.vm)
    BY <1>2, SquashHintStep
  <2>3. "pc" \in DOMAIN n /\ n.pc # Done
    BY <1>2 DEF Done
  <2> HIDE DEF n, r
  <2> QED
    BY <1>1, <2>1, <2>2, <2>3, SquashesStep DEF n, r
<1>9. CASE SquashCheck
  <2>1. PICK r \in {CheckAccessIndex(vm)} :
          LET i == squash.index + r.val + 1
          IN  Squashes(r,
                InRange(IntValue(r.val)) /\ IsAccess(i) /\ Found(i).prev_value = squash.value,
                [squash EXCEPT !.index = i, !.used = @ + 1, !.value = Found(i).new_value,
                               !.pc = "continue"])
    BY <1>9 DEF SquashCheck
  <2> DEFINE i == squash.index + r.val + 1
             n == [squash EXCEPT !.index = i, !.used = @ + 1, !.value = Found(i).new_value,
                                 !.pc = "continue"]
             a == InRange(IntValue(r.val)) /\ IsAccess(i) /\ Found(i).prev_value = squash.value
  <2>2. InnerStep(vm, r.vm)
    BY <1>2, SquashHintStep
  <2>3. "pc" \in DOMAIN n /\ n.pc # Done
    BY <1>2 DEF Done
  <2>4. Squashes(r, a, n)
    BY <2>1
  <2> HIDE DEF n, a
  <2> QED
    BY <1>1, <2>2, <2>3, <2>4, SquashesStep
<1>10. CASE SquashUsed
  <2>1. PICK left \in {squash.remaining - squash.used} :
          Squashes(UsedAccessesAssert(vm, squash.used), TRUE,
            [squash EXCEPT
               !.out = Append(@, [key |-> IntValue(squash.key), prev_value |-> squash.first_value,
                                  new_value |-> squash.value]),
               !.remaining = left, !.pc = IF left = 0 THEN "keys" ELSE "next"])
    BY <1>10 DEF SquashUsed
  <2> DEFINE r == UsedAccessesAssert(vm, squash.used)
             e == [key |-> IntValue(squash.key), prev_value |-> squash.first_value,
                   new_value |-> squash.value]
             n == [squash EXCEPT !.out = Append(@, e), !.remaining = left,
                                 !.pc = IF left = 0 THEN "keys" ELSE "next"]
  <2>2. InnerStep(vm, r.vm)
    BY <1>2, SquashHintStep
  <2>3. "pc" \in DOMAIN n /\ n.pc # Done
    <3> HIDE DEF e
    <3> QED
      BY <1>2 DEF Done
  <2>4. Squashes(r, TRUE, n)
    BY <2>1
  <2> HIDE DEF n, r
  <2> QED
    BY <1>1, <2>2, <2>3, <2>4, SquashesStep
<1>11. CASE SquashExit
  <2> DEFINE r == ExitScope(vm)
             n == [NoSquash EXCEPT !.start = squash.start, !.out = squash.out, !.end = squash.end]
  <2>1. /\ vm' = r.vm /\ squash' = (IF r.err = "ok" THEN n ELSE squash)
        /\ UNCHANGED <<program, ptrs, made, answer, reused>>
    BY <1>11 DEF SquashExit, Squashes
  <2>2. r.err = "ok" /\ r.vm = [memory |-> vm.memory, trackers |-> vm.trackers,
                               scopes |-> <<vm.scopes[1]>>]
    BY <1>2, ExitStep
  <2>3. "pc" \in DOMAIN n /\ n.pc = Done
    BY DEF NoSquash
  <2> HIDE DEF n, r
  <2>4. /\ vm'.memory = vm.memory /\ vm'.trackers = vm.trackers
        /\ vm'.scopes = <<vm.scopes[1]>> /\ Record(vm')
    BY <2>1, <2>2 DEF Record
  <2>5. vm'.scopes[1] = vm.scopes[1] /\ OneScope(vm')
    BY <2>4 DEF OneScope
  <2>6. squash' = n
    BY <2>1, <2>2
  <2> QED
    BY <1>1, <2>1, <2>3, <2>4, <2>5, <2>6 DEF Squashing
<1> QED
  BY <1>3, <1>4, <1>5, <1>6, <1>7, <1>8, <1>9, <1>10, <1>11 DEF SquashStep

\* The call of squash_dict.
LEMMA CallSquashTaken ==
  ASSUME MapInv, NEW s, NEW end, CallSquash(s, end)
  PROVE  Squashing
<1> DEFINE entered == EnterScope(vm)
           r       == IF end = 0 THEN ExitScope(entered)
                      ELSE SquashDict(entered, RelocatableValue(s, 0), end, end \div DictAccessSize)
           begun   == [NoSquash EXCEPT !.start = s, !.end = end]
           done    == [begun EXCEPT !.pc = IF end = 0 THEN Done ELSE "first"]
           going   == [begun EXCEPT !.pc = "first", !.big_keys = r.val.big_keys,
                                    !.key = r.val.first_key,
                                    !.remaining = end \div DictAccessSize]
<1>1. /\ error = "ok" /\ squash.pc = Done
      /\ vm' = r.vm
      /\ r.err # "ok" \/ end = 0 => error' = r.err /\ squash' = done
      /\ ~(r.err # "ok" \/ end = 0) => squash' = going
      /\ UNCHANGED <<program, ptrs, made, answer, reused>>
  BY DEF CallSquash
<1>2. Record(vm) /\ OneScope(vm)
  BY <1>1 DEF MapInv, Sound, Record
<1>3. InnerStep(vm, entered)
  BY <1>2, EnterStep
<1>4. /\ Record(entered) /\ TwoScopes(entered) /\ entered.scopes[1] = vm.scopes[1]
      /\ entered.memory = vm.memory /\ entered.trackers = vm.trackers
  <2>1. /\ entered = [memory |-> vm.memory, trackers |-> vm.trackers, scopes |-> entered.scopes]
        /\ TwoScopes(entered) /\ entered.scopes[1] = vm.scopes[1]
    BY <1>3 DEF InnerStep
  <2> HIDE DEF entered
  <2>2. entered.memory = vm.memory /\ entered.trackers = vm.trackers
    BY <2>1
  <2> QED
    BY <2>1, <2>2 DEF Record
<1>5. /\ "pc" \in DOMAIN done /\ done.pc = (IF end = 0 THEN Done ELSE "first")
      /\ "pc" \in DOMAIN going /\ going.pc = "first"
  <2>1. "pc" \in DOMAIN begun
    BY DEF NoSquash
  <2> HIDE DEF begun, r
  <2> QED
    BY <2>1
<1> HIDE DEF entered, done, going
<1>6. CASE end = 0
  <2>1. r.err = "ok" /\ r.vm = [memory |-> entered.memory, trackers |-> entered.trackers,
                               scopes |-> <<entered.scopes[1]>>]
    BY <1>4, <1>6, ExitStep
  <2> HIDE DEF r
  <2>2. /\ vm'.memory = vm.memory /\ vm'.trackers = vm.trackers
        /\ vm'.scopes = <<vm.scopes[1]>> /\ Record(vm')
    BY <1>1, <1>4, <2>1 DEF Record
  <2>3. vm'.scopes[1] = vm.scopes[1] /\ OneScope(vm')
    BY <2>2 DEF OneScope
  <2>4. squash' = done
    BY <1>1, <1>6
  <2> QED
    BY <1>1, <1>5, <1>6, <2>2, <2>3, <2>4 DEF Squashing
<1>7. CASE end # 0
  <2>1. InnerStep(entered, r.vm)
    BY <1>4, <1>7, SquashHintStep
  <2> HIDE DEF r
  <2>2. /\ vm' = [memory |-> vm.memory, trackers |-> vm.trackers, scopes |-> vm'.scopes]
        /\ TwoScopes(vm') /\ vm'.scopes[1] = vm.scopes[1]
    BY <1>1, <1>4, <2>1 DEF InnerStep
  <2>3. vm'.memory = vm.memory /\ vm'.trackers = vm.trackers
    BY <2>2
  <2>4. Record(vm')
    BY <2>2, <2>3 DEF Record
  <2>5. "pc" \in DOMAIN squash' /\ squash'.pc # Done
    BY <1>1, <1>5, <1>7 DEF Done
  <2> QED
    BY <1>1, <2>2, <2>3, <2>4, <2>5 DEF Squashing
<1> QED
  BY <1>6, <1>7

\* Every step creates a dictionary, accesses one, or is of a squash.
LEMMA NextTaken ==
  ASSUME MapInv, Next
  PROVE  \/ \E d : DictionaryAdded(d)
         \/ \E s \in DOMAIN ptrs, k \in Keys : \E off, value : Accessed(s, off, k, value)
         \/ Squashing
<1>1. CASE NewDict \/ \E v \in Vals : NewDefaultDict(IntValue(v))
  BY <1>1, DictionaryTaken
<1>2. CASE \E s \in DOMAIN ptrs, k \in Keys : \E ptr \in Pointers(s) :
             \/ Read(IntValue(k), ptr)
             \/ \E v \in Vals : Write(IntValue(k), IntValue(v), ptr)
             \/ \E v, w \in Vals : Update(IntValue(k), IntValue(v), IntValue(w), ptr)
  BY <1>2, AccessTaken
<1>3. CASE \E s \in DOMAIN ptrs : \E end \in Ends(s) : CallSquash(s, end)
  BY <1>3, CallSquashTaken
<1>4. CASE SquashStep
  BY <1>4, SquashInnerTaken
<1> QED
  BY <1>1, <1>2, <1>3, <1>4 DEF Next

\* The invariant is kept by each.
LEMMA MapInvNext == MapInv /\ [Next]_vars => MapInv'
<1> SUFFICES ASSUME MapInv, [Next]_vars
             PROVE  MapInv'
  OBVIOUS
<1>1. ASSUME NEW d, DictionaryAdded(d)
      PROVE  MapInv'
  <2>1. /\ Sound(vm') /\ vm'.scopes = vm.scopes
        /\ error' = "ok" => Len(vm.memory.data) \in Nat
    BY <1>1 DEF DictionaryAdded, NewTrackerOutcome, Created
  <2>2. DOMAIN ptrs' \subseteq Nat /\ \A s \in DOMAIN ptrs' : ptrs'[s] \in Nat
    BY <1>1, <2>1 DEF DictionaryAdded, MapInv, Put
  <2>3. OneScope(vm) /\ OneScope(vm')
    BY <1>1, <2>1 DEF MapInv, DictionaryAdded, OneScope
  <2> QED
    BY <1>1, <2>1, <2>2, <2>3 DEF MapInv, DictionaryAdded
<1>2. ASSUME NEW s \in DOMAIN ptrs, NEW k \in Keys, NEW off, NEW value,
             Accessed(s, off, k, value)
      PROVE  MapInv'
  <2>1. Sound(vm') /\ vm'.scopes = vm.scopes
    BY <1>2 DEF Accessed, AccessDone
  <2>2. DOMAIN ptrs' \subseteq Nat /\ \A t \in DOMAIN ptrs' : ptrs'[t] \in Nat
    BY <1>2 DEF Accessed, MapInv, Put, DictAccessSize
  <2>3. OneScope(vm) /\ OneScope(vm')
    BY <1>2, <2>1 DEF MapInv, Accessed, OneScope
  <2>4. made' \in Nat
    BY <1>2 DEF Accessed, MapInv
  <2> QED
    BY <1>2, <2>1, <2>2, <2>3, <2>4 DEF MapInv, Accessed
<1>3. CASE Squashing
  <2>1. Sound(vm')
    BY <1>3 DEF Squashing, MapInv, Sound, Record
  <2> QED
    BY <1>3, <2>1 DEF Squashing, MapInv
<1>4. CASE UNCHANGED vars
  BY <1>4 DEF vars, MapInv, OneScope, TwoScopes
<1> QED
  BY <1>1, <1>2, <1>3, <1>4, NextTaken

\* It holds in every state.
LEMMA MapInvariant == Spec => []MapInv
  BY MapInvInit, MapInvNext, PTL DEF Spec

-----------------------------------------------------------------------------
(* What the dictionaries promise.                                          *)

\* The caller's variables are its own.  (DictHints!ExitScope,
\* SquashHints!SquashDict)
THEOREM DictionaryScopeKept == Spec => CallerScopeKept
<1> DEFINE Kept == /\ vm'.scopes[1] = vm.scopes[1]
                   /\ (error' = "ok" /\ squash'.pc = Done) => Len(vm'.scopes) = 1
<1>1. MapInv /\ MapInv' /\ [Next]_vars => [Kept]_vars
  <2> SUFFICES ASSUME MapInv, MapInv', Next
               PROVE  Kept
    OBVIOUS
  <2>1. program' = program
    BY NextTaken DEF DictionaryAdded, Accessed, Squashing
  <2>2. vm'.scopes[1] = vm.scopes[1]
    BY <2>1 DEF MapInv
  <2>3. ASSUME error' = "ok", squash'.pc = Done
        PROVE  Len(vm'.scopes) = 1
    BY <2>3 DEF MapInv, OneScope
  <2> QED
    BY <2>2, <2>3
<1> QED
  BY <1>1, MapInvariant, PTL DEF Spec, CallerScopeKept

\* The maps of a vm.
MapsOf(v) == [s \in DOMAIN v.trackers |-> [k \in Keys |-> Current(v.trackers[s].data, k)]]

\* An answer, as the store gives it.
AnswerOf(a) == IF a = None THEN None ELSE a.num

\* Trackers with the same maps.
LEMMA SameMapsOf ==
  ASSUME NEW v, NEW w, SameMaps(v, w)
  PROVE  MapsOf(w) = MapsOf(v)
  BY DEF SameMaps, MapsOf

\* An access reads a key, or writes it, or fails without a trace.
LEMMA AccessMapped ==
  ASSUME MapInv, NEW s, NEW k \in Keys, NEW off, NEW value, Accessed(s, off, k, value)
  PROVE  \/ MapsOf(vm') = MapsOf(vm) /\ AnswerOf(answer') = AnswerOf(answer)
         \/ /\ s \in DOMAIN MapsOf(vm) /\ MapsOf(vm)[s][k] # None
            /\ \/ MapsOf(vm') = MapsOf(vm) /\ AnswerOf(answer') = MapsOf(vm)[s][k]
               \/ /\ value \in Vals /\ MapsOf(vm') = [MapsOf(vm) EXCEPT ![s][k] = value]
                  /\ AnswerOf(answer') = AnswerOf(answer)
<1> DEFINE now == Current(vm.trackers[s].data, k)
<1>1. /\ ~SameMaps(vm, vm') => /\ s \in DOMAIN vm.trackers /\ now # None
                               /\ PutMap(vm, vm', s, k, value)
      /\ error' = "ok" => /\ s \in DOMAIN vm.trackers /\ now # None
                          /\ PutMap(vm, vm', s, k, value)
  BY DEF Accessed, AccessDone
<1>2. \/ answer' = answer /\ (value \in Vals \/ value = now)
      \/ error' = "ok" /\ value = now /\ answer' = IntValue(value)
  BY DEF Accessed
<1>3. PutMap(vm, vm', s, k, value) /\ value = now => SameMaps(vm, vm')
  BY DEF PutMap, SameMaps
<1>4. s \in DOMAIN vm.trackers => s \in DOMAIN MapsOf(vm) /\ MapsOf(vm)[s][k] = now
  BY DEF MapsOf
<1>5. s \in DOMAIN vm.trackers => now \in Vals \union {None}
  BY CurrentValue DEF MapInv, Sound, IsTracker
<1> HIDE DEF now
<1>6. CASE SameMaps(vm, vm') /\ answer' = answer
  BY <1>6, SameMapsOf
<1>7. CASE error' = "ok" /\ value = now /\ answer' = IntValue(value)
  <2>1. SameMaps(vm, vm') /\ s \in DOMAIN vm.trackers /\ now # None /\ now \in Int
    BY <1>1, <1>3, <1>5, <1>7, NumbersKnown
  <2>2. AnswerOf(answer') = now
    BY <1>7, <2>1, IntValueKnown DEF AnswerOf
  <2> QED
    BY <1>4, <2>1, <2>2, SameMapsOf
<1>8. CASE ~SameMaps(vm, vm') /\ answer' = answer
  <2>1. /\ s \in DOMAIN vm.trackers /\ now # None /\ value \in Vals
        /\ PutMap(vm, vm', s, k, value)
    BY <1>1, <1>2, <1>3, <1>8
  <2>2. MapsOf(vm') = [MapsOf(vm) EXCEPT ![s][k] = value]
    <3>1. DOMAIN vm'.trackers = DOMAIN vm.trackers
      BY <2>1 DEF PutMap
    <3>2. ASSUME NEW t \in DOMAIN vm.trackers, NEW j \in Keys
          PROVE  Current(vm'.trackers[t].data, j) =
                   IF t = s /\ j = k THEN value ELSE Current(vm.trackers[t].data, j)
      BY <2>1 DEF PutMap
    <3> QED
      BY <2>1, <3>1, <3>2 DEF MapsOf
  <2> QED
    BY <1>4, <1>8, <2>1, <2>2
<1> QED
  BY <1>2, <1>6, <1>7, <1>8

\* A new dictionary is a new map.
LEMMA CreateMapped ==
  ASSUME MapInv, NEW d, DictionaryAdded(d)
  PROVE  \/ MapsOf(vm') = MapsOf(vm)
         \/ \E m \in DOMAIN MapsOf(vm') \ DOMAIN MapsOf(vm) :
              /\ MapsOf(vm')[m] \in [Keys -> Vals \union {None}]
              /\ MapsOf(vm') = [x \in DOMAIN MapsOf(vm) \union {m} |->
                                  IF x = m THEN MapsOf(vm')[m] ELSE MapsOf(vm)[x]]
<1> DEFINE n == Len(vm.memory.data)
<1>1. /\ error' # "ok" => vm'.trackers = vm.trackers
      /\ error' = "ok" => Created(vm, vm', d)
      /\ IsDict(d)
  BY DEF DictionaryAdded, NewTrackerOutcome
<1>2. CASE error' # "ok"
  BY <1>1, <1>2 DEF MapsOf
<1>3. CASE error' = "ok"
  <2>1. /\ n \notin DOMAIN vm.trackers /\ DOMAIN vm'.trackers = DOMAIN vm.trackers \union {n}
        /\ vm'.trackers[n].data = d
        /\ \A s \in DOMAIN vm.trackers : vm'.trackers[s] = vm.trackers[s]
    BY <1>1, <1>3 DEF Created
  <2> HIDE DEF n
  <2>2. n \in DOMAIN MapsOf(vm') /\ n \notin DOMAIN MapsOf(vm)
    BY <2>1 DEF MapsOf
  <2>3. MapsOf(vm')[n] = [k \in Keys |-> Current(d, k)]
    BY <2>1 DEF MapsOf
  <2>4. MapsOf(vm')[n] \in [Keys -> Vals \union {None}]
    BY <1>1, <2>3, CurrentValue
  <2>5. MapsOf(vm') = [x \in DOMAIN MapsOf(vm) \union {n} |->
                         IF x = n THEN MapsOf(vm')[n] ELSE MapsOf(vm)[x]]
    <3>1. \A x \in DOMAIN vm.trackers : MapsOf(vm')[x] = MapsOf(vm)[x]
      BY <2>1 DEF MapsOf
    <3>2. DOMAIN MapsOf(vm') = DOMAIN MapsOf(vm) \union {n}
      BY <2>1 DEF MapsOf
    <3>3. MapsOf(vm') = [x \in DOMAIN MapsOf(vm') |-> MapsOf(vm')[x]]
      BY DEF MapsOf
    <3>4. DOMAIN MapsOf(vm) = DOMAIN vm.trackers
      BY DEF MapsOf
    <3> HIDE DEF MapsOf
    <3> QED
      BY <3>1, <3>2, <3>3, <3>4
  <2> QED
    BY <2>2, <2>4, <2>5
<1> QED
  BY <1>2, <1>3

\* The dictionaries implement the maps: whatever fails, and wherever, a read
\* answers what was written last.  (DictHints!DictRead, DictWrite, DictUpdate,
\* DictNew, DefaultDictNew)
THEOREM DictionaryMapsKept == Spec => ImplementsKeyValueStore
<1>1. Init => Store!Init
  <2> SUFFICES ASSUME Init
               PROVE  Store!Init
    OBVIOUS
  <2>1. vm.trackers = << >> /\ answer = None
    BY DEF Init
  <2>2. [s \in DOMAIN vm.trackers |-> [k \in Keys |-> Current(vm.trackers[s].data, k)]] = << >>
    BY <2>1
  <2> QED
    BY <2>1, <2>2 DEF Store!Init
<1>2. MapInv /\ [Next]_vars =>
        [Store!Next]_<<[s \in DOMAIN vm.trackers |->
                          [k \in Keys |-> Current(vm.trackers[s].data, k)]],
                       IF answer = None THEN None ELSE answer.num>>
  <2> SUFFICES ASSUME MapInv, [Next]_vars
               PROVE  \/ Store!Next
                      \/ MapsOf(vm') = MapsOf(vm) /\ AnswerOf(answer') = AnswerOf(answer)
    BY DEF MapsOf, AnswerOf
  <2>1. ASSUME NEW d, DictionaryAdded(d)
        PROVE  Store!Next \/ (MapsOf(vm') = MapsOf(vm) /\ AnswerOf(answer') = AnswerOf(answer))
    <3>1. answer' = answer
      BY <2>1 DEF DictionaryAdded
    <3>2. CASE MapsOf(vm') = MapsOf(vm)
      BY <3>1, <3>2
    <3>3. CASE MapsOf(vm') # MapsOf(vm)
      <4>1. Store!Create
        BY <2>1, <3>1, <3>3, CreateMapped DEF Store!Create, Store!Content, MapsOf
      <4> QED
        BY <4>1 DEF Store!Next
    <3> QED
      BY <3>2, <3>3
  <2>2. ASSUME NEW s \in DOMAIN ptrs, NEW k \in Keys, NEW off, NEW value,
               Accessed(s, off, k, value)
        PROVE  Store!Next \/ (MapsOf(vm') = MapsOf(vm) /\ AnswerOf(answer') = AnswerOf(answer))
    <3>1. \/ MapsOf(vm') = MapsOf(vm) /\ AnswerOf(answer') = AnswerOf(answer)
          \/ /\ s \in DOMAIN MapsOf(vm) /\ MapsOf(vm)[s][k] # None
             /\ \/ MapsOf(vm') = MapsOf(vm) /\ AnswerOf(answer') = MapsOf(vm)[s][k]
                \/ /\ value \in Vals /\ MapsOf(vm') = [MapsOf(vm) EXCEPT ![s][k] = value]
                   /\ AnswerOf(answer') = AnswerOf(answer)
      BY <2>2, AccessMapped
    <3>2. ASSUME s \in DOMAIN MapsOf(vm), MapsOf(vm)[s][k] # None,
                 MapsOf(vm') = MapsOf(vm), AnswerOf(answer') = MapsOf(vm)[s][k]
          PROVE  Store!Next
      <4>1. Store!Read(s, k)
        BY <3>2 DEF Store!Read, MapsOf, AnswerOf
      <4> QED
        BY <3>2, <4>1 DEF Store!Next, MapsOf
    <3>3. ASSUME s \in DOMAIN MapsOf(vm), MapsOf(vm)[s][k] # None, value \in Vals,
                 MapsOf(vm') = [MapsOf(vm) EXCEPT ![s][k] = value],
                 AnswerOf(answer') = AnswerOf(answer)
          PROVE  Store!Next
      <4>1. Store!Write(s, k, value)
        BY <3>3 DEF Store!Write, MapsOf, AnswerOf
      <4> QED
        BY <3>3, <4>1 DEF Store!Next, MapsOf
    <3> QED
      BY <3>1, <3>2, <3>3
  <2>3. CASE Squashing
    BY <2>3 DEF Squashing, MapsOf, AnswerOf
  <2>4. CASE UNCHANGED vars
    BY <2>4 DEF vars, MapsOf, AnswerOf
  <2> QED
    BY <2>1, <2>2, <2>3, <2>4, NextTaken
<1> QED
  BY <1>1, <1>2, MapInvariant, PTL DEF Spec, ImplementsKeyValueStore, Store!Spec

-----------------------------------------------------------------------------
(* The numbers of a set in ascending order.                                *)

\* The members of S before x.
Below(S, x) == {m \in S : m < x}

\* The sizes of a finite set of numbers and of the parts below its members.
LEMMA BelowSizes ==
  ASSUME NEW N \in Nat, NEW S \in SUBSET (0..(N - 1))
  PROVE  /\ IsFiniteSet(S) /\ Cardinality(S) \in Nat
         /\ \A x : IsFiniteSet(Below(S, x)) /\ Cardinality(Below(S, x)) \in Nat
         /\ \A x, y \in S : x <= y => Cardinality(Below(S, x)) <= Cardinality(Below(S, y))
         /\ \A x, y \in S : x < y => Cardinality(Below(S, x)) + 1 <= Cardinality(Below(S, y))
         /\ \A x \in S : Cardinality(Below(S, x)) + 1 <= Cardinality(S)
<1>1. S \subseteq Int
  OBVIOUS
<1>2. IsFiniteSet(S)
  <2>1. IsFiniteSet(0..(N - 1))
    BY FS_Interval
  <2> QED
    BY <2>1, FS_Subset
<1>3. \A T \in SUBSET S : IsFiniteSet(T) /\ Cardinality(T) \in Nat
  BY <1>2, FS_Subset, FS_CardinalityType
<1>4. \A x : Below(S, x) \in SUBSET S
  BY DEF Below
<1>5. ASSUME NEW T \in SUBSET S, NEW x \in S, Below(S, x) \union {x} \subseteq T
      PROVE  Cardinality(Below(S, x)) + 1 <= Cardinality(T)
  <2> DEFINE B == Below(S, x)
  <2>1. x \notin B
    BY <1>1 DEF Below
  <2>2. IsFiniteSet(B) /\ IsFiniteSet(T) /\ B \union {x} \in SUBSET T
    BY <1>3, <1>4, <1>5
  <2> HIDE DEF B
  <2>3. Cardinality(B \union {x}) = Cardinality(B) + 1
    BY <2>1, <2>2, FS_AddElement
  <2>4. Cardinality(B \union {x}) <= Cardinality(T)
    BY <2>2, FS_Subset
  <2> QED
    BY <2>3, <2>4 DEF B
<1>6. ASSUME NEW x \in S, NEW y \in S, x < y
      PROVE  Cardinality(Below(S, x)) + 1 <= Cardinality(Below(S, y))
  <2>1. \A m \in S : m < x => m < y
    BY <1>1, <1>6
  <2>2. Below(S, x) \union {x} \subseteq Below(S, y)
    BY <1>6, <2>1 DEF Below
  <2> QED
    BY <1>4, <1>5, <2>2
<1>7. ASSUME NEW x \in S
      PROVE  Cardinality(Below(S, x)) + 1 <= Cardinality(S)
  BY <1>4, <1>5
<1>8. ASSUME NEW x \in S, NEW y \in S, x <= y
      PROVE  Cardinality(Below(S, x)) <= Cardinality(Below(S, y))
  <2>1. \A m \in S : m < x => m < y
    BY <1>1, <1>8
  <2>2. Below(S, x) \in SUBSET Below(S, y)
    BY <2>1 DEF Below
  <2> QED
    BY <1>3, <1>4, <2>2, FS_Subset
<1> QED
  BY <1>2, <1>3, <1>4, <1>6, <1>7, <1>8

\* Every place in the order is taken.
LEMMA EveryRank ==
  ASSUME NEW N \in Nat, NEW S \in SUBSET (0..(N - 1)), NEW i \in 1..Cardinality(S)
  PROVE  \E x \in S : Cardinality(Below(S, x)) = i - 1
<1> DEFINE Bad == {n \in Nat : \E T \in SUBSET (0..(n - 1)) : \E j \in 1..Cardinality(T) :
                                  ~ \E x \in T : Cardinality(Below(T, x)) = j - 1}
<1>1. ASSUME Bad # {}
      PROVE  FALSE
  <2>1. PICK n \in Bad : \A m \in Bad : n <= m
    <3>1. Bad \in SUBSET Nat
      OBVIOUS
    <3> HIDE DEF Bad
    <3> QED
      BY <1>1, <3>1, HasMinimum
  <2>2. PICK T \in SUBSET (0..(n - 1)) : \E j \in 1..Cardinality(T) :
               ~ \E x \in T : Cardinality(Below(T, x)) = j - 1
    OBVIOUS
  <2>3. PICK j \in 1..Cardinality(T) : ~ \E x \in T : Cardinality(Below(T, x)) = j - 1
    BY <2>2
  <2>4. n \in Nat
    OBVIOUS
  <2>5. IsFiniteSet(T) /\ Cardinality(T) \in Nat
    BY <2>4, BelowSizes
  <2>6. T # {}
    BY <2>3, FS_EmptySet
  <2>7. n - 1 \in Nat
    <3>1. PICK x \in T : x \in 0..(n - 1)
      BY <2>6
    <3> QED
      BY <2>4, <3>1
  <2> DEFINE p == n - 1
             U == T \ {p}
  <2>8. U \in SUBSET (0..(p - 1))
    BY <2>7
  <2>9. p \notin Bad
    <3>1. ~(n <= p)
      BY <2>4
    <3> QED
      BY <2>1, <3>1
  <2>10. \A k \in 1..Cardinality(U) : \E x \in U : Cardinality(Below(U, x)) = k - 1
    BY <2>7, <2>8, <2>9
  <2>11. ASSUME NEW x \in U
         PROVE  Below(T, x) = Below(U, x)
    BY <2>4, <2>8 DEF Below
  <2>12. Cardinality(U) = (IF p \in T THEN Cardinality(T) - 1 ELSE Cardinality(T))
    BY <2>5, FS_RemoveElement
  <2>13. Below(T, p) = U
    <3>1. \A m \in T : m \in Int /\ m <= p
      BY <2>4
    <3>2. \A m \in T : m < p <=> m # p
      BY <2>7, <3>1
    <3> HIDE DEF p
    <3> QED
      BY <3>2 DEF Below
  <2> HIDE DEF p, U, Bad
  <2>14. CASE j \in 1..Cardinality(U)
    <3>1. PICK x \in U : Cardinality(Below(U, x)) = j - 1
      BY <2>10, <2>14
    <3> QED
      BY <2>3, <2>11, <3>1 DEF U
  <2>15. CASE j \notin 1..Cardinality(U)
    <3>1. p \in T /\ j = Cardinality(T) /\ Cardinality(U) = j - 1
      BY <2>5, <2>12, <2>15
    <3> QED
      BY <2>3, <2>13, <3>1
  <2> QED
    BY <2>14, <2>15
<1>2. N \notin Bad
  BY <1>1
<1> QED
  BY <1>2

\* a lists the numbers of S: the first is the least, the last the greatest,
\* and nothing of S is between two neighbours.
Sorts(a, S) ==
  /\ Len(a) = Cardinality(S) /\ Cardinality(S) \in Nat
  /\ (a = << >>) <=> (S = {})
  /\ \A i \in 1..Len(a) : a[i] \in S
  /\ S # {} => Len(a) >= 1 /\ \A x \in S : a[1] <= x /\ x <= a[Len(a)]
  /\ \A i \in 2..Len(a) : a[i - 1] < a[i] /\ ~ \E x \in S : a[i - 1] < x /\ x < a[i]

\* Ascending sorts any bounded set of naturals.
LEMMA AscendingSorts ==
  ASSUME NEW N \in Nat, NEW S \in SUBSET (0..(N - 1))
  PROVE  Sorts(Ascending(S), S)
<1> DEFINE a == Ascending(S)
           c == Cardinality(S)
<1>1. /\ IsFiniteSet(S) /\ c \in Nat
      /\ \A x : Cardinality(Below(S, x)) \in Nat
      /\ \A x, y \in S : x <= y => Cardinality(Below(S, x)) <= Cardinality(Below(S, y))
      /\ \A x, y \in S : x < y => Cardinality(Below(S, x)) + 1 <= Cardinality(Below(S, y))
      /\ \A x \in S : Cardinality(Below(S, x)) + 1 <= c
  BY BelowSizes
<1>2. a = [i \in 1..c |-> CHOOSE n \in S : Cardinality(Below(S, n)) = i - 1]
  BY DEF Ascending, Below
<1>3. \A i \in 1..c : \E x \in S : Cardinality(Below(S, x)) = i - 1
  BY EveryRank
<1> HIDE DEF a
<1>4. ASSUME NEW i \in 1..c
      PROVE  a[i] \in S /\ Cardinality(Below(S, a[i])) = i - 1
  BY <1>2, <1>3
<1> HIDE DEF c
<1>5. DOMAIN a = 1..c /\ Len(a) = c
  BY <1>1, <1>2
<1>6. S \subseteq Int
  OBVIOUS
<1>7. (c = 0) <=> (S = {})
  BY <1>1, FS_EmptySet DEF c
<1>8. (a = << >>) <=> (S = {})
  BY <1>1, <1>2, <1>5, <1>7
<1>9. ASSUME S # {}, NEW x \in S
      PROVE  a[1] <= x /\ x <= a[c]
  <2>1. c >= 1
    BY <1>1, <1>7, <1>9
  <2>2. /\ a[1] \in S /\ Cardinality(Below(S, a[1])) = 0
        /\ a[c] \in S /\ Cardinality(Below(S, a[c])) = c - 1
    <3>1. 1 \in 1..c /\ c \in 1..c /\ 1 - 1 = 0
      BY <1>1, <2>1
    <3> QED
      BY <1>4, <3>1
  <2>3. ~(x < a[1])
    <3>1. x < a[1] => Cardinality(Below(S, x)) + 1 <= 0
      BY <1>1, <2>2
    <3>2. Cardinality(Below(S, x)) \in Nat
      BY <1>1
    <3> QED
      BY <3>1, <3>2
  <2>4. ~(a[c] < x)
    <3>1. a[c] < x => (c - 1) + 1 <= Cardinality(Below(S, x))
      BY <1>1, <2>2
    <3>2. Cardinality(Below(S, x)) \in Nat /\ Cardinality(Below(S, x)) + 1 <= c /\ c \in Nat
      BY <1>1
    <3> QED
      BY <3>1, <3>2
  <2>5. x \in Int /\ a[1] \in Int /\ a[c] \in Int
    BY <1>6, <1>9, <2>2
  <2> QED
    BY <2>3, <2>4, <2>5
<1>10. ASSUME NEW i \in 2..c
       PROVE  a[i - 1] < a[i] /\ ~ \E x \in S : a[i - 1] < x /\ x < a[i]
  <2>1. i \in 1..c /\ i - 1 \in 1..c /\ i \in Int
    BY <1>1
  <2>2. /\ a[i] \in S /\ Cardinality(Below(S, a[i])) = i - 1
        /\ a[i - 1] \in S /\ Cardinality(Below(S, a[i - 1])) = (i - 1) - 1
    BY <1>4, <2>1
  <2>3. ~(a[i] <= a[i - 1])
    <3>1. a[i] <= a[i - 1] => i - 1 <= (i - 1) - 1
      BY <1>1, <2>2
    <3> QED
      BY <2>1, <3>1
  <2>4. ASSUME NEW x \in S, a[i - 1] < x, x < a[i]
        PROVE  FALSE
    <3>1. /\ ((i - 1) - 1) + 1 <= Cardinality(Below(S, x))
          /\ Cardinality(Below(S, x)) + 1 <= i - 1
      BY <1>1, <2>2, <2>4
    <3>2. Cardinality(Below(S, x)) \in Nat
      BY <1>1
    <3> QED
      BY <2>1, <3>1, <3>2
  <2>5. a[i] \in Int /\ a[i - 1] \in Int
    BY <1>6, <2>2
  <2>6. a[i - 1] < a[i]
    BY <2>3, <2>5
  <2> QED
    BY <2>4, <2>6
<1>11. S # {} => c >= 1
  <2>1. S # {} => c # 0
    BY <1>7
  <2> QED
    BY <1>1, <2>1 DEF c
<1> QED
  BY <1>1, <1>4, <1>5, <1>8, <1>9, <1>10, <1>11 DEF Sorts, a, c

-----------------------------------------------------------------------------
(* The accesses in a segment, against the dictionary.                      *)

\* The accesses of a key among the first n of a segment.
AccessesWith(data, s, n, key) == {i \in 0..(n - 1) : AccessAt(data, s, i).key = key}

\* The first starts from the value the key had before, each other one from the
\* value of the one before it, and the last ends in the value it has now.
Replays(data, s, n, key, before, now) ==
  LET S     == AccessesWith(data, s, n, key)
      at(i) == AccessAt(data, s, i)
  IN  /\ S = {} => now = before
      /\ \A i \in S : (\A j \in S : i <= j) => at(i).prev_value = IntValue(before)
      /\ \A i \in S : (\A j \in S : j <= i) => at(i).new_value = IntValue(now)
      /\ \A i, j \in S : (i < j /\ ~ \E m \in S : i < m /\ m < j) =>
           at(j).prev_value = at(i).new_value

\* The first n accesses of a segment are the same in two memories.
SameAccesses(data, after, s, n) ==
  \A i \in 0..(n - 1) : AccessAt(after, s, i) = AccessAt(data, s, i)

\* Accesses that are not touched still replay.
LEMMA ReplaysKept ==
  ASSUME NEW data, NEW after, NEW s, NEW n, NEW key, NEW before, NEW now,
         SameAccesses(data, after, s, n), Replays(data, s, n, key, before, now)
  PROVE  Replays(after, s, n, key, before, now)
<1> DEFINE S == AccessesWith(data, s, n, key)
<1>1. \A i \in 0..(n - 1) : AccessAt(after, s, i) = AccessAt(data, s, i)
  BY DEF SameAccesses
<1>2. AccessesWith(after, s, n, key) = S /\ S \subseteq 0..(n - 1)
  BY <1>1 DEF AccessesWith
<1> HIDE DEF S
<1>3. \A i \in S : AccessAt(after, s, i) = AccessAt(data, s, i)
  BY <1>1, <1>2
<1> QED
  BY <1>2, <1>3 DEF Replays, S

\* So they do with an access of another key after them.
LEMMA ReplaysOther ==
  ASSUME NEW data, NEW s, NEW n \in Nat, NEW key, NEW before, NEW now,
         AccessAt(data, s, n).key # key, Replays(data, s, n, key, before, now)
  PROVE  Replays(data, s, n + 1, key, before, now)
<1>1. 0..((n + 1) - 1) = (0..(n - 1)) \union {n}
  OBVIOUS
<1>2. AccessesWith(data, s, n + 1, key) = AccessesWith(data, s, n, key)
  BY <1>1 DEF AccessesWith
<1> QED
  BY <1>2 DEF Replays

\* And with one more access of the key, from the value it had.
LEMMA ReplaysNext ==
  ASSUME NEW data, NEW s, NEW n \in Nat, NEW key, NEW before, NEW now, NEW value,
         AccessAt(data, s, n).key = key,
         AccessAt(data, s, n).prev_value = IntValue(now),
         AccessAt(data, s, n).new_value = IntValue(value),
         Replays(data, s, n, key, before, now)
  PROVE  Replays(data, s, n + 1, key, before, value)
<1> DEFINE S == AccessesWith(data, s, n, key)
           T == AccessesWith(data, s, n + 1, key)
           prev(i) == AccessAt(data, s, i).prev_value
           new(i)  == AccessAt(data, s, i).new_value
<1>1. 0..((n + 1) - 1) = (0..(n - 1)) \union {n}
  OBVIOUS
<1>2. T = S \union {n} /\ S \subseteq 0..(n - 1)
  BY <1>1 DEF AccessesWith
<1>3. \A i \in S : i \in Int /\ i < n
  BY <1>2
<1>4. /\ S = {} => now = before
      /\ \A i \in S : (\A j \in S : i <= j) => prev(i) = IntValue(before)
      /\ \A i \in S : (\A j \in S : j <= i) => new(i) = IntValue(now)
      /\ \A i, j \in S : (i < j /\ ~ \E m \in S : i < m /\ m < j) => prev(j) = new(i)
  BY DEF Replays
<1>5. prev(n) = IntValue(now) /\ new(n) = IntValue(value)
  OBVIOUS
<1> HIDE DEF S, T, prev, new
<1>6. T # {}
  BY <1>2
<1>7. ASSUME NEW i \in T, \A j \in T : i <= j
      PROVE  prev(i) = IntValue(before)
  <2>1. CASE i \in S
    BY <1>2, <1>4, <1>7, <2>1
  <2>2. CASE i \notin S
    <3>1. i = n
      BY <1>2, <2>2
    <3>2. S = {}
      BY <1>2, <1>3, <1>7, <3>1
    <3> QED
      BY <1>4, <1>5, <3>1, <3>2
  <2> QED
    BY <2>1, <2>2
<1>8. ASSUME NEW i \in T, \A j \in T : j <= i
      PROVE  new(i) = IntValue(value)
  <2>1. i = n
    BY <1>2, <1>3, <1>8
  <2> QED
    BY <1>5, <2>1
<1>9. ASSUME NEW i \in T, NEW j \in T, i < j, ~ \E m \in T : i < m /\ m < j
      PROVE  prev(j) = new(i)
  <2>1. i \in S
    BY <1>2, <1>3, <1>9
  <2>2. CASE j \in S
    BY <1>2, <1>4, <1>9, <2>1, <2>2
  <2>3. CASE j \notin S
    <3>1. j = n
      BY <1>2, <2>3
    <3>2. \A m \in S : m <= i
      BY <1>2, <1>3, <1>9, <2>1, <3>1
    <3> QED
      BY <1>4, <1>5, <2>1, <3>1, <3>2
  <2> QED
    BY <2>2, <2>3
<1> QED
  BY <1>6, <1>7, <1>8, <1>9 DEF Replays, T, prev, new

\* What a key maps to in a dictionary of program p when it is created.
GivenTo(p, default_value, k) ==
  IF k \in DOMAIN Given(p) THEN Given(p)[k] ELSE default_value

\* The first n accesses of a segment have all their fields.
Recorded(data, s, n) ==
  \A i \in 0..(n - 1), j \in 0..2 :
    Cell(data, RelocatableValue(s, DictAccessSize * i + j)) # None

\* The n accesses to the dictionary at s end at the pointer of its tracker, and
\* replay to it.
LogKept(v, p, s, n) ==
  /\ v.trackers[s].current_ptr = RelocatableValue(s, DictAccessSize * n)
  /\ Recorded(v.memory.data, s, n)
  /\ \A k \in Keys :
       Replays(v.memory.data, s, n, IntValue(k),
               GivenTo(p, v.trackers[s].data.default_value, k),
               Current(v.trackers[s].data, k))

LogInv ==
  /\ made <= program.accesses
  /\ (error = "ok" /\ ~reused) =>
       \A s \in DOMAIN vm.trackers :
         /\ s \in DOMAIN ptrs
         /\ \E n \in Nat : /\ n <= made /\ ptrs[s] = DictAccessSize * n
                           /\ LogKept(vm, program, s, n)

\* A memory that has grown has the accesses it had.
LEMMA RecordedGrows ==
  ASSUME NEW m, NEW g, Grows(m, g), NEW s \in Nat, NEW n \in Nat, Recorded(m.data, s, n)
  PROVE  Recorded(g.data, s, n) /\ SameAccesses(m.data, g.data, s, n)
<1> DEFINE a(i, j) == RelocatableValue(s, DictAccessSize * i + j)
<1>1. ASSUME NEW i \in 0..(n - 1), NEW j \in 0..2
      PROVE  /\ Cell(g.data, a(i, j)) # None
             /\ Cell(g.data, a(i, j)) = Cell(m.data, a(i, j))
  <2>1. a(i, j) \in Relocatables
    <3>1. DictAccessSize * i + j \in Nat
      BY DEF DictAccessSize
    <3> QED
      BY <3>1 DEF RelocatableValue, Relocatables
  <2>2. Cell(m.data, a(i, j)) # None
    BY DEF Recorded
  <2> HIDE DEF a
  <2> QED
    BY <2>1, <2>2 DEF Grows
<1>2. Recorded(g.data, s, n)
  BY <1>1 DEF Recorded
<1>3. ASSUME NEW i \in 0..(n - 1)
      PROVE  AccessAt(g.data, s, i) = AccessAt(m.data, s, i)
  <2>1. 0 \in 0..2 /\ 1 \in 0..2 /\ 2 \in 0..2
    OBVIOUS
  <2>2. /\ Cell(g.data, a(i, 0)) = Cell(m.data, a(i, 0))
        /\ Cell(g.data, a(i, 1)) = Cell(m.data, a(i, 1))
        /\ Cell(g.data, a(i, 2)) = Cell(m.data, a(i, 2))
    BY <1>1, <2>1
  <2> QED
    BY <2>2 DEF AccessAt
<1> QED
  BY <1>2, <1>3 DEF SameAccesses

\* The log of a dictionary whose map and pointer have not changed.
LEMMA LogStays ==
  ASSUME NEW v, NEW w, NEW p, NEW s \in Nat, NEW n \in Nat, LogKept(v, p, s, n),
         Recorded(w.memory.data, s, n), SameAccesses(v.memory.data, w.memory.data, s, n),
         w.trackers[s].current_ptr = v.trackers[s].current_ptr,
         w.trackers[s].data.default_value = v.trackers[s].data.default_value,
         \A k : Current(w.trackers[s].data, k) = Current(v.trackers[s].data, k)
  PROVE  LogKept(w, p, s, n)
  BY ReplaysKept DEF LogKept

\* The log of the dictionary that was accessed.
LEMMA LogAppended ==
  ASSUME NEW v, NEW w, NEW p, NEW s \in DOMAIN v.trackers, s \in Nat, NEW n \in Nat,
         NEW k \in Keys, NEW value \in Int,
         LogKept(v, p, s, n), Grows(v.memory, w.memory),
         Current(v.trackers[s].data, k) \in Int, PutMap(v, w, s, k, value),
         w.trackers[s].current_ptr = NextPointer(v.trackers[s].current_ptr),
         Logged(w.memory.data, s, DictAccessSize * n, k, Current(v.trackers[s].data, k), value)
  PROVE  LogKept(w, p, s, n + 1)
<1> DEFINE data == w.memory.data
           was  == Current(v.trackers[s].data, k)
           d    == v.trackers[s].data.default_value
<1>1. DictAccessSize * (n + 1) = DictAccessSize * n + DictAccessSize
  BY DEF DictAccessSize
<1>2. /\ v.trackers[s].current_ptr = RelocatableValue(s, DictAccessSize * n)
      /\ Recorded(v.memory.data, s, n)
      /\ \A j \in Keys :
           Replays(v.memory.data, s, n, IntValue(j), GivenTo(p, d, j),
                   Current(v.trackers[s].data, j))
  BY DEF LogKept
<1>3. w.trackers[s].current_ptr = RelocatableValue(s, DictAccessSize * (n + 1))
  BY <1>1, <1>2 DEF NextPointer, RelocatableValue
<1>4. Recorded(data, s, n) /\ SameAccesses(v.memory.data, data, s, n)
  BY <1>2, RecordedGrows
<1>5. /\ Cell(data, RelocatableValue(s, DictAccessSize * n)) = IntValue(k)
      /\ Cell(data, RelocatableValue(s, DictAccessSize * n + 1)) = IntValue(was)
      /\ Cell(data, RelocatableValue(s, DictAccessSize * n + 2)) = IntValue(value)
  BY DEF Logged
<1>6. /\ w.trackers[s].data.default_value = d
      /\ \A j : Current(w.trackers[s].data, j) =
                  IF j = k THEN value ELSE Current(v.trackers[s].data, j)
  BY DEF PutMap
<1> HIDE DEF data, was, d
<1>7. DictAccessSize * n + 0 = DictAccessSize * n
  BY DEF DictAccessSize
<1>8. Recorded(data, s, n + 1)
  <2> SUFFICES ASSUME NEW i \in 0..((n + 1) - 1), NEW j \in 0..2
               PROVE  Cell(data, RelocatableValue(s, DictAccessSize * i + j)) # None
    BY DEF Recorded
  <2>1. CASE i \in 0..(n - 1)
    BY <1>4, <2>1 DEF Recorded
  <2>2. CASE i \notin 0..(n - 1)
    <3>1. i = n /\ (j = 0 \/ j = 1 \/ j = 2)
      BY <2>2
    <3>2. IntValue(k) # None /\ IntValue(was) # None /\ IntValue(value) # None
      BY IntValueKnown, NumbersKnown DEF was
    <3> QED
      BY <1>5, <1>7, <3>1, <3>2
  <2> QED
    BY <2>1, <2>2
<1>9. /\ AccessAt(data, s, n).key = IntValue(k)
      /\ AccessAt(data, s, n).prev_value = IntValue(was)
      /\ AccessAt(data, s, n).new_value = IntValue(value)
  BY <1>5, <1>7 DEF AccessAt
<1>10. ASSUME NEW j \in Keys
       PROVE  Replays(data, s, n + 1, IntValue(j), GivenTo(p, d, j),
                      Current(w.trackers[s].data, j))
  <2>1. Replays(data, s, n, IntValue(j), GivenTo(p, d, j), Current(v.trackers[s].data, j))
    BY <1>2, <1>4, ReplaysKept
  <2>2. CASE j = k
    BY <1>6, <1>9, <2>1, <2>2, ReplaysNext DEF was
  <2>3. CASE j # k
    <3>1. IntValue(j) # IntValue(k)
      BY <2>3, NumbersKnown, IntValueKnown
    <3> QED
      BY <1>6, <1>9, <2>1, <2>3, <3>1, ReplaysOther
  <2> QED
    BY <2>2, <2>3
<1> QED
  BY <1>3, <1>6, <1>8, <1>10 DEF LogKept, data

\* A new dictionary has no accesses.
LEMMA LogStarts ==
  ASSUME NEW v, NEW p, NEW s,
         v.trackers[s].current_ptr = RelocatableValue(s, 0),
         v.trackers[s].data.entries = Given(p)
  PROVE  LogKept(v, p, s, 0)
<1>1. DictAccessSize * 0 = 0
  BY DEF DictAccessSize
<1>2. 0..(0 - 1) = {}
  OBVIOUS
<1>3. Recorded(v.memory.data, s, 0)
  BY <1>2 DEF Recorded
<1>4. \A k \in Keys : Current(v.trackers[s].data, k) =
                        GivenTo(p, v.trackers[s].data.default_value, k)
  BY DEF Current, GivenTo
<1>5. \A k : AccessesWith(v.memory.data, s, 0, IntValue(k)) = {}
  BY <1>2 DEF AccessesWith
<1> QED
  BY <1>1, <1>3, <1>4, <1>5 DEF LogKept, Replays

\* The invariant holds at first.
LEMMA LogInvInit == Init => LogInv
<1> SUFFICES ASSUME Init
             PROVE  LogInv
  OBVIOUS
<1>1. vm.trackers = << >> /\ made = 0 /\ program \in Programs
  BY DEF Init
<1>2. program.accesses \in Nat
  BY <1>1, ProgramsAssumption
<1> QED
  BY <1>1, <1>2 DEF LogInv

\* A new dictionary, beside the others.
LEMMA LogInvAdded ==
  ASSUME MapInv, LogInv, NEW d, DictionaryAdded(d)
  PROVE  LogInv'
<1>1. /\ UNCHANGED <<program, made, reused>> /\ error = "ok"
      /\ ptrs' = (IF error' = "ok" THEN Put(ptrs, Len(vm.memory.data), 0) ELSE ptrs)
      /\ SameCells(vm, vm') /\ d.entries = Given(program)
      /\ error' = "ok" => Created(vm, vm', d)
  BY DEF DictionaryAdded, NewTrackerOutcome
<1> SUFFICES ASSUME error' = "ok", ~reused, NEW s \in DOMAIN vm'.trackers
             PROVE  /\ s \in DOMAIN ptrs'
                    /\ \E n \in Nat : /\ n <= made /\ ptrs'[s] = DictAccessSize * n
                                      /\ LogKept(vm', program, s, n)
  BY <1>1 DEF LogInv
<1> DEFINE m == Len(vm.memory.data)
<1>2. /\ m \notin DOMAIN vm.trackers
      /\ DOMAIN vm'.trackers = DOMAIN vm.trackers \union {m}
      /\ vm'.trackers[m] = [data |-> d, current_ptr |-> RelocatableValue(m, 0)]
      /\ \A t \in DOMAIN vm.trackers : vm'.trackers[t] = vm.trackers[t]
      /\ ptrs' = Put(ptrs, m, 0)
  BY <1>1 DEF Created
<1> HIDE DEF m
<1>3. made \in Nat
  BY DEF MapInv
<1>4. CASE s = m
  <2>1. s \in DOMAIN ptrs' /\ ptrs'[s] = 0
    BY <1>2, <1>4 DEF Put
  <2>2. LogKept(vm', program, s, 0)
    BY <1>1, <1>2, <1>4, LogStarts
  <2>3. DictAccessSize * 0 = 0 /\ 0 <= made
    BY <1>3 DEF DictAccessSize
  <2> QED
    BY <2>1, <2>2, <2>3
<1>5. CASE s # m
  <2>1. s \in DOMAIN vm.trackers /\ vm'.trackers[s] = vm.trackers[s] /\ s \in Nat
    BY <1>2, <1>5 DEF MapInv, Sound
  <2>2. PICK n \in Nat : /\ n <= made /\ ptrs[s] = DictAccessSize * n
                         /\ LogKept(vm, program, s, n)
    BY <1>1, <2>1 DEF LogInv
  <2>3. s \in DOMAIN ptrs /\ s \in DOMAIN ptrs' /\ ptrs'[s] = ptrs[s]
    BY <1>1, <1>2, <1>5, <2>1 DEF LogInv, Put
  <2>4. \A i, j \in Nat : Cell(vm'.memory.data, RelocatableValue(s, DictAccessSize * i + j)) =
                          Cell(vm.memory.data, RelocatableValue(s, DictAccessSize * i + j))
    <3>1. ASSUME NEW i \in Nat, NEW j \in Nat
          PROVE  RelocatableValue(s, DictAccessSize * i + j) \in Relocatables
      <4>1. DictAccessSize * i + j \in Nat
        BY DEF DictAccessSize
      <4> QED
        BY <2>1, <4>1 DEF RelocatableValue, Relocatables
    <3> QED
      BY <1>1, <3>1 DEF SameCells
  <2>5. SameAccesses(vm.memory.data, vm'.memory.data, s, n)
    <3>1. 0 \in Nat /\ 1 \in Nat /\ 2 \in Nat /\ \A i \in 0..(n - 1) : i \in Nat
      OBVIOUS
    <3> QED
      BY <2>4, <3>1 DEF SameAccesses, AccessAt
  <2>6. Recorded(vm'.memory.data, s, n)
    <3>1. Recorded(vm.memory.data, s, n)
      BY <2>2 DEF LogKept
    <3>2. \A i \in 0..(n - 1), j \in 0..2 : i \in Nat /\ j \in Nat
      OBVIOUS
    <3> QED
      BY <2>4, <3>1, <3>2 DEF Recorded
  <2>7. LogKept(vm', program, s, n)
    BY <2>1, <2>2, <2>5, <2>6, LogStays
  <2> QED
    BY <2>2, <2>3, <2>7
<1> QED
  BY <1>4, <1>5

\* One more access.
LEMMA LogInvAccessed ==
  ASSUME MapInv, LogInv, NEW s \in DOMAIN ptrs, NEW k \in Keys, NEW off, NEW value,
         Accessed(s, off, k, value)
  PROVE  LogInv'
<1> DEFINE now == Current(vm.trackers[s].data, k)
<1>1. /\ error = "ok" /\ program' = program /\ off \in Nat
      /\ made < program.accesses /\ made' = made + 1
      /\ reused' = (reused \/ off # ptrs[s])
      /\ ptrs' = IF error' = "ok"
                 THEN Put(ptrs, s, IF off = ptrs[s] THEN off + DictAccessSize ELSE ptrs[s])
                 ELSE ptrs
      /\ Sound(vm') /\ Grows(vm.memory, vm'.memory)
      /\ error' = "ok" =>
           /\ s \in DOMAIN vm.trackers /\ now # None
           /\ PutMap(vm, vm', s, k, value)
           /\ Advanced(vm, vm', s)
           /\ off + 2 <= UsizeMax => Logged(vm'.memory.data, s, off, k, now, value)
      /\ value \in Vals \/ value = now
  BY DEF Accessed, AccessDone
<1>2. program.accesses \in Nat /\ DictAccessSize * program.accesses <= UsizeMax /\ made \in Nat
  <2>1. program.array \in Seq(Elements)
    BY ProgramsAssumption DEF MapInv, Elements
  <2>2. Len(program.array) \in Nat
    BY <2>1, LenProperties
  <2> QED
    BY <2>2, ProgramsAssumption, FieldAssumption DEF MapInv, DictAccessSize
<1>3. made' <= program'.accesses
  BY <1>1, <1>2
<1> SUFFICES ASSUME error' = "ok", ~reused', NEW t \in DOMAIN vm'.trackers
             PROVE  /\ t \in DOMAIN ptrs'
                    /\ \E n \in Nat : /\ n <= made' /\ ptrs'[t] = DictAccessSize * n
                                      /\ LogKept(vm', program, t, n)
  BY <1>1, <1>3 DEF LogInv
<1>4. ~reused /\ off = ptrs[s]
  BY <1>1
<1>5. /\ s \in DOMAIN vm.trackers /\ now # None
      /\ PutMap(vm, vm', s, k, value) /\ Advanced(vm, vm', s)
      /\ off + 2 <= UsizeMax => Logged(vm'.memory.data, s, off, k, now, value)
      /\ ptrs' = Put(ptrs, s, off + DictAccessSize)
  BY <1>1, <1>4
<1>6. DOMAIN vm'.trackers = DOMAIN vm.trackers
  BY <1>5 DEF PutMap
<1>7. t \in Nat /\ t \in DOMAIN vm.trackers /\ t \in DOMAIN ptrs
  BY <1>1, <1>4, <1>6 DEF MapInv, Sound, LogInv
<1>8. PICK n \in Nat : /\ n <= made /\ ptrs[t] = DictAccessSize * n
                       /\ LogKept(vm, program, t, n)
  BY <1>1, <1>4, <1>7 DEF LogInv
<1>9. t \in DOMAIN ptrs'
  BY <1>5, <1>7 DEF Put
<1>10. CASE t = s
  <2>1. now \in Int /\ value \in Int
    <3>1. now \in Vals \union {None}
      BY <1>5, CurrentValue DEF MapInv, Sound, IsTracker
    <3> HIDE DEF now
    <3> QED
      BY <1>1, <1>5, <3>1, NumbersKnown
  <2>2. off = DictAccessSize * n
    BY <1>4, <1>8, <1>10
  <2>3. off + 2 <= UsizeMax
    BY <1>1, <1>2, <1>8, <2>2, FieldAssumption DEF DictAccessSize
  <2>4. Logged(vm'.memory.data, s, DictAccessSize * n, k, now, value)
    BY <1>5, <2>2, <2>3
  <2>5. vm'.trackers[s].current_ptr = NextPointer(vm.trackers[s].current_ptr)
    BY <1>5 DEF Advanced
  <2>6. LogKept(vm', program, s, n + 1)
    BY <1>1, <1>5, <1>7, <1>8, <1>10, <2>1, <2>4, <2>5, LogAppended
  <2>7. ptrs'[s] = off + DictAccessSize
    BY <1>5 DEF Put
  <2>8. ptrs'[s] = DictAccessSize * (n + 1) /\ n + 1 <= made' /\ n + 1 \in Nat
    BY <1>1, <1>2, <1>8, <2>2, <2>7 DEF DictAccessSize
  <2> QED
    BY <1>9, <1>10, <2>6, <2>8
<1>11. CASE t # s
  <2>1. ptrs'[t] = ptrs[t]
    BY <1>5, <1>7, <1>11 DEF Put
  <2>2. Recorded(vm.memory.data, t, n)
    BY <1>8 DEF LogKept
  <2>3. /\ Recorded(vm'.memory.data, t, n)
        /\ SameAccesses(vm.memory.data, vm'.memory.data, t, n)
    BY <1>1, <1>7, <2>2, RecordedGrows
  <2>4. /\ vm'.trackers[t].current_ptr = vm.trackers[t].current_ptr
        /\ vm'.trackers[t].data.default_value = vm.trackers[t].data.default_value
        /\ \A j : Current(vm'.trackers[t].data, j) = Current(vm.trackers[t].data, j)
    BY <1>5, <1>7, <1>11 DEF Advanced, PutMap
  <2>5. LogKept(vm', program, t, n)
    BY <1>7, <1>8, <2>3, <2>4, LogStays
  <2>6. n <= made'
    BY <1>1, <1>2, <1>8
  <2> QED
    BY <1>8, <1>9, <2>1, <2>5, <2>6
<1> QED
  BY <1>10, <1>11

\* Every step keeps the log.
LEMMA LogInvNext == MapInv /\ LogInv /\ [Next]_vars => LogInv'
<1> SUFFICES ASSUME MapInv, LogInv, [Next]_vars
             PROVE  LogInv'
  OBVIOUS
<1>1. CASE Squashing
  <2>1. /\ UNCHANGED <<program, ptrs, made, reused>> /\ error = "ok"
        /\ vm'.memory = vm.memory /\ vm'.trackers = vm.trackers
    BY <1>1 DEF Squashing
  <2>2. \A s, n : LogKept(vm, program, s, n) => LogKept(vm', program, s, n)
    BY <2>1 DEF LogKept
  <2> QED
    BY <2>1, <2>2 DEF LogInv
<1>2. CASE UNCHANGED vars
  BY <1>2 DEF vars, LogInv
<1> QED
  BY <1>1, <1>2, NextTaken, LogInvAdded, LogInvAccessed

\* The indices of the accesses of a key, and what is at them.
LEMMA IndicesSorted ==
  ASSUME NEW s, NEW n \in Nat, NEW key
  PROVE  Sorts(Indices(s, n, key), AccessesWith(vm.memory.data, s, n, key))
<1> DEFINE S == AccessesWith(vm.memory.data, s, n, key)
<1>1. S \in SUBSET (0..(n - 1))
  BY DEF AccessesWith
<1>2. Indices(s, n, key) = Ascending(S)
  BY DEF Indices, AccessesWith
<1> HIDE DEF S
<1>3. Sorts(Ascending(S), S)
  BY <1>1, AscendingSorts
<1> QED
  BY <1>2, <1>3 DEF S

\* The accesses in the order of their indices.
LEMMA ReplaysInOrder ==
  ASSUME NEW s, NEW n \in Nat, NEW key, NEW before, NEW now,
         Replays(vm.memory.data, s, n, key, before, now)
  PROVE  LET indices == Indices(s, n, key)
             at(i)   == AccessAt(vm.memory.data, s, i)
         IN  /\ Chained(s, n, key)
             /\ indices = << >> => now = before
             /\ indices # << >> => /\ at(indices[1]).prev_value = IntValue(before)
                                   /\ at(Last(indices)).new_value = IntValue(now)
<1> DEFINE S == AccessesWith(vm.memory.data, s, n, key)
           a == Indices(s, n, key)
           c == Len(a)
           prev(i) == AccessAt(vm.memory.data, s, i).prev_value
           new(i)  == AccessAt(vm.memory.data, s, i).new_value
<1>1. Sorts(a, S)
  BY IndicesSorted
<1>2. /\ S = {} => now = before
      /\ \A i \in S : (\A j \in S : i <= j) => prev(i) = IntValue(before)
      /\ \A i \in S : (\A j \in S : j <= i) => new(i) = IntValue(now)
      /\ \A i, j \in S : (i < j /\ ~ \E m \in S : i < m /\ m < j) => prev(j) = new(i)
  BY DEF Replays
<1>3. Last(a) = a[c]
  BY DEF Last
<1> HIDE DEF S, a, c, prev, new
<1>4. /\ c \in Nat
      /\ (a = << >>) <=> (S = {})
      /\ \A i \in 1..c : a[i] \in S
      /\ S # {} => c >= 1 /\ \A x \in S : a[1] <= x /\ x <= a[c]
      /\ \A i \in 2..c : a[i - 1] < a[i] /\ ~ \E x \in S : a[i - 1] < x /\ x < a[i]
  BY <1>1 DEF Sorts, c
<1>5. ASSUME NEW i \in 2..c
      PROVE  prev(a[i]) = new(a[i - 1])
  <2>1. i \in 1..c /\ i - 1 \in 1..c
    BY <1>4
  <2>2. a[i] \in S /\ a[i - 1] \in S
    BY <1>4, <2>1
  <2> QED
    BY <1>2, <1>4, <2>2
<1>6. Chained(s, n, key)
  BY <1>5 DEF Chained, a, c, prev, new
<1>7. ASSUME a # << >>
      PROVE  prev(a[1]) = IntValue(before) /\ new(a[c]) = IntValue(now)
  <2>1. S # {} /\ c >= 1 /\ 1 \in 1..c /\ c \in 1..c
    BY <1>4, <1>7
  <2>2. a[1] \in S /\ a[c] \in S
    BY <1>4, <2>1
  <2> QED
    BY <1>2, <1>4, <2>1, <2>2
<1> QED
  BY <1>2, <1>3, <1>4, <1>6, <1>7 DEF a, c, prev, new

\* The accesses that a program has made through its dict_ptr replay to the
\* dictionary that the manager holds.  (DictHints!DictRead, DictWrite,
\* DictUpdate: what they leave in the tracker and in the memory)
THEOREM DictionaryLogReplays == Spec => []LogReplays
<1>1. MapInv /\ LogInv => LogReplays
  <2> SUFFICES ASSUME MapInv, LogInv, error = "ok", ~reused,
                      NEW s \in DOMAIN vm.trackers, NEW k \in Keys
               PROVE  LET dict    == vm.trackers[s].data
                          n       == ptrs[s] \div DictAccessSize
                          indices == Indices(s, n, IntValue(k))
                          at(i)   == AccessAt(vm.memory.data, s, i)
                      IN  /\ vm.trackers[s].current_ptr = RelocatableValue(s, ptrs[s])
                          /\ Chained(s, n, IntValue(k))
                          /\ IF indices = << >> THEN Current(dict, k) = Initial(dict, k)
                             ELSE /\ at(indices[1]).prev_value = IntValue(Initial(dict, k))
                                  /\ at(Last(indices)).new_value = IntValue(Current(dict, k))
    BY DEF LogReplays
  <2> DEFINE dict == vm.trackers[s].data
             n    == ptrs[s] \div DictAccessSize
             a    == Indices(s, n, IntValue(k))
  <2>1. PICK m \in Nat : ptrs[s] = DictAccessSize * m /\ LogKept(vm, program, s, m)
    BY DEF LogInv
  <2>2. n = m
    BY <2>1 DEF DictAccessSize
  <2> HIDE DEF n
  <2>3. vm.trackers[s].current_ptr = RelocatableValue(s, ptrs[s])
    BY <2>1 DEF LogKept
  <2>4. Replays(vm.memory.data, s, n, IntValue(k),
                GivenTo(program, dict.default_value, k), Current(dict, k))
    BY <2>1, <2>2 DEF LogKept
  <2>5. Initial(dict, k) = GivenTo(program, dict.default_value, k)
    <3> DEFINE g == Given(program)
               e == [dict EXCEPT !.entries = g]
    <3>1. dict = [entries |-> dict.entries, default_value |-> dict.default_value]
      BY DEF MapInv, Sound, IsTracker, IsDict
    <3>2. e.entries = g /\ e.default_value = dict.default_value
      <4> HIDE DEF dict
      <4> QED
        BY <3>1
    <3>3. (IF "initial_dict" \in DOMAIN vm.scopes[1] THEN vm.scopes[1]["initial_dict"]
                                                      ELSE << >>) = g
      BY DEF MapInv, MainScope, Given
    <3>4. Initial(dict, k) = Current(e, k)
      BY <3>3 DEF Initial
    <3> HIDE DEF e
    <3> QED
      BY <3>2, <3>4 DEF Current, GivenTo
  <2> DEFINE before == GivenTo(program, dict.default_value, k)
             now    == Current(dict, k)
             at(i)  == AccessAt(vm.memory.data, s, i)
  <2>6. /\ Chained(s, n, IntValue(k))
        /\ a = << >> => now = before
        /\ a # << >> => /\ at(a[1]).prev_value = IntValue(before)
                        /\ at(Last(a)).new_value = IntValue(now)
    BY <2>2, <2>4, ReplaysInOrder
  <2> QED
    BY <2>3, <2>5, <2>6 DEF n
<1> QED
  BY <1>1, LogInvInit, LogInvNext, MapInvariant, PTL DEF Spec

-----------------------------------------------------------------------------
(* Lists of numbers, up and down.                                          *)

\* a lists all of S, in ascending order.
Lists(a, S) ==
  /\ Sorts(a, S) /\ a \in Seq(Nat)
  /\ \A x \in S : \E i \in 1..Len(a) : a[i] = x

\* Ascending lists any bounded set of naturals.
LEMMA AscendingLists ==
  ASSUME NEW N \in Nat, NEW S \in SUBSET (0..(N - 1))
  PROVE  Lists(Ascending(S), S)
<1> DEFINE a == Ascending(S)
           c == Cardinality(S)
<1>1. /\ c \in Nat
      /\ \A x : Cardinality(Below(S, x)) \in Nat
      /\ \A x, y \in S : x < y => Cardinality(Below(S, x)) + 1 <= Cardinality(Below(S, y))
      /\ \A x \in S : Cardinality(Below(S, x)) + 1 <= c
  BY BelowSizes
<1>2. a = [i \in 1..c |-> CHOOSE n \in S : Cardinality(Below(S, n)) = i - 1]
  BY DEF Ascending, Below
<1>3. \A i \in 1..c : \E x \in S : Cardinality(Below(S, x)) = i - 1
  BY EveryRank
<1>4. Sorts(a, S)
  BY AscendingSorts
<1> HIDE DEF a
<1>5. ASSUME NEW i \in 1..c
      PROVE  a[i] \in S /\ Cardinality(Below(S, a[i])) = i - 1
  BY <1>2, <1>3
<1>6. S \subseteq Int /\ S \subseteq Nat
  OBVIOUS
<1> HIDE DEF c
<1>7. Len(a) = c
  BY <1>1, <1>2
<1>8. a \in Seq(Nat)
  <2>1. \A i \in 1..c : a[i] \in Nat
    BY <1>5, <1>6
  <2>2. a = [i \in 1..c |-> a[i]]
    BY <1>2
  <2> QED
    BY <1>1, <2>1, <2>2
<1>9. ASSUME NEW x \in S
      PROVE  \E i \in 1..Len(a) : a[i] = x
  <2> DEFINE r == Cardinality(Below(S, x))
             i == r + 1
  <2>1. r \in Nat /\ r + 1 <= c
    BY <1>1
  <2> HIDE DEF r
  <2>2. i \in 1..c /\ i - 1 = r
    BY <1>1, <2>1
  <2> HIDE DEF i
  <2>3. a[i] \in S /\ Cardinality(Below(S, a[i])) = r
    BY <1>5, <2>2
  <2>4. x < a[i] => r + 1 <= r
    BY <1>1, <2>3 DEF r
  <2>5. a[i] < x => r + 1 <= r
    BY <1>1, <2>3 DEF r
  <2>6. ~(r + 1 <= r)
    BY <2>1
  <2>7. x \in Int /\ a[i] \in Int
    BY <1>6, <2>3
  <2>8. a[i] = x
    BY <2>4, <2>5, <2>6, <2>7
  <2> QED
    BY <1>7, <2>2, <2>8
<1> QED
  BY <1>4, <1>8, <1>9 DEF Lists, a

\* Its members as a set.
LEMMA ListedSet ==
  ASSUME NEW S, NEW a, Lists(a, S)
  PROVE  ToSet(a) = S
<1>1. a \in Seq(Nat) /\ DOMAIN a = 1..Len(a)
  BY DEF Lists
<1> QED
  BY <1>1 DEF Lists, Sorts, ToSet

\* The c greatest members of a, the greatest first.
Descending(a, c) == [x \in 1..c |-> a[Len(a) + 1 - x]]

\* The last c elements that are left of a list, as pop takes them.
LEMMA DescendingSeq ==
  ASSUME NEW a \in Seq(Nat), NEW c \in 0..Len(a)
  PROVE  /\ Descending(a, c) \in Seq(Nat) /\ Len(Descending(a, c)) = c
         /\ \A x \in 1..c : Descending(a, c)[x] = a[Len(a) + 1 - x]
         /\ (Descending(a, c) = << >>) <=> (c = 0)
<1>1. Len(a) \in Nat /\ c \in Nat
  BY LenProperties
<1>2. \A x \in 1..c : Len(a) + 1 - x \in 1..Len(a)
  BY <1>1
<1>3. \A x \in 1..c : a[Len(a) + 1 - x] \in Nat
  BY <1>2, ElementOfSeq
<1> DEFINE e == Descending(a, c)
<1>4. e \in Seq(Nat) /\ Len(e) = c /\ \A x \in 1..c : e[x] = a[Len(a) + 1 - x]
  BY <1>1, <1>3 DEF Descending
<1> HIDE DEF e
<1>5. (e = << >>) <=> (c = 0)
  BY <1>4, EmptySeq
<1> QED
  BY <1>4, <1>5 DEF e

\* pop takes the next one, and leaves one less.
LEMMA DescendingLast ==
  ASSUME NEW a \in Seq(Nat), NEW c \in 1..Len(a)
  PROVE  /\ Descending(a, c) # << >>
         /\ Last(Descending(a, c)) = a[Len(a) + 1 - c]
         /\ Front(Descending(a, c)) = Descending(a, c - 1)
<1> DEFINE e == Descending(a, c)
           f == Descending(a, c - 1)
           g == SubSeq(e, 1, c - 1)
<1>1. Len(a) \in Nat /\ c \in Nat /\ c \in 0..Len(a) /\ c - 1 \in 0..Len(a) /\ c - 1 \in Nat
      /\ c # 0 /\ c \in 1..c
  BY LenProperties
<1>2. e \in Seq(Nat) /\ Len(e) = c /\ \A x \in 1..c : e[x] = a[Len(a) + 1 - x]
  BY <1>1, DescendingSeq
<1>3. f \in Seq(Nat) /\ Len(f) = c - 1 /\ \A x \in 1..(c - 1) : f[x] = a[Len(a) + 1 - x]
  BY <1>1, DescendingSeq
<1>4. e # << >>
  BY <1>1, DescendingSeq
<1> HIDE DEF e, f
<1>5. Last(e) = a[Len(a) + 1 - c]
  BY <1>1, <1>2 DEF Last
<1>6. Front(e) = g
  BY <1>2 DEF Front
<1>7. \A i \in 1..(c - 1) : e[i] \in Nat
  BY <1>1, <1>2, ElementOfSeq
<1>8. g \in Seq(Nat) /\ Len(g) = c - 1 /\ \A i \in 1..(c - 1) : g[i] = e[i]
  <2>1. /\ g = [i \in 1..(c - 1) |-> e[i]]
    BY <1>1, <1>2
  <2> HIDE DEF g
  <2> QED
    BY <1>1, <1>7, <2>1
<1> HIDE DEF g
<1>9. \A i \in 1..Len(g) : g[i] = f[i]
  <2> SUFFICES ASSUME NEW i \in 1..Len(g)
               PROVE  g[i] = f[i]
    OBVIOUS
  <2>1. i \in 1..(c - 1) /\ i \in 1..c
    BY <1>1, <1>8
  <2>2. g[i] = e[i]
    BY <1>8, <2>1
  <2>3. e[i] = a[Len(a) + 1 - i]
    BY <1>2, <2>1
  <2>4. f[i] = a[Len(a) + 1 - i]
    BY <1>3, <2>1
  <2> QED
    BY <2>2, <2>3, <2>4
<1>10. g = f
  BY <1>3, <1>8, <1>9, SeqEqual
<1> QED
  BY <1>4, <1>5, <1>6, <1>10 DEF e, f

\* reverse lists all of them.
LEMMA DescendingAll ==
  ASSUME NEW a \in Seq(Nat)
  PROVE  Reverse(a) = Descending(a, Len(a))
<1>1. Len(a) \in Nat
  BY LenProperties
<1>2. \A i \in 1..Len(a) : (Len(a) - i) + 1 = Len(a) + 1 - i
  BY <1>1
<1> QED
  BY <1>2 DEF Reverse, Descending

\* Finitely many numbers have a bound.
LEMMA NumbersBounded ==
  ASSUME NEW n \in Nat, NEW f, \A i \in 0..(n - 1) : f[i] \in Nat
  PROVE  \E N \in Nat : \A i \in 0..(n - 1) : f[i] < N
<1> DEFINE Bad == {c \in 0..n : ~ \E N \in Nat : \A i \in 0..(c - 1) : f[i] < N}
<1>1. ASSUME Bad # {}
      PROVE  FALSE
  <2>1. PICK c \in Bad : \A d \in Bad : c <= d
    <3>1. Bad \in SUBSET Nat
      OBVIOUS
    <3> HIDE DEF Bad
    <3> QED
      BY <1>1, <3>1, HasMinimum
  <2>2. c \in 0..n /\ c \in Nat
    OBVIOUS
  <2>3. c # 0
    <3>1. \A i \in 0..(0 - 1) : f[i] < 0
      OBVIOUS
    <3> QED
      BY <3>1
  <2>4. c - 1 \in 0..n /\ c - 1 \in Nat /\ c - 1 \in 0..(n - 1) /\ ~(c <= c - 1)
    BY <2>2, <2>3
  <2>5. c - 1 \notin Bad
    BY <2>1, <2>4
  <2>6. PICK N \in Nat : \A i \in 0..((c - 1) - 1) : f[i] < N
    BY <2>4, <2>5
  <2> DEFINE x == f[c - 1]
             M == IF x < N THEN N ELSE x + 1
  <2>7. x \in Nat /\ M \in Nat /\ x < M /\ N <= M
    BY <2>4
  <2>8. ASSUME NEW i \in 0..(c - 1)
        PROVE  f[i] < M
    <3>1. CASE i = c - 1
      BY <2>7, <3>1
    <3>2. CASE i # c - 1
      <4>1. i \in 0..((c - 1) - 1) /\ i \in 0..(n - 1)
        BY <2>2, <2>4, <3>2
      <4>2. f[i] < N /\ f[i] \in Nat
        BY <2>6, <4>1
      <4> HIDE DEF M
      <4> QED
        BY <2>7, <4>2
    <3> QED
      BY <3>1, <3>2
  <2>9. c \notin Bad
    BY <2>7, <2>8
  <2> QED
    BY <2>9
<1>2. n \in 0..n
  OBVIOUS
<1> QED
  BY <1>1, <1>2

-----------------------------------------------------------------------------
(* The accesses of a squash, in the data of a memory.                      *)

KeysOf(data, s, n)       == {AccessAt(data, s, i).key.num : i \in 0..(n - 1)}
SortedKeys(data, s, n)   == Ascending(KeysOf(data, s, n))
IndicesOf(data, s, n, k) == Ascending(AccessesWith(data, s, n, IntValue(k)))

\* The key of each access is an element of the field.
Readable(data, s, n) ==
  \A i \in 0..(n - 1) : /\ AccessAt(data, s, i).key \in Ints
                        /\ AccessAt(data, s, i).key.num \in Nat

\* Each of the first u accesses that a lists is complete, and starts from what
\* the one before left.
Passed(data, s, a, u) ==
  /\ \A x \in 1..u : Complete(AccessAt(data, s, a[x]))
  /\ \A x \in 2..u : AccessAt(data, s, a[x]).prev_value = AccessAt(data, s, a[x - 1]).new_value

\* What the accesses of a key are squashed to.
Entry(data, s, n, k) ==
  [key |-> IntValue(k),
   prev_value |-> AccessAt(data, s, IndicesOf(data, s, n, k)[1]).prev_value,
   new_value |-> AccessAt(data, s, Last(IndicesOf(data, s, n, k))).new_value]

\* Squashable and Squashed, of some data.
SquashableIn(data, s, end) ==
  /\ end % DictAccessSize = 0
  /\ \A i \in 0..(end \div DictAccessSize - 1) : Complete(AccessAt(data, s, i))
  /\ \A k \in KeysOf(data, s, end \div DictAccessSize) :
       LET a == IndicesOf(data, s, end \div DictAccessSize, k)
       IN  \A x \in 2..Len(a) :
             AccessAt(data, s, a[x]).prev_value = AccessAt(data, s, a[x - 1]).new_value

SquashedIn(data, s, n) ==
  LET keys == SortedKeys(data, s, n)
  IN  [j \in 1..Len(keys) |-> Entry(data, s, n, keys[j])]

\* The property speaks of the data of the memory only.
LEMMA SquashableData ==
  \A s, end, n : /\ Squashable(s, end) <=> SquashableIn(vm.memory.data, s, end)
                 /\ Squashed(s, n) = SquashedIn(vm.memory.data, s, n)
<1>1. \A s, n, k : Indices(s, n, IntValue(k)) = IndicesOf(vm.memory.data, s, n, k)
  BY DEF Indices, IndicesOf, AccessesWith
<1>2. \A s, n : AccessedKeys(s, n) = KeysOf(vm.memory.data, s, n)
  BY DEF AccessedKeys, KeysOf
<1>3. \A s, end : Squashable(s, end) <=> SquashableIn(vm.memory.data, s, end)
  BY <1>1, <1>2 DEF Squashable, SquashableIn, Chained
<1>4. \A s, n : Squashed(s, n) = SquashedIn(vm.memory.data, s, n)
  BY <1>1, <1>2 DEF Squashed, SquashedIn, SortedKeys, Entry
<1> QED
  BY <1>3, <1>4

\* An integer is known by its number.
LEMMA IntIs ==
  ASSUME NEW v \in Ints
  PROVE  v = IntValue(v.num) /\ IsInt(v) /\ v \in Values
  BY NoneAssumption DEF Ints, IntValue, IsInt, Values

\* The keys in order, and the accesses of each.
LEMMA LogSorted ==
  ASSUME NEW data, NEW s, NEW n \in Nat, Readable(data, s, n)
  PROVE  /\ Lists(SortedKeys(data, s, n), KeysOf(data, s, n))
         /\ KeysOf(data, s, n) \subseteq Nat
         /\ \A k : Lists(IndicesOf(data, s, n, k), AccessesWith(data, s, n, IntValue(k)))
         /\ \A k \in KeysOf(data, s, n) : AccessesWith(data, s, n, IntValue(k)) # {}
         /\ \A i \in 0..(n - 1) : /\ AccessAt(data, s, i).key.num \in KeysOf(data, s, n)
                                  /\ i \in AccessesWith(data, s, n, AccessAt(data, s, i).key)
<1> DEFINE key(i) == AccessAt(data, s, i).key
           K      == KeysOf(data, s, n)
<1>1. \A i \in 0..(n - 1) : key(i) \in Ints /\ key(i).num \in Nat /\ key(i) = IntValue(key(i).num)
  BY IntIs DEF Readable
<1>2. K = {key(i).num : i \in 0..(n - 1)}
  BY DEF KeysOf
<1>3. Lists(Ascending(K), K)
  <2> DEFINE f == [i \in 0..(n - 1) |-> key(i).num]
  <2>1. \A i \in 0..(n - 1) : f[i] = key(i).num /\ f[i] \in Nat
    BY <1>1
  <2> HIDE DEF f
  <2>2. PICK N \in Nat : \A i \in 0..(n - 1) : f[i] < N
    BY <2>1, NumbersBounded
  <2>3. \A i \in 0..(n - 1) : key(i).num \in 0..(N - 1)
    BY <2>1, <2>2
  <2>4. K \in SUBSET (0..(N - 1))
    BY <1>2, <2>3
  <2> QED
    BY <2>4, AscendingLists
<1>4. ASSUME NEW k
      PROVE  Lists(IndicesOf(data, s, n, k), AccessesWith(data, s, n, IntValue(k)))
  <2>1. AccessesWith(data, s, n, IntValue(k)) \in SUBSET (0..(n - 1))
    BY DEF AccessesWith
  <2> QED
    BY <2>1, AscendingLists DEF IndicesOf
<1>5. ASSUME NEW k \in K
      PROVE  AccessesWith(data, s, n, IntValue(k)) # {}
  BY <1>1, <1>2 DEF AccessesWith
<1>6. \A i \in 0..(n - 1) : i \in AccessesWith(data, s, n, key(i))
  BY DEF AccessesWith
<1>7. K \subseteq Nat
  BY <1>1, <1>2
<1> QED
  BY <1>2, <1>3, <1>4, <1>5, <1>6, <1>7 DEF SortedKeys

\* The map from keys to accesses that squash_dict makes.
IndexMap(data, s, n) == [k \in KeysOf(data, s, n) |-> IndicesOf(data, s, n, k)]

\* squash_dict's access_indices of readable accesses: each key with the indices
\* of its accesses.
LEMMA IndexMapMade ==
  ASSUME NEW v, NEW s \in Nat, NEW n \in Nat
  PROVE  /\ \A i \in 0..(n - 1) : KeyWord(v, RelocatableValue(s, 0), i) =
                                  AccessAt(v.memory.data, s, i).key
         /\ Readable(v.memory.data, s, n) =>
              AccessIndices(v, RelocatableValue(s, 0), n) = IndexMap(v.memory.data, s, n)
<1> DEFINE data == v.memory.data
           key(i) == AccessAt(data, s, i).key
<1>1. ASSUME NEW i \in 0..(n - 1)
      PROVE  KeyWord(v, RelocatableValue(s, 0), i) = key(i)
  <2>1. DictAccessSize * i \in Nat /\ DictAccessSize * i + 0 = 0 + DictAccessSize * i
    BY DEF DictAccessSize
  <2>2. [RelocatableValue(s, 0) EXCEPT !.off = @ + DictAccessSize * i] =
          RelocatableValue(s, DictAccessSize * i + 0)
    BY <2>1 DEF RelocatableValue
  <2> QED
    BY <2>2 DEF KeyWord, AccessAt
<1>2. ASSUME Readable(data, s, n)
      PROVE  AccessIndices(v, RelocatableValue(s, 0), n) = IndexMap(data, s, n)
  <2>1. \A i \in 0..(n - 1) : key(i) = IntValue(key(i).num)
    BY <1>2, IntIs DEF Readable
  <2>2. \A k : IntValue(k).num = k
    BY DEF IntValue
  <2>3. \A k : {i \in 0..(n - 1) : KeyWord(v, RelocatableValue(s, 0), i).num = k} =
               AccessesWith(data, s, n, IntValue(k))
    BY <1>1, <2>1, <2>2 DEF AccessesWith
  <2>4. {KeyWord(v, RelocatableValue(s, 0), i).num : i \in 0..(n - 1)} = KeysOf(data, s, n)
    BY <1>1 DEF KeysOf
  <2> QED
    BY <2>3, <2>4 DEF AccessIndices, IndexMap, IndicesOf
<1> QED
  BY <1>1, <1>2

-----------------------------------------------------------------------------
(* The hints of a squash, and the variables they find.                     *)

\* The inner scope has a variable of that name and value.
Has(v, name, value) == name \in DOMAIN v.scopes[2] /\ v.scopes[2][name] = value

\* A vm in a squash.
Inner(v) == Record(v) /\ TwoScopes(v)

\* w has the variables of v, those in names apart.
Keeps(v, w, names) == \A name, value : name \notin names /\ Has(v, name, value) => Has(w, name, value)

\* A variable that the squash has is found.
LEMMA LocalHas ==
  ASSUME NEW v, Inner(v), NEW name, NEW value, Has(v, name, value)
  PROVE  Local(v, name) = value /\ name \in DOMAIN Last(v.scopes)
<1>1. Len(v.scopes) = 2
  BY DEF Inner, TwoScopes
<1>2. Last(v.scopes) = v.scopes[2]
  BY <1>1 DEF Last
<1> QED
  BY <1>2 DEF Has, Local

\* A step inside the scope of a squash stays inside.
LEMMA InnerKept ==
  ASSUME NEW v, Inner(v), NEW w, InnerStep(v, w)
  PROVE  Inner(w)
<1>1. w.memory = v.memory /\ w.trackers = v.trackers
  BY DEF InnerStep
<1> QED
  BY <1>1 DEF Inner, InnerStep, Record

\* insert_value sets a variable of the inner scope, and no other.
LEMMA Assigned ==
  ASSUME NEW v, Inner(v), NEW name, NEW value
  PROVE  LET w == AssignVariable(v, name, value)
         IN  Inner(w) /\ Has(w, name, value) /\ Keeps(v, w, {name})
<1> DEFINE a == v.scopes[1]
           b == v.scopes[2]
           c == Put(b, name, value)
           w == AssignVariable(v, name, value)
<1>1. v.scopes = <<a, b>>
  BY DEF Inner, TwoScopes
<1>2. Len(v.scopes) = 2
  BY <1>1
<1>3. w = [memory |-> v.memory, trackers |-> v.trackers,
           scopes |-> [v.scopes EXCEPT ![2] = c]]
  BY <1>2 DEF AssignVariable, Inner, Record
<1>4. InnerStep(v, w)
  BY InnerItself, AssignInner DEF Inner
<1> HIDE DEF a, b, c, w
<1>5. [<<a, b>> EXCEPT ![2] = c] = <<a, c>>
  OBVIOUS
<1>6. w.scopes[2] = c
  BY <1>1, <1>3, <1>5
<1>7. Inner(w)
  BY <1>4, InnerKept
<1>8. Has(w, name, value) /\ Keeps(v, w, {name})
  BY <1>6 DEF Has, Keeps, Put, b, c
<1> QED
  BY <1>7, <1>8 DEF w

\* A hint that finds its variables.
LEMMA VariablesFound ==
  ASSUME NEW v, Inner(v), NEW names, NEW r, \A name \in names : \E value : Has(v, name, value)
  PROVE  WithVariables(v, names, r) = r
<1>1. names \subseteq DOMAIN Last(v.scopes)
  BY LocalHas
<1> QED
  BY <1>1 DEF WithVariables

\* r is without error, answers val and leaves a vm whose inner scope differs
\* at most in the variables of names.
Finds(v, r, val, names) ==
  r.err = "ok" /\ r.val = val /\ Inner(r.vm) /\ Keeps(v, r.vm, names)

\* The hints that change nothing.
LEMMA SquashAsks ==
  ASSUME NEW v, Inner(v), NEW left, Has(v, "current_access_indices", left)
  PROVE  /\ Finds(v, SkipLoop(v), IF left = << >> THEN 1 ELSE 0, {})
         /\ Finds(v, ContinueLoop(v), IF left = << >> THEN 0 ELSE 1, {})
         /\ left = << >> => Finds(v, LenAssert(v), None, {})
<1>1. Local(v, "current_access_indices") = left
  BY LocalHas
<1>2. \A r : WithVariables(v, {"current_access_indices"}, r) = r
  BY VariablesFound
<1>3. Keeps(v, v, {})
  BY DEF Keeps
<1> QED
  BY <1>1, <1>2, <1>3 DEF SkipLoop, ContinueLoop, LenAssert, Answer, Finds

\* assert_len_keys with no key left.
LEMMA KeysAsked ==
  ASSUME NEW v, Inner(v), Has(v, "keys", << >>)
  PROVE  Finds(v, AssertLenKeys(v), None, {})
<1>1. Local(v, "keys") = << >>
  BY LocalHas
<1>2. \A r : WithVariables(v, {"keys"}, r) = r
  BY VariablesFound
<1>3. Keeps(v, v, {})
  BY DEF Keeps
<1> QED
  BY <1>1, <1>2, <1>3 DEF AssertLenKeys, Answer, Finds

\* used_accesses_assert when all accesses of the key were used.
LEMMA UsedAsked ==
  ASSUME NEW v, Inner(v), NEW map, Has(v, "access_indices", map),
         NEW k \in DOMAIN map, Has(v, "key", k)
  PROVE  Finds(v, UsedAccessesAssert(v, Len(map[k])), None, {})
<1>1. Local(v, "access_indices") = map /\ Local(v, "key") = k
  BY LocalHas
<1>2. \A r : WithVariables(v, {"access_indices", "key"}, r) = r
  BY VariablesFound
<1>3. Keeps(v, v, {})
  BY DEF Keeps
<1> QED
  BY <1>1, <1>2, <1>3 DEF UsedAccessesAssert, Answer, Finds

\* The first access of a key.
AccessVariables == {"current_access_indices", "current_access_index", "new_access_index"}

\* first_iteration pops the smallest index of the key.
LEMMA FirstFound ==
  ASSUME NEW v, Inner(v), NEW map, Has(v, "access_indices", map),
         NEW k \in DOMAIN map, Has(v, "key", k),
         NEW S, Lists(map[k], S), map[k] = Ascending(S), S # {}
  PROVE  LET r == FirstIteration(v)
             a == map[k]
         IN  /\ Finds(v, r, a[1], AccessVariables)
             /\ Has(r.vm, "current_access_indices", Descending(a, Len(a) - 1))
             /\ Has(r.vm, "current_access_index", a[1])
<1> DEFINE a == map[k]
           b == Descending(a, Len(a))
           r == FirstIteration(v)
           x == AssignVariable(v, "current_access_indices", Front(b))
           y == AssignVariable(x, "current_access_index", Last(b))
<1>1. Local(v, "access_indices") = map /\ Local(v, "key") = k
  BY LocalHas
<1>2. \A q : WithVariables(v, {"access_indices", "key"}, q) = q
  BY VariablesFound
<1>3. ToSet(a) = S /\ a = Ascending(S)
  BY ListedSet
<1>4. a \in Seq(Nat) /\ Len(a) \in Nat /\ Len(a) >= 1
  BY LenProperties DEF Lists, Sorts
<1> HIDE DEF a
<1>5. Reverse(Ascending(ToSet(a))) = b
  BY <1>3, <1>4, DescendingAll
<1>6. r = FirstAccess(v, b)
  BY <1>1, <1>2, <1>5 DEF FirstIteration, a
<1>7. b # << >> /\ Last(b) = a[1] /\ Front(b) = Descending(a, Len(a) - 1)
  <2> DEFINE c == Len(a)
  <2>1. c \in 1..Len(a) /\ Len(a) + 1 - c = 1
    BY <1>4
  <2> HIDE DEF c
  <2>2. Descending(a, c) # << >> /\ Last(Descending(a, c)) = a[1]
        /\ Front(Descending(a, c)) = Descending(a, c - 1)
    BY <1>4, <2>1, DescendingLast
  <2> QED
    BY <2>2 DEF c
<1> HIDE DEF b, r
<1>8. r = Answer(y, "ok", Last(b))
  BY <1>6, <1>7 DEF FirstAccess
<1>9. Inner(x) /\ Has(x, "current_access_indices", Front(b))
      /\ Keeps(v, x, {"current_access_indices"})
  BY Assigned
<1> HIDE DEF x
<1>10. Inner(y) /\ Has(y, "current_access_index", Last(b))
       /\ Keeps(x, y, {"current_access_index"})
  BY <1>9, Assigned
<1> HIDE DEF y
<1>11. r.vm = y /\ r.err = "ok" /\ r.val = Last(b)
  BY <1>8 DEF Answer
<1>12. Has(y, "current_access_indices", Front(b))
  BY <1>9, <1>10 DEF Keeps
<1>13. Keeps(v, y, AccessVariables)
  BY <1>9, <1>10 DEF Keeps, AccessVariables
<1>14. Finds(v, r, a[1], AccessVariables)
  BY <1>7, <1>10, <1>11, <1>13 DEF Finds
<1> QED
  BY <1>7, <1>10, <1>11, <1>12, <1>14 DEF a, r

\* The next one.
LEMMA NextFound ==
  ASSUME NEW v, Inner(v), NEW a \in Seq(Nat), NEW c \in 1..Len(a), NEW current,
         Has(v, "current_access_indices", Descending(a, c)),
         Has(v, "current_access_index", current)
  PROVE  LET r == CheckAccessIndex(v)
             i == a[Len(a) + 1 - c]
         IN  /\ Finds(v, r, i - current - 1, AccessVariables)
             /\ Has(r.vm, "current_access_indices", Descending(a, c - 1))
             /\ Has(r.vm, "current_access_index", i)
<1> DEFINE b == Descending(a, c)
           f == Descending(a, c - 1)
           i == a[Len(a) + 1 - c]
           r == CheckAccessIndex(v)
           x == AssignVariable(v, "new_access_index", i)
           y == AssignVariable(x, "current_access_indices", f)
           z == AssignVariable(y, "current_access_index", i)
<1>1. Local(v, "current_access_indices") = b /\ Local(v, "current_access_index") = current
  BY LocalHas
<1>2. \A q : WithVariables(v, {"current_access_indices", "current_access_index"}, q) = q
  BY VariablesFound
<1>3. b # << >> /\ Last(b) = i /\ Front(b) = f
  BY DescendingLast
<1> HIDE DEF b, f, i
<1>4. r = Answer(z, "ok", i - current - 1)
  BY <1>1, <1>2, <1>3 DEF CheckAccessIndex, NextAccess
<1>5. Inner(x) /\ Keeps(v, x, {"new_access_index"})
  BY Assigned
<1> HIDE DEF x
<1>6. Inner(y) /\ Has(y, "current_access_indices", f) /\ Keeps(x, y, {"current_access_indices"})
  BY <1>5, Assigned
<1> HIDE DEF y
<1>7. Inner(z) /\ Has(z, "current_access_index", i) /\ Keeps(y, z, {"current_access_index"})
  BY <1>6, Assigned
<1> HIDE DEF z, r
<1>8. r.vm = z /\ r.err = "ok" /\ r.val = i - current - 1
  BY <1>4 DEF Answer
<1>9. Has(z, "current_access_indices", f)
  BY <1>6, <1>7 DEF Keeps
<1>10. Keeps(v, z, AccessVariables)
  BY <1>5, <1>6, <1>7 DEF Keeps, AccessVariables
<1>11. Finds(v, r, i - current - 1, AccessVariables)
  BY <1>7, <1>8, <1>10 DEF Finds
<1> QED
  BY <1>7, <1>8, <1>9, <1>11 DEF r, i, f

\* The next key.
LEMMA KeyFound ==
  ASSUME NEW v, Inner(v), NEW a \in Seq(Nat), NEW c \in 1..Len(a),
         Has(v, "keys", Descending(a, c))
  PROVE  LET r == NextKey(v)
             k == a[Len(a) + 1 - c]
         IN  /\ Finds(v, r, k, {"keys", "key"})
             /\ Has(r.vm, "keys", Descending(a, c - 1))
             /\ Has(r.vm, "key", k)
<1> DEFINE b == Descending(a, c)
           f == Descending(a, c - 1)
           k == a[Len(a) + 1 - c]
           r == NextKey(v)
           x == AssignVariable(v, "keys", f)
           y == AssignVariable(x, "key", k)
<1>1. Local(v, "keys") = b
  BY LocalHas
<1>2. \A q : WithVariables(v, {"keys"}, q) = q
  BY VariablesFound
<1>3. b # << >> /\ Last(b) = k /\ Front(b) = f
  BY DescendingLast
<1> HIDE DEF b, f, k
<1>4. r = Answer(y, "ok", k)
  BY <1>1, <1>2, <1>3 DEF NextKey
<1>5. Inner(x) /\ Has(x, "keys", f) /\ Keeps(v, x, {"keys"})
  BY Assigned
<1> HIDE DEF x
<1>6. Inner(y) /\ Has(y, "key", k) /\ Keeps(x, y, {"key"})
  BY <1>5, Assigned
<1> HIDE DEF y, r
<1>7. r.vm = y /\ r.err = "ok" /\ r.val = k
  BY <1>4 DEF Answer
<1>8. Has(y, "keys", f) /\ Keeps(v, y, {"keys", "key"})
  BY <1>5, <1>6 DEF Keeps
<1>9. Finds(v, r, k, {"keys", "key"})
  BY <1>6, <1>7, <1>8 DEF Finds
<1> QED
  BY <1>6, <1>7, <1>8, <1>9 DEF r, k, f

\* The guesses of squash_dict.
LEMMA GuessesFound ==
  ASSUME NEW v, Inner(v), NEW map, NEW a \in Seq(Nat), Len(a) >= 1
  PROVE  LET r == FirstGuesses(v, map, Descending(a, Len(a)))
         IN  /\ Finds(v, r, [big_keys |-> a[Len(a)] >= RangeCheckBound, first_key |-> a[1]],
                      {"access_indices", "keys", "key"})
             /\ Has(r.vm, "access_indices", map)
             /\ Has(r.vm, "keys", Descending(a, Len(a) - 1))
             /\ Has(r.vm, "key", a[1])
<1> DEFINE c == Len(a)
           b == Descending(a, c)
           f == Descending(a, c - 1)
           r == FirstGuesses(v, map, b)
           x == AssignVariable(v, "access_indices", map)
           y == AssignVariable(x, "keys", f)
           z == AssignVariable(y, "key", a[1])
           ans == [big_keys |-> a[c] >= RangeCheckBound, first_key |-> a[1]]
<1>1. c \in Nat /\ c \in 1..Len(a) /\ Len(a) + 1 - c = 1 /\ c \in 0..Len(a) /\ 1 \in 1..c
      /\ Len(a) + 1 - 1 = c
  BY LenProperties
<1> HIDE DEF c
<1>2. b # << >> /\ Last(b) = a[1] /\ Front(b) = f
  BY <1>1, DescendingLast
<1>3. b[1] = a[c]
  BY <1>1, DescendingSeq
<1> HIDE DEF b, f
<1>4. r = Answer(z, "ok", ans)
  BY <1>2, <1>3 DEF FirstGuesses
<1>5. Inner(x) /\ Has(x, "access_indices", map) /\ Keeps(v, x, {"access_indices"})
  BY Assigned
<1> HIDE DEF x
<1>6. Inner(y) /\ Has(y, "keys", f) /\ Keeps(x, y, {"keys"})
  BY <1>5, Assigned
<1> HIDE DEF y
<1>7. Inner(z) /\ Has(z, "key", a[1]) /\ Keeps(y, z, {"key"})
  BY <1>6, Assigned
<1> HIDE DEF z, r, ans
<1>8. r.vm = z /\ r.err = "ok" /\ r.val = ans
  BY <1>4 DEF Answer
<1>9. Has(z, "keys", f) /\ Has(z, "access_indices", map)
  BY <1>5, <1>6, <1>7 DEF Keeps
<1>10. Keeps(v, z, {"access_indices", "keys", "key"})
  BY <1>5, <1>6, <1>7 DEF Keeps
<1>11. Finds(v, r, ans, {"access_indices", "keys", "key"})
  BY <1>7, <1>8, <1>10 DEF Finds
<1> QED
  BY <1>7, <1>8, <1>9, <1>11 DEF r, b, f, c, ans

-----------------------------------------------------------------------------
(* How far a squash has come.                                              *)

\* The variables of a squash.
Locals ==
  {"pc", "start", "end", "out", "big_keys", "key", "remaining", "index", "used", "first_value",
   "value"}

\* A squash is a record of them.
IsSquash(q) == q = [name \in Locals |-> q[name]]

\* The call of squash_dict with n accesses, and what its first hint left.
CallKept(data, q, v, n) ==
  LET keys == SortedKeys(data, q.start, n)
  IN  /\ IsSquash(q)
      /\ q.start \in Nat /\ n \in Nat /\ n >= 1
      /\ q.end = DictAccessSize * n /\ q.end <= UsizeMax
      /\ Readable(data, q.start, n)
      /\ Has(v, "access_indices", IndexMap(data, q.start, n))
      /\ q.big_keys = (keys[Len(keys)] >= RangeCheckBound)

\* The accesses of the keys after the d-th.
Left(data, s, n, d) ==
  {i \in 0..(n - 1) : d >= 1 => AccessAt(data, s, i).key.num > SortedKeys(data, s, n)[d]}

\* The first d keys are done.
KeysDone(data, q, n, d) ==
  LET keys == SortedKeys(data, q.start, n)
      a(x) == IndicesOf(data, q.start, n, keys[x])
  IN  /\ d \in 0..Len(keys)
      /\ q.out = [x \in 1..d |-> Entry(data, q.start, n, keys[x])]
      /\ \A x \in 1..d : Passed(data, q.start, a(x), Len(a(x)))
      /\ q.remaining = Cardinality(Left(data, q.start, n, d))

\* The key after them is worked on.
OnKey(data, q, v, n, d) ==
  LET keys == SortedKeys(data, q.start, n)
  IN  /\ d + 1 \in 1..Len(keys)
      /\ q.key = keys[d + 1]
      /\ Has(v, "key", q.key)
      /\ Has(v, "keys", Descending(keys, Len(keys) - (d + 1)))

\* Some of its accesses have passed.
OnAccess(data, q, v, n) ==
  LET a == IndicesOf(data, q.start, n, q.key)
  IN  /\ q.used \in 1..Len(a)
      /\ q.index = a[q.used]
      /\ Has(v, "current_access_index", q.index)
      /\ Has(v, "current_access_indices", Descending(a, Len(a) - q.used))
      /\ q.first_value = AccessAt(data, q.start, a[1]).prev_value
      /\ q.value = AccessAt(data, q.start, q.index).new_value
      /\ Passed(data, q.start, a, q.used)
      /\ q.pc = "check" => q.used < Len(a)
      /\ q.pc \in {"len", "used"} => q.used = Len(a)

\* The last of them is done, and the next one is not begun.
AfterKey(data, q, v, n, d) ==
  LET keys == SortedKeys(data, q.start, n)
  IN  /\ d \in 1..Len(keys)
      /\ q.key = keys[d]
      /\ Has(v, "keys", Descending(keys, Len(keys) - d))
      /\ IF q.pc = "next" THEN d < Len(keys) ELSE d = Len(keys)

\* The steps of an access, and those between keys.
AccessSteps == {"skip", "check", "continue", "len", "used"}
KeySteps    == {"next", "keys", "exit"}

\* A squash that has done d keys.
Working(data, q, v, n, d) ==
  /\ KeysDone(data, q, n, d)
  /\ q.pc \in {"first"} \union AccessSteps \union KeySteps
  /\ q.pc = "first" => OnKey(data, q, v, n, d)
  /\ q.pc \in AccessSteps => OnKey(data, q, v, n, d) /\ OnAccess(data, q, v, n)
  /\ q.pc \in KeySteps => AfterKey(data, q, v, n, d)

\* A squash that has not ended.
Going(data, q, v, n) ==
  CallKept(data, q, v, n) /\ \E d \in Nat : Working(data, q, v, n, d)

\* What a step leaves of it.
LEMMA CallStays ==
  ASSUME NEW data, NEW q, NEW v, NEW n, CallKept(data, q, v, n), NEW p, IsSquash(p),
         p.start = q.start, p.end = q.end, p.big_keys = q.big_keys,
         NEW w, NEW names, Keeps(v, w, names), "access_indices" \notin names
  PROVE  CallKept(data, p, w, n)
  BY DEF CallKept, Keeps

\* A step keeps the keys that are done.
LEMMA DoneStays ==
  ASSUME NEW data, NEW q, NEW n, NEW d, KeysDone(data, q, n, d), NEW p,
         p.start = q.start, p.out = q.out, p.remaining = q.remaining
  PROVE  KeysDone(data, p, n, d)
  BY DEF KeysDone

\* A step keeps the key that is worked on.
LEMMA KeyStays ==
  ASSUME NEW data, NEW q, NEW v, NEW n, NEW d, OnKey(data, q, v, n, d), NEW p,
         p.start = q.start, p.key = q.key,
         NEW w, NEW names, Keeps(v, w, names), "key" \notin names, "keys" \notin names
  PROVE  OnKey(data, p, w, n, d)
  BY DEF OnKey, Keeps

\* The key worked on, and its accesses.
KeyFacts(data, s, n, k) ==
  LET a == IndicesOf(data, s, n, k)
      S == AccessesWith(data, s, n, IntValue(k))
  IN  /\ k \in KeysOf(data, s, n) /\ k \in Nat
      /\ IntValue(k).num = k
      /\ Lists(a, S) /\ a = Ascending(S) /\ S # {}
      /\ a \in Seq(Nat) /\ Len(a) \in Nat /\ Len(a) >= 1
      /\ \A x \in 1..Len(a) : /\ a[x] \in 0..(n - 1) /\ a[x] \in Nat
                              /\ AccessAt(data, s, a[x]).key = IntValue(k)
      /\ \A x \in 2..Len(a) : a[x - 1] < a[x]

\* The accesses of a key are some, and listed in order.
LEMMA KeyKnown ==
  ASSUME NEW data, NEW s, NEW n \in Nat, Readable(data, s, n), NEW k \in KeysOf(data, s, n)
  PROVE  KeyFacts(data, s, n, k)
<1> DEFINE a == IndicesOf(data, s, n, k)
           S == AccessesWith(data, s, n, IntValue(k))
<1>1. Lists(a, S) /\ S # {} /\ k \in Nat
  BY LogSorted
<1>2. a = Ascending(S)
  BY DEF IndicesOf
<1>3. IntValue(k).num = k
  BY DEF IntValue
<1>4. a \in Seq(Nat) /\ Len(a) \in Nat /\ Len(a) >= 1
  BY <1>1, LenProperties DEF Lists, Sorts
<1>5. \A x \in 1..Len(a) : a[x] \in S /\ a[x] \in Nat
  BY <1>1, <1>4, ElementOfSeq DEF Lists, Sorts
<1>6. \A i \in S : i \in 0..(n - 1) /\ AccessAt(data, s, i).key = IntValue(k)
  BY DEF AccessesWith
<1>7. \A x \in 2..Len(a) : a[x - 1] < a[x]
  BY <1>1 DEF Lists, Sorts
<1> HIDE DEF a, S
<1> QED
  BY <1>1, <1>2, <1>3, <1>4, <1>5, <1>6, <1>7 DEF KeyFacts, a, S

\* The keys of the call.
LEMMA KeysKnown ==
  ASSUME NEW data, NEW s, NEW n \in Nat, Readable(data, s, n)
  PROVE  LET keys == SortedKeys(data, s, n)
             K    == KeysOf(data, s, n)
         IN  /\ keys \in Seq(Nat) /\ Len(keys) \in Nat
             /\ \A x \in 1..Len(keys) : keys[x] \in K /\ keys[x] \in Nat
             /\ \A x \in 2..Len(keys) :
                  keys[x - 1] < keys[x] /\ ~ \E k \in K : keys[x - 1] < k /\ k < keys[x]
             /\ \A k \in K : /\ \E x \in 1..Len(keys) : keys[x] = k
                             /\ keys[1] <= k /\ k <= keys[Len(keys)] /\ Len(keys) >= 1
<1> DEFINE keys == SortedKeys(data, s, n)
           K    == KeysOf(data, s, n)
<1>1. Lists(keys, K)
  BY LogSorted
<1> HIDE DEF keys, K
<1>2. keys \in Seq(Nat) /\ Len(keys) \in Nat
  BY <1>1, LenProperties DEF Lists
<1>3. \A x \in 1..Len(keys) : keys[x] \in Nat
  BY <1>2, ElementOfSeq
<1> QED
  BY <1>1, <1>2, <1>3 DEF Lists, Sorts, keys, K

\* An access that is not complete, or does not start from what the one before
\* left, has no squashed dictionary.
LEMMA NotSquashable ==
  ASSUME NEW data, NEW s, NEW n \in Nat, NEW end, end = DictAccessSize * n,
         Readable(data, s, n), NEW k \in KeysOf(data, s, n),
         NEW x \in 1..Len(IndicesOf(data, s, n, k)),
         LET a == IndicesOf(data, s, n, k)
         IN  \/ ~Complete(AccessAt(data, s, a[x]))
             \/ x >= 2 /\ AccessAt(data, s, a[x]).prev_value #
                          AccessAt(data, s, a[x - 1]).new_value
  PROVE  ~SquashableIn(data, s, end)
<1> DEFINE a == IndicesOf(data, s, n, k)
<1>1. end \div DictAccessSize = n
  BY DEF DictAccessSize
<1>2. KeyFacts(data, s, n, k)
  BY KeyKnown
<1>3. a[x] \in 0..(n - 1) /\ Len(a) \in Nat
  BY <1>2 DEF KeyFacts
<1>4. CASE ~Complete(AccessAt(data, s, a[x]))
  BY <1>1, <1>3, <1>4 DEF SquashableIn
<1>5. CASE x >= 2 /\ AccessAt(data, s, a[x]).prev_value # AccessAt(data, s, a[x - 1]).new_value
  <2>1. x \in 2..Len(a)
    BY <1>3, <1>5
  <2> QED
    BY <1>1, <1>5, <2>1 DEF SquashableIn
<1> QED
  BY <1>4, <1>5

-----------------------------------------------------------------------------
(* The hints of squash_dict_inner, one by one.                             *)

\* squash_dict_inner_first_iteration
FirstLeaves(data, q, v, n) ==
  LET r  == FirstIteration(v)
      at == AccessAt(data, q.start, r.val)
      p  == [q EXCEPT !.index = r.val, !.used = 1, !.pc = "skip",
                      !.first_value = at.prev_value, !.value = at.new_value]
  IN  /\ r.err = "ok" /\ r.val \in 0..(n - 1)
      /\ IF Complete(at) /\ at.key = IntValue(q.key) THEN Going(data, p, r.vm, n)
                                                     ELSE ~SquashableIn(data, q.start, q.end)

\* squash_dict_inner_first_iteration.
LEMMA FirstGoes ==
  ASSUME NEW data, NEW q, NEW v, NEW n, Going(data, q, v, n), q.pc = "first", Inner(v)
  PROVE  FirstLeaves(data, q, v, n)
<1> DEFINE s == q.start
           k == q.key
           a == IndicesOf(data, s, n, k)
           r == FirstIteration(v)
           at == AccessAt(data, s, r.val)
           map == IndexMap(data, s, n)
           p == [q EXCEPT !.index = r.val, !.used = 1, !.pc = "skip",
                          !.first_value = at.prev_value, !.value = at.new_value]
<1>1. PICK d \in Nat : KeysDone(data, q, n, d) /\ OnKey(data, q, v, n, d)
  BY DEF Going, Working
<1>2. /\ CallKept(data, q, v, n) /\ IsSquash(q) /\ n \in Nat /\ q.end = DictAccessSize * n
      /\ Readable(data, s, n) /\ Has(v, "access_indices", map)
  BY DEF Going, CallKept
<1>3. k \in KeysOf(data, s, n) /\ Has(v, "key", k)
  BY <1>1, <1>2, KeysKnown DEF OnKey
<1>4. KeyFacts(data, s, n, k)
  BY <1>2, <1>3, KeyKnown
<1> DEFINE S == AccessesWith(data, s, n, IntValue(k))
<1>5. /\ Lists(a, S) /\ a = Ascending(S) /\ S # {} /\ a \in Seq(Nat)
      /\ Len(a) \in Nat /\ Len(a) >= 1 /\ 1 \in 1..Len(a)
      /\ a[1] \in 0..(n - 1) /\ AccessAt(data, s, a[1]).key = IntValue(k)
  <2>1. /\ Lists(a, S) /\ a = Ascending(S) /\ S # {} /\ a \in Seq(Nat)
        /\ Len(a) \in Nat /\ Len(a) >= 1
    BY <1>4 DEF KeyFacts
  <2>2. 1 \in 1..Len(a)
    BY <2>1
  <2> QED
    BY <1>4, <2>1, <2>2 DEF KeyFacts
<1>6. k \in DOMAIN map /\ map[k] = a
  BY <1>3 DEF IndexMap
<1> HIDE DEF map, a, S, s, k
<1>7. /\ Finds(v, r, a[1], AccessVariables)
      /\ Has(r.vm, "current_access_indices", Descending(a, Len(a) - 1))
      /\ Has(r.vm, "current_access_index", a[1])
  BY <1>2, <1>3, <1>5, <1>6, FirstFound
<1> HIDE DEF r
<1>8. r.err = "ok" /\ r.val = a[1] /\ Keeps(v, r.vm, AccessVariables)
  BY <1>7 DEF Finds
<1>9. CASE ~Complete(at)
  <2>1. ~SquashableIn(data, s, q.end)
    BY <1>2, <1>3, <1>5, <1>8, <1>9, NotSquashable DEF a
  <2> QED
    BY <1>5, <1>8, <1>9, <2>1 DEF FirstLeaves, r, s, k
<1>10. CASE Complete(at)
  <2>1. /\ IsSquash(p) /\ p.start = q.start /\ p.end = q.end /\ p.big_keys = q.big_keys
        /\ p.out = q.out /\ p.remaining = q.remaining /\ p.key = q.key /\ p.pc = "skip"
        /\ p.index = r.val /\ p.used = 1
        /\ p.first_value = at.prev_value /\ p.value = at.new_value
    <3> DEFINE x == at.prev_value
               y == at.new_value
               i == r.val
               t == [q EXCEPT !.index = i, !.used = 1, !.pc = "skip",
                              !.first_value = x, !.value = y]
    <3> HIDE DEF x, y, i
    <3>1. /\ IsSquash(t) /\ t.start = q.start /\ t.end = q.end /\ t.big_keys = q.big_keys
          /\ t.out = q.out /\ t.remaining = q.remaining /\ t.key = q.key /\ t.pc = "skip"
          /\ t.index = i /\ t.used = 1 /\ t.first_value = x /\ t.value = y
      BY <1>2 DEF IsSquash, Locals
    <3> QED
      BY <3>1 DEF t, x, y, i
  <2> HIDE DEF p
  <2>2. "access_indices" \notin AccessVariables /\ "key" \notin AccessVariables
        /\ "keys" \notin AccessVariables
    BY DEF AccessVariables
  <2>3. CallKept(data, p, r.vm, n)
    BY <1>2, <1>8, <2>1, <2>2, CallStays
  <2>4. KeysDone(data, p, n, d)
    BY <1>1, <2>1, DoneStays
  <2>5. OnKey(data, p, r.vm, n, d)
    BY <1>1, <1>8, <2>1, <2>2, KeyStays
  <2>6. Passed(data, s, a, 1)
    BY <1>8, <1>10 DEF Passed
  <2>7. OnAccess(data, p, r.vm, n)
    BY <1>5, <1>7, <1>8, <2>1, <2>6 DEF OnAccess, a, s, k
  <2>8. Working(data, p, r.vm, n, d)
    BY <2>1, <2>4, <2>5, <2>7 DEF Working, AccessSteps, KeySteps
  <2>9. Going(data, p, r.vm, n)
    BY <2>3, <2>8 DEF Going
  <2>10. at.key = IntValue(k)
    BY <1>5, <1>8
  <2> QED
    BY <1>5, <1>8, <1>10, <2>9, <2>10 DEF FirstLeaves, p, r, s, k
<1> QED
  BY <1>9, <1>10

\* Only the place in the code changes.
LEMMA PlaceMoved ==
  ASSUME NEW q, IsSquash(q), NEW pc
  PROVE  LET p == [q EXCEPT !.pc = pc]
         IN  /\ IsSquash(p) /\ p.pc = pc
             /\ p.start = q.start /\ p.end = q.end /\ p.out = q.out
             /\ p.big_keys = q.big_keys /\ p.key = q.key /\ p.remaining = q.remaining
             /\ p.index = q.index /\ p.used = q.used
             /\ p.first_value = q.first_value /\ p.value = q.value
  BY DEF IsSquash, Locals

\* A jump between the hints of an access.
LEMMA AccessGoes ==
  ASSUME NEW data, NEW q, NEW v, NEW n, Going(data, q, v, n), q.pc \in AccessSteps,
         NEW w, Keeps(v, w, {}), NEW pc \in AccessSteps,
         LET a == IndicesOf(data, q.start, n, q.key)
         IN  /\ pc = "check" => q.used < Len(a)
             /\ pc \in {"len", "used"} => q.used = Len(a)
  PROVE  Going(data, [q EXCEPT !.pc = pc], w, n)
<1> DEFINE p == [q EXCEPT !.pc = pc]
           a == IndicesOf(data, q.start, n, q.key)
<1>1. PICK d \in Nat : KeysDone(data, q, n, d) /\ OnKey(data, q, v, n, d) /\ OnAccess(data, q, v, n)
  BY DEF Going, Working
<1>2. CallKept(data, q, v, n) /\ IsSquash(q)
  BY DEF Going, CallKept
<1>3. /\ IsSquash(p) /\ p.pc = pc
      /\ p.start = q.start /\ p.end = q.end /\ p.out = q.out
      /\ p.big_keys = q.big_keys /\ p.key = q.key /\ p.remaining = q.remaining
      /\ p.index = q.index /\ p.used = q.used
      /\ p.first_value = q.first_value /\ p.value = q.value
  BY <1>2, PlaceMoved
<1> HIDE DEF p
<1>4. CallKept(data, p, w, n)
  BY <1>2, <1>3, CallStays
<1>5. KeysDone(data, p, n, d)
  BY <1>1, <1>3, DoneStays
<1>6. OnKey(data, p, w, n, d)
  BY <1>1, <1>3, KeyStays
<1>7. OnAccess(data, p, w, n)
  BY <1>1, <1>3 DEF OnAccess, Keeps
<1>8. Working(data, p, w, n, d)
  BY <1>3, <1>5, <1>6, <1>7 DEF Working, AccessSteps, KeySteps
<1> QED
  BY <1>4, <1>8 DEF Going, p

\* What is known while a key is worked on.
AccessKnown(data, q, v, n) ==
  LET s == q.start
      a == IndicesOf(data, s, n, q.key)
      c == Len(a) - q.used
  IN  /\ IsSquash(q) /\ s \in Nat /\ n \in Nat /\ n >= 1
      /\ q.end = DictAccessSize * n /\ q.end <= UsizeMax
      /\ Readable(data, s, n) /\ q.key \in KeysOf(data, s, n) /\ q.key \in Nat
      /\ Has(v, "access_indices", IndexMap(data, s, n)) /\ Has(v, "key", q.key)
      /\ KeyFacts(data, s, n, q.key)
      /\ a \in Seq(Nat) /\ Len(a) \in Nat
      /\ q.used \in 1..Len(a) /\ q.used \in Nat /\ c \in 0..Len(a) /\ ((c = 0) <=> (q.used = Len(a)))
      /\ q.index = a[q.used] /\ q.index \in 0..(n - 1)
      /\ Has(v, "current_access_index", q.index)
      /\ Has(v, "current_access_indices", Descending(a, c))
      /\ (Descending(a, c) = << >>) <=> (q.used = Len(a))

\* What the hints of an access read.
LEMMA AccessFacts ==
  ASSUME NEW data, NEW q, NEW v, NEW n, Going(data, q, v, n), q.pc \in AccessSteps
  PROVE  AccessKnown(data, q, v, n)
<1> DEFINE s == q.start
           k == q.key
           a == IndicesOf(data, s, n, k)
           c == Len(a) - q.used
<1>1. PICK d \in Nat : KeysDone(data, q, n, d) /\ OnKey(data, q, v, n, d) /\ OnAccess(data, q, v, n)
  BY DEF Going, Working
<1>2. /\ IsSquash(q) /\ s \in Nat /\ n \in Nat /\ n >= 1
      /\ q.end = DictAccessSize * n /\ q.end <= UsizeMax
      /\ Readable(data, s, n) /\ Has(v, "access_indices", IndexMap(data, s, n))
  BY DEF Going, CallKept
<1>3. k \in KeysOf(data, s, n) /\ Has(v, "key", k)
  BY <1>1, <1>2, KeysKnown DEF OnKey
<1>4. KeyFacts(data, s, n, k)
  BY <1>2, <1>3, KeyKnown
<1>5. /\ a \in Seq(Nat) /\ Len(a) \in Nat /\ k \in Nat
      /\ \A x \in 1..Len(a) : a[x] \in 0..(n - 1)
  BY <1>4 DEF KeyFacts
<1>6. /\ q.used \in 1..Len(a) /\ q.index = a[q.used]
      /\ Has(v, "current_access_index", q.index)
      /\ Has(v, "current_access_indices", Descending(a, c))
  BY <1>1 DEF OnAccess
<1> HIDE DEF a, s, k
<1>7. q.used \in Nat /\ c \in 0..Len(a) /\ ((c = 0) <=> (q.used = Len(a)))
  BY <1>5, <1>6
<1>8. q.index \in 0..(n - 1)
  BY <1>5, <1>6
<1> HIDE DEF c
<1>9. (Descending(a, c) = << >>) <=> (c = 0)
  BY <1>5, <1>7, DescendingSeq
<1> QED
  BY <1>2, <1>3, <1>4, <1>5, <1>6, <1>7, <1>8, <1>9 DEF AccessKnown, a, s, k, c

\* squash_dict_inner_skip_loop
SkipLeaves(data, q, v, n) ==
  LET r == SkipLoop(v)
      p == [q EXCEPT !.pc = IF r.val = 1 THEN "len" ELSE "check"]
  IN  r.err = "ok" /\ Going(data, p, r.vm, n)

\* squash_dict_inner_skip_loop.
LEMMA SkipGoes ==
  ASSUME NEW data, NEW q, NEW v, NEW n, Going(data, q, v, n), q.pc = "skip", Inner(v)
  PROVE  SkipLeaves(data, q, v, n)
<1> DEFINE a == IndicesOf(data, q.start, n, q.key)
           e == Descending(a, Len(a) - q.used)
           r == SkipLoop(v)
           pc == IF r.val = 1 THEN "len" ELSE "check"
<1>1. q.pc \in AccessSteps /\ pc \in AccessSteps
  BY DEF AccessSteps
<1>2. /\ Has(v, "current_access_indices", e) /\ ((e = << >>) <=> (q.used = Len(a)))
      /\ q.used \in 1..Len(a) /\ Len(a) \in Nat
  BY <1>1, AccessFacts DEF AccessKnown
<1> HIDE DEF a, e
<1>3. Finds(v, r, IF e = << >> THEN 1 ELSE 0, {})
  BY <1>2, SquashAsks
<1> HIDE DEF r
<1>4. r.err = "ok" /\ Keeps(v, r.vm, {}) /\ r.val = IF e = << >> THEN 1 ELSE 0
  BY <1>3 DEF Finds
<1>5. (pc = "check" => q.used < Len(a)) /\ (pc \in {"len", "used"} => q.used = Len(a))
  BY <1>2, <1>4
<1> HIDE DEF pc
<1>6. Going(data, [q EXCEPT !.pc = pc], r.vm, n)
  BY <1>1, <1>4, <1>5, AccessGoes DEF a
<1> QED
  BY <1>4, <1>6 DEF SkipLeaves, r, pc

\* squash_dict_inner_continue_loop
ContinueLeaves(data, q, v, n) ==
  LET r == ContinueLoop(v)
      p == [q EXCEPT !.pc = IF r.val = 1 THEN "check" ELSE "len"]
  IN  r.err = "ok" /\ Going(data, p, r.vm, n)

\* squash_dict_inner_continue_loop.
LEMMA ContinueGoes ==
  ASSUME NEW data, NEW q, NEW v, NEW n, Going(data, q, v, n), q.pc = "continue", Inner(v)
  PROVE  ContinueLeaves(data, q, v, n)
<1> DEFINE a == IndicesOf(data, q.start, n, q.key)
           e == Descending(a, Len(a) - q.used)
           r == ContinueLoop(v)
           pc == IF r.val = 1 THEN "check" ELSE "len"
<1>1. q.pc \in AccessSteps /\ pc \in AccessSteps
  BY DEF AccessSteps
<1>2. /\ Has(v, "current_access_indices", e) /\ ((e = << >>) <=> (q.used = Len(a)))
      /\ q.used \in 1..Len(a) /\ Len(a) \in Nat
  BY <1>1, AccessFacts DEF AccessKnown
<1> HIDE DEF a, e
<1>3. Finds(v, r, IF e = << >> THEN 0 ELSE 1, {})
  BY <1>2, SquashAsks
<1> HIDE DEF r
<1>4. r.err = "ok" /\ Keeps(v, r.vm, {}) /\ r.val = IF e = << >> THEN 0 ELSE 1
  BY <1>3 DEF Finds
<1>5. (pc = "check" => q.used < Len(a)) /\ (pc \in {"len", "used"} => q.used = Len(a))
  BY <1>2, <1>4
<1> HIDE DEF pc
<1>6. Going(data, [q EXCEPT !.pc = pc], r.vm, n)
  BY <1>1, <1>4, <1>5, AccessGoes DEF a
<1> QED
  BY <1>4, <1>6 DEF ContinueLeaves, r, pc

\* A number below the bound of the range checks.
LEMMA NumberInRange ==
  ASSUME NEW i \in Nat, i < RangeCheckBound
  PROVE  InRange(IntValue(i)) /\ RuleError(IntValue(i)) = "ok"
<1>1. IntValue(i) \in Values /\ IntValue(i) # None /\ IntValue(i).num = i
  BY IntValueKnown
<1>2. IntValue(i).kind = "int"
  BY DEF IntValue
<1>3. IsInt(IntValue(i))
  BY <1>1, <1>2 DEF IsInt
<1>4. InRange(IntValue(i))
  BY <1>1, <1>3 DEF InRange
<1> QED
  BY <1>3, <1>4 DEF RuleError

\* squash_dict_inner_len_assert
LenLeaves(data, q, v, n) ==
  LET r == LenAssert(v)
  IN  /\ r.err = "ok" /\ InRange(IntValue(q.end - 1 - DictAccessSize * q.index))
      /\ Going(data, [q EXCEPT !.pc = "used"], r.vm, n)

\* squash_dict_inner_len_assert.
LEMMA LenGoes ==
  ASSUME NEW data, NEW q, NEW v, NEW n, Going(data, q, v, n), q.pc = "len", Inner(v)
  PROVE  LenLeaves(data, q, v, n)
<1> DEFINE a == IndicesOf(data, q.start, n, q.key)
           e == Descending(a, Len(a) - q.used)
           r == LenAssert(v)
<1>1. q.pc \in AccessSteps /\ "used" \in AccessSteps
  BY DEF AccessSteps
<1>2. q.used = Len(a)
  BY DEF Going, Working, OnAccess, AccessSteps
<1>3. /\ Has(v, "current_access_indices", e) /\ ((e = << >>) <=> (q.used = Len(a)))
      /\ n \in Nat /\ q.end = DictAccessSize * n /\ q.end <= UsizeMax /\ q.index \in 0..(n - 1)
  BY <1>1, AccessFacts DEF AccessKnown
<1> HIDE DEF a, e
<1>4. Finds(v, r, None, {})
  BY <1>2, <1>3, SquashAsks
<1> HIDE DEF r
<1>5. r.err = "ok" /\ Keeps(v, r.vm, {})
  BY <1>4 DEF Finds
<1>6. Going(data, [q EXCEPT !.pc = "used"], r.vm, n)
  BY <1>1, <1>2, <1>5, AccessGoes DEF a
<1> DEFINE l == q.end - 1 - DictAccessSize * q.index
<1>7. l \in Nat /\ l < RangeCheckBound
  BY <1>3, FieldAssumption, BoundAssumption, ProgramsAssumption DEF DictAccessSize
<1> HIDE DEF l
<1>8. InRange(IntValue(l))
  BY <1>7, NumberInRange
<1> QED
  BY <1>5, <1>6, <1>8 DEF LenLeaves, r, l

\* squash_dict_inner_check_access_index
CheckLeaves(data, q, v, n) ==
  LET r  == CheckAccessIndex(v)
      i  == q.index + r.val + 1
      at == AccessAt(data, q.start, i)
      p  == [q EXCEPT !.index = i, !.used = @ + 1, !.value = at.new_value, !.pc = "continue"]
  IN  /\ r.err = "ok" /\ InRange(IntValue(r.val))
      /\ IF Complete(at) /\ at.key = IntValue(q.key) /\ at.prev_value = q.value
         THEN Going(data, p, r.vm, n) ELSE ~SquashableIn(data, q.start, q.end)

\* squash_dict_inner_check_access_index, and the chain that the library asserts.
LEMMA CheckGoes ==
  ASSUME NEW data, NEW q, NEW v, NEW n, Going(data, q, v, n), q.pc = "check", Inner(v)
  PROVE  CheckLeaves(data, q, v, n)
<1> DEFINE s == q.start
           k == q.key
           a == IndicesOf(data, s, n, k)
           u == q.used
           c == Len(a) - u
           r == CheckAccessIndex(v)
           i == q.index + r.val + 1
           at == AccessAt(data, s, i)
           p == [q EXCEPT !.index = i, !.used = @ + 1, !.value = at.new_value, !.pc = "continue"]
<1>1. q.pc \in AccessSteps
  BY DEF AccessSteps
<1>2. PICK d \in Nat : KeysDone(data, q, n, d) /\ OnKey(data, q, v, n, d) /\ OnAccess(data, q, v, n)
  BY <1>1 DEF Going, Working
<1>3. CallKept(data, q, v, n)
  BY DEF Going
<1>4. /\ IsSquash(q) /\ n \in Nat /\ n >= 1 /\ q.end = DictAccessSize * n /\ q.end <= UsizeMax
      /\ Readable(data, s, n) /\ k \in KeysOf(data, s, n) /\ KeyFacts(data, s, n, k)
      /\ a \in Seq(Nat) /\ Len(a) \in Nat /\ u \in 1..Len(a) /\ u \in Nat
      /\ q.index = a[u] /\ q.index \in 0..(n - 1)
      /\ Has(v, "current_access_index", q.index)
      /\ Has(v, "current_access_indices", Descending(a, c))
  BY <1>1, AccessFacts DEF AccessKnown
<1>5. /\ u < Len(a) /\ q.value = AccessAt(data, s, q.index).new_value /\ Passed(data, s, a, u)
      /\ q.first_value = AccessAt(data, s, a[1]).prev_value
  BY <1>2 DEF OnAccess
<1> HIDE DEF s, k, a, u
<1>6. /\ c \in 1..Len(a) /\ Len(a) + 1 - c = u + 1 /\ c - 1 = Len(a) - (u + 1)
      /\ u + 1 \in 2..Len(a) /\ u + 1 \in 1..Len(a) /\ (u + 1) - 1 = u
  <2>1. Len(a) \in Nat /\ u \in Nat /\ u >= 1 /\ u < Len(a)
    BY <1>4, <1>5
  <2> DEFINE l == Len(a)
  <2> HIDE DEF l
  <2>2. /\ l - u \in 1..l /\ l + 1 - (l - u) = u + 1 /\ (l - u) - 1 = l - (u + 1)
        /\ u + 1 \in 2..l /\ u + 1 \in 1..l /\ (u + 1) - 1 = u
    BY <2>1 DEF l
  <2> QED
    BY <2>2 DEF l
<1>7. /\ a[u + 1] \in 0..(n - 1) /\ AccessAt(data, s, a[u + 1]).key = IntValue(k)
      /\ a[(u + 1) - 1] < a[u + 1]
  BY <1>4, <1>6 DEF KeyFacts, a
<1>8. /\ Finds(v, r, a[u + 1] - q.index - 1, AccessVariables)
      /\ Has(r.vm, "current_access_indices", Descending(a, Len(a) - (u + 1)))
      /\ Has(r.vm, "current_access_index", a[u + 1])
  <2> HIDE DEF c, r
  <2>1. /\ Finds(v, r, a[Len(a) + 1 - c] - q.index - 1, AccessVariables)
        /\ Has(r.vm, "current_access_indices", Descending(a, c - 1))
        /\ Has(r.vm, "current_access_index", a[Len(a) + 1 - c])
    BY <1>4, <1>6, NextFound DEF r
  <2> QED
    BY <1>6, <2>1
<1> HIDE DEF r
<1>9. r.err = "ok" /\ r.val = a[u + 1] - q.index - 1 /\ Keeps(v, r.vm, AccessVariables)
  BY <1>8 DEF Finds
<1>10. i = a[u + 1] /\ r.val \in Nat /\ r.val < n
  <2> DEFINE x == a[u + 1]
             y == a[u]
             l == r.val
  <2>1. x \in 0..(n - 1) /\ y \in 0..(n - 1) /\ y < x /\ n \in Nat
    BY <1>4, <1>6, <1>7
  <2>2. l = x - y - 1 /\ i = y + l + 1
    BY <1>4, <1>9
  <2> HIDE DEF x, y, l, i
  <2>3. i = x /\ l \in Nat /\ l < n
    BY <2>1, <2>2
  <2> QED
    BY <2>3 DEF x, l
<1>11. InRange(IntValue(r.val))
  <2>1. r.val < RangeCheckBound
    BY <1>4, <1>10, FieldAssumption, BoundAssumption, ProgramsAssumption DEF DictAccessSize
  <2> QED
    BY <1>10, <2>1, NumberInRange
<1> HIDE DEF i
<1>12. at.key = IntValue(k)
  BY <1>7, <1>10
<1>13. CASE ~(Complete(at) /\ at.prev_value = q.value)
  <2>1. ~Complete(at) \/ (u + 1 >= 2 /\ at.prev_value # AccessAt(data, s, a[(u + 1) - 1]).new_value)
    BY <1>4, <1>5, <1>6, <1>13
  <2>2. ~SquashableIn(data, s, q.end)
    <3> DEFINE x == u + 1
    <3>1. x \in 1..Len(a) /\ i = a[x]
      BY <1>6, <1>10
    <3>2. ~Complete(AccessAt(data, s, a[x])) \/
            (x >= 2 /\ AccessAt(data, s, a[x]).prev_value # AccessAt(data, s, a[x - 1]).new_value)
      BY <2>1, <3>1
    <3> HIDE DEF x
    <3> QED
      BY <1>4, <3>1, <3>2, NotSquashable DEF a
  <2> QED
    BY <1>9, <1>11, <1>12, <1>13, <2>2 DEF CheckLeaves, i, r, s, k
<1>14. CASE Complete(at) /\ at.prev_value = q.value
  <2>1. /\ IsSquash(p) /\ p.start = q.start /\ p.end = q.end /\ p.big_keys = q.big_keys
        /\ p.out = q.out /\ p.remaining = q.remaining /\ p.key = q.key /\ p.pc = "continue"
        /\ p.index = i /\ p.used = u + 1
        /\ p.first_value = q.first_value /\ p.value = at.new_value
    <3> DEFINE y == at.new_value
               t == [q EXCEPT !.index = i, !.used = @ + 1, !.value = y, !.pc = "continue"]
    <3> HIDE DEF y
    <3>1. /\ IsSquash(t) /\ t.start = q.start /\ t.end = q.end /\ t.big_keys = q.big_keys
          /\ t.out = q.out /\ t.remaining = q.remaining /\ t.key = q.key
          /\ t.pc = "continue" /\ t.index = i /\ t.used = q.used + 1
          /\ t.first_value = q.first_value /\ t.value = y
      BY <1>4 DEF IsSquash, Locals
    <3> QED
      BY <3>1 DEF t, y, u
  <2> HIDE DEF p
  <2>2. "access_indices" \notin AccessVariables /\ "key" \notin AccessVariables
        /\ "keys" \notin AccessVariables
    BY DEF AccessVariables
  <2>3. CallKept(data, p, r.vm, n)
    BY <1>3, <1>4, <1>9, <2>1, <2>2, CallStays
  <2>4. KeysDone(data, p, n, d)
    BY <1>2, <2>1, DoneStays
  <2>5. OnKey(data, p, r.vm, n, d)
    BY <1>2, <1>9, <2>1, <2>2, KeyStays
  <2>6. Passed(data, s, a, u + 1)
    <3>1. \A x \in 1..(u + 1) : x = u + 1 \/ x \in 1..u
      BY <1>4
    <3>2. \A x \in 2..(u + 1) : x = u + 1 \/ x \in 2..u
      BY <1>4
    <3>3. Complete(AccessAt(data, s, a[u + 1]))
      BY <1>10, <1>14
    <3>4. AccessAt(data, s, a[u + 1]).prev_value = AccessAt(data, s, a[(u + 1) - 1]).new_value
      BY <1>4, <1>5, <1>6, <1>10, <1>14
    <3> QED
      BY <1>5, <3>1, <3>2, <3>3, <3>4 DEF Passed
  <2>7. OnAccess(data, p, r.vm, n)
    BY <1>5, <1>6, <1>8, <1>10, <2>1, <2>6 DEF OnAccess, a, s, k
  <2>8. Working(data, p, r.vm, n, d)
    BY <2>1, <2>4, <2>5, <2>7 DEF Working, AccessSteps, KeySteps
  <2>9. Going(data, p, r.vm, n)
    BY <2>3, <2>8 DEF Going
  <2> QED
    BY <1>9, <1>11, <1>12, <1>14, <2>9 DEF CheckLeaves, p, i, r, s, k
<1> QED
  BY <1>13, <1>14

-----------------------------------------------------------------------------
(* The end of a key.                                                       *)

\* The size of two disjoint sets together.
LEMMA DisjointSize ==
  ASSUME NEW A, IsFiniteSet(A), NEW B, IsFiniteSet(B), A \intersect B = {}
  PROVE  Cardinality(A \union B) = Cardinality(A) + Cardinality(B)
<1> DEFINE Wrong(C) == IsFiniteSet(C) /\ ~(IsFiniteSet(A \union C) /\
                                          Cardinality(A \union C) = Cardinality(A) + Cardinality(C))
           Bad == {m \in Nat : \E C \in SUBSET B : Wrong(C) /\ Cardinality(C) = m}
<1>1. Cardinality(A) \in Nat
  BY FS_CardinalityType
<1>2. ASSUME Bad # {}
      PROVE  FALSE
  <2>1. PICK m \in Bad : \A i \in Bad : m <= i
    <3>1. Bad \in SUBSET Nat
      OBVIOUS
    <3> HIDE DEF Bad
    <3> QED
      BY <1>2, <3>1, HasMinimum
  <2>2. PICK C \in SUBSET B : Wrong(C) /\ Cardinality(C) = m
    BY <2>1
  <2>3. IsFiniteSet(C) /\ m \in Nat
    BY <2>2
  <2>4. C # {}
    <3>1. Cardinality({}) = 0 /\ A \union {} = A
      BY FS_EmptySet
    <3>2. IsFiniteSet(A \union {}) /\ Cardinality(A \union {}) = Cardinality(A) + 0
      BY <1>1, <3>1
    <3> QED
      BY <2>2, <3>1, <3>2
  <2>5. PICK x \in C : TRUE
    BY <2>4
  <2> DEFINE D == C \ {x}
  <2>6. IsFiniteSet(D) /\ Cardinality(D) = m - 1
    BY <2>2, <2>3, <2>5, FS_RemoveElement
  <2>7. Cardinality(D) \in Nat /\ D \in SUBSET B
    BY <2>6, FS_CardinalityType
  <2>8. m - 1 \in Nat /\ ~(m <= m - 1)
    BY <2>3, <2>6, <2>7
  <2>9. ~Wrong(D)
    <3>1. m - 1 \notin Bad
      BY <2>1, <2>8
    <3> HIDE DEF Wrong, D
    <3> QED
      BY <2>6, <2>7, <2>8, <3>1
  <2>10. IsFiniteSet(A \union D) /\ Cardinality(A \union D) = Cardinality(A) + (m - 1)
    BY <2>6, <2>9
  <2>11. x \notin A \union D /\ (A \union D) \union {x} = A \union C
    BY <2>5
  <2> HIDE DEF D
  <2>12. IsFiniteSet((A \union D) \union {x}) /\
         Cardinality((A \union D) \union {x}) = Cardinality(A \union D) + 1
    BY <2>10, <2>11, FS_AddElement
  <2>13. IsFiniteSet(A \union C) /\ Cardinality(A \union C) = (Cardinality(A) + (m - 1)) + 1
    BY <2>10, <2>11, <2>12
  <2>14. (Cardinality(A) + (m - 1)) + 1 = Cardinality(A) + m
    BY <1>1, <2>3
  <2> QED
    BY <2>2, <2>13, <2>14
<1>3. ~Wrong(B)
  <2>1. Cardinality(B) \in Nat /\ B \in SUBSET B
    BY FS_CardinalityType
  <2> HIDE DEF Wrong
  <2> QED
    BY <1>2, <2>1
<1> QED
  BY <1>3

\* With the accesses of the next key gone, those of the keys after it are left:
\* none when it was the last.
LEMMA LeftNext ==
  ASSUME NEW data, NEW s, NEW n \in Nat, Readable(data, s, n), NEW d \in Nat,
         d + 1 \in 1..Len(SortedKeys(data, s, n))
  PROVE  LET keys == SortedKeys(data, s, n)
             a    == IndicesOf(data, s, n, keys[d + 1])
             left == Cardinality(Left(data, s, n, d)) - Len(a)
         IN  /\ left = Cardinality(Left(data, s, n, d + 1))
             /\ IF left = 0 THEN d + 1 = Len(keys) ELSE d + 1 < Len(keys)
<1> DEFINE keys == SortedKeys(data, s, n)
           K    == KeysOf(data, s, n)
           k    == keys[d + 1]
           num(i) == AccessAt(data, s, i).key.num
           S    == AccessesWith(data, s, n, IntValue(k))
           L    == Left(data, s, n, d)
           M    == Left(data, s, n, d + 1)
           a    == IndicesOf(data, s, n, k)
           c    == Len(keys)
<1>1. /\ keys \in Seq(Nat) /\ c \in Nat
      /\ \A x \in 1..c : keys[x] \in K /\ keys[x] \in Nat
      /\ \A x \in 2..c :
           keys[x - 1] < keys[x] /\ ~ \E l \in K : keys[x - 1] < l /\ l < keys[x]
      /\ \A l \in K : /\ \E x \in 1..c : keys[x] = l
                      /\ keys[1] <= l /\ l <= keys[c] /\ c >= 1
  BY KeysKnown
<1>2. \A i \in 0..(n - 1) : num(i) \in K /\ num(i) \in Nat
  BY DEF Readable, KeysOf
<1>3. L = {i \in 0..(n - 1) : d >= 1 => num(i) > keys[d]}
  BY DEF Left
<1>4. M = {i \in 0..(n - 1) : num(i) > k}
  BY DEF Left
<1>5. \A i \in 0..(n - 1) : i \in S <=> num(i) = k
  <2>1. \A i \in 0..(n - 1) : AccessAt(data, s, i).key = IntValue(num(i))
    BY IntIs DEF Readable
  <2>2. \A i : IntValue(i).num = i
    BY DEF IntValue
  <2> QED
    BY <2>1, <2>2 DEF AccessesWith
<1>6. S \subseteq 0..(n - 1)
  BY DEF AccessesWith
<1>7. K = {num(i) : i \in 0..(n - 1)}
  BY DEF KeysOf
<1>8. a \in Seq(Nat) /\ Len(a) = Cardinality(S) /\ Len(a) \in Nat
  <2>1. KeyFacts(data, s, n, k)
    BY <1>1, KeyKnown
  <2> QED
    BY <2>1 DEF KeyFacts, Lists, Sorts
<1>0. d + 1 \in 1..c
  OBVIOUS
<1> HIDE DEF keys, K, S, L, M, a
<1>9. k \in K /\ k \in Nat
  BY <1>0, <1>1
<1>10. d >= 1 => /\ d \in 1..c /\ keys[d] \in Nat /\ keys[d] < k
                 /\ ~ \E l \in K : keys[d] < l /\ l < k
  <2> SUFFICES ASSUME d >= 1
               PROVE  /\ d \in 1..c /\ keys[d] \in Nat /\ keys[d] < k
                      /\ ~ \E l \in K : keys[d] < l /\ l < k
    OBVIOUS
  <2>1. d \in 1..c /\ d + 1 \in 2..c /\ (d + 1) - 1 = d
    BY <1>0, <1>1
  <2> QED
    BY <1>1, <2>1
<1>11. ASSUME NEW i \in 0..(n - 1)
       PROVE  i \in L <=> (num(i) > k \/ num(i) = k)
  <2> DEFINE x == num(i)
  <2>1. x \in K /\ x \in Nat
    BY <1>2
  <2>2. CASE d = 0
    <3>1. keys[1] <= x /\ k = keys[1]
      BY <1>1, <2>1, <2>2
    <3>2. x > k \/ x = k
      BY <1>9, <2>1, <3>1
    <3> QED
      BY <1>3, <2>2, <3>2
  <2>3. CASE d >= 1
    <3>1. i \in L <=> x > keys[d]
      BY <1>3, <2>3
    <3> HIDE DEF x
    <3>2. x > keys[d] => ~(x < k)
      BY <1>10, <2>1, <2>3
    <3>3. x > keys[d] <=> (x > k \/ x = k)
      BY <1>9, <1>10, <2>1, <2>3, <3>2
    <3> QED
      BY <3>1, <3>3 DEF x
  <2> QED
    BY <2>2, <2>3
<1>12. L = M \union S
  BY <1>3, <1>4, <1>5, <1>6, <1>11
<1>13. M \intersect S = {}
  BY <1>2, <1>4, <1>5, <1>6, <1>9
<1>14. IsFiniteSet(M) /\ IsFiniteSet(S)
  <2>1. IsFiniteSet(0..(n - 1))
    BY FS_Interval
  <2> QED
    BY <1>4, <1>6, <2>1, FS_Subset
<1>15. Cardinality(L) = Cardinality(M) + Cardinality(S) /\ Cardinality(M) \in Nat
  BY <1>12, <1>13, <1>14, DisjointSize, FS_CardinalityType
<1>16. Cardinality(L) - Len(a) = Cardinality(M)
  BY <1>8, <1>15
<1>17. CASE d + 1 = c
  <2>1. \A l \in K : l <= k
    BY <1>1, <1>17
  <2>2. \A i \in 0..(n - 1) : ~(num(i) > k)
    BY <1>2, <1>9, <2>1
  <2>3. M = {}
    BY <1>4, <2>2
  <2>4. Cardinality(M) = 0
    BY <2>3, FS_EmptySet
  <2> QED
    BY <1>16, <1>17, <2>4 DEF keys, L, M, a
<1>18. CASE d + 1 # c
  <2>1. d + 1 < c /\ (d + 1) + 1 \in 2..c /\ ((d + 1) + 1) - 1 = d + 1 /\ (d + 1) + 1 \in 1..c
    BY <1>0, <1>1, <1>18
  <2> DEFINE l == keys[(d + 1) + 1]
  <2>2. l \in K /\ l \in Nat /\ k < l
    BY <1>1, <2>1
  <2>3. PICK i \in 0..(n - 1) : num(i) = l
    BY <1>7, <2>2
  <2>4. i \in M
    BY <1>4, <1>9, <2>2, <2>3
  <2>5. Cardinality(M) # 0
    BY <1>14, <2>4, FS_EmptySet
  <2> QED
    BY <1>16, <2>1, <2>5 DEF keys, L, M, a
<1> QED
  BY <1>17, <1>18

\* One more of a list of values.
LEMMA OneMore ==
  ASSUME NEW d \in Nat, NEW f
  PROVE  Append([x \in 1..d |-> f[x]], f[d + 1]) = [x \in 1..(d + 1) |-> f[x]]
<1> DEFINE T == {f[x] : x \in 1..(d + 1)}
           p == [x \in 1..d |-> f[x]]
           r == [x \in 1..(d + 1) |-> f[x]]
           e == f[d + 1]
           b == Append(p, e)
<1>1. d + 1 \in Nat /\ d + 1 \in 1..(d + 1) /\ \A x \in 1..d : x \in 1..(d + 1)
  OBVIOUS
<1>2. e \in T /\ \A x \in 1..d : f[x] \in T
  BY <1>1
<1>3. \A x \in 1..(d + 1) : f[x] \in T
  OBVIOUS
<1> HIDE DEF T
<1>4. p \in Seq(T) /\ Len(p) = d /\ \A x \in 1..d : p[x] = f[x]
  BY <1>2
<1>5. r \in Seq(T) /\ Len(r) = d + 1 /\ \A x \in 1..(d + 1) : r[x] = f[x]
  BY <1>1, <1>3
<1> HIDE DEF p, r
<1>6. b \in Seq(T) /\ Len(b) = d + 1 /\ (\A x \in 1..d : b[x] = p[x]) /\ b[d + 1] = e
  <2> HIDE DEF e
  <2>1. /\ b \in Seq(T) /\ Len(b) = Len(p) + 1
        /\ \A x \in 1..Len(p) : b[x] = p[x]
        /\ b[Len(p) + 1] = e
    BY <1>2, <1>4, AppendProperties
  <2> QED
    BY <1>4, <2>1
<1> HIDE DEF b
<1>7. \A x \in 1..Len(b) : b[x] = r[x]
  <2>1. \A x \in 1..Len(b) : x \in 1..d \/ x = d + 1
    BY <1>6
  <2> QED
    BY <1>1, <1>4, <1>5, <1>6, <2>1
<1>8. b = r
  BY <1>5, <1>6, <1>7, SeqEqual
<1> QED
  BY <1>8 DEF b, p, r, e

\* squash_dict_inner_used_accesses_assert
UsedNext(q) ==
  LET left == q.remaining - q.used
  IN  [q EXCEPT !.out = Append(@, [key |-> IntValue(q.key), prev_value |-> q.first_value,
                                   new_value |-> q.value]),
                !.remaining = left, !.pc = IF left = 0 THEN "keys" ELSE "next"]

\* What the library keeps when the accesses of a key were used.
LEMMA UsedNextIs ==
  ASSUME NEW q, IsSquash(q)
  PROVE  LET p    == UsedNext(q)
             left == q.remaining - q.used
         IN  /\ IsSquash(p) /\ p.pc = IF left = 0 THEN "keys" ELSE "next"
             /\ p.start = q.start /\ p.end = q.end /\ p.big_keys = q.big_keys
             /\ p.key = q.key /\ p.remaining = left
             /\ p.out = Append(q.out, [key |-> IntValue(q.key), prev_value |-> q.first_value,
                                       new_value |-> q.value])
  BY DEF UsedNext, IsSquash, Locals

UsedLeaves(data, q, v, n) ==
  LET r == UsedAccessesAssert(v, q.used)
  IN  r.err = "ok" /\ Going(data, UsedNext(q), r.vm, n)

\* squash_dict_inner_used_accesses_assert.
LEMMA UsedGoes ==
  ASSUME NEW data, NEW q, NEW v, NEW n, Going(data, q, v, n), q.pc = "used", Inner(v)
  PROVE  UsedLeaves(data, q, v, n)
<1> DEFINE s == q.start
           k == q.key
           keys == SortedKeys(data, s, n)
           a == IndicesOf(data, s, n, k)
           map == IndexMap(data, s, n)
           r == UsedAccessesAssert(v, q.used)
           p == UsedNext(q)
           left == q.remaining - q.used
           e == [key |-> IntValue(k), prev_value |-> q.first_value, new_value |-> q.value]
<1>1. q.pc \in AccessSteps
  BY DEF AccessSteps
<1>2. PICK d \in Nat : KeysDone(data, q, n, d) /\ OnKey(data, q, v, n, d) /\ OnAccess(data, q, v, n)
  BY <1>1 DEF Going, Working
<1>3. CallKept(data, q, v, n)
  BY DEF Going
<1>4. /\ IsSquash(q) /\ n \in Nat /\ Readable(data, s, n)
      /\ k \in KeysOf(data, s, n) /\ Has(v, "access_indices", map) /\ Has(v, "key", k)
      /\ a \in Seq(Nat) /\ Len(a) \in Nat /\ q.index = a[q.used]
  BY <1>1, AccessFacts DEF AccessKnown
<1>5. /\ q.used = Len(a) /\ q.first_value = AccessAt(data, s, a[1]).prev_value
      /\ q.value = AccessAt(data, s, q.index).new_value
      /\ Passed(data, s, a, Len(a))
  BY <1>2 DEF OnAccess
<1>6. /\ d + 1 \in 1..Len(keys) /\ k = keys[d + 1]
      /\ Has(v, "keys", Descending(keys, Len(keys) - (d + 1)))
  BY <1>2 DEF OnKey
<1>7. /\ q.out = [x \in 1..d |-> Entry(data, s, n, keys[x])]
      /\ \A x \in 1..d : LET b == IndicesOf(data, s, n, keys[x]) IN Passed(data, s, b, Len(b))
      /\ q.remaining = Cardinality(Left(data, s, n, d))
  BY <1>2 DEF KeysDone
<1>8. Finds(v, r, None, {})
  <2>1. k \in DOMAIN map /\ map[k] = a
    BY <1>4 DEF IndexMap
  <2> HIDE DEF map, a, k
  <2>2. Finds(v, UsedAccessesAssert(v, Len(map[k])), None, {})
    BY <1>4, <2>1, UsedAsked
  <2> QED
    BY <1>5, <2>1, <2>2
<1> HIDE DEF r
<1>9. r.err = "ok" /\ Keeps(v, r.vm, {})
  BY <1>8 DEF Finds
<1>10. /\ IsSquash(p) /\ p.pc = (IF left = 0 THEN "keys" ELSE "next")
       /\ p.start = s /\ p.end = q.end /\ p.big_keys = q.big_keys
       /\ p.key = k /\ p.remaining = left /\ p.out = Append(q.out, e)
  BY <1>4, UsedNextIs
<1> HIDE DEF p
<1>11. CallKept(data, p, r.vm, n)
  BY <1>3, <1>9, <1>10, CallStays
<1>12. /\ left = Cardinality(Left(data, s, n, d + 1))
       /\ IF left = 0 THEN d + 1 = Len(keys) ELSE d + 1 < Len(keys)
  <2> HIDE DEF s
  <2>1. LET l == Cardinality(Left(data, s, n, d)) - Len(IndicesOf(data, s, n, keys[d + 1]))
        IN  /\ l = Cardinality(Left(data, s, n, d + 1))
            /\ IF l = 0 THEN d + 1 = Len(keys) ELSE d + 1 < Len(keys)
    BY <1>4, <1>6, LeftNext
  <2> QED
    BY <1>5, <1>6, <1>7, <2>1
<1>13. e = Entry(data, s, n, keys[d + 1])
  <2>1. Last(a) = a[Len(a)]
    BY DEF Last
  <2>2. /\ e.prev_value = AccessAt(data, s, a[1]).prev_value
        /\ q.value = AccessAt(data, s, Last(a)).new_value
    BY <1>4, <1>5, <2>1
  <2> QED
    BY <1>5, <1>6, <2>2 DEF Entry
<1>14. p.out = [x \in 1..(d + 1) |-> Entry(data, s, n, keys[x])]
  <2> DEFINE f == [x \in 1..(d + 1) |-> Entry(data, s, n, keys[x])]
  <2>1. /\ \A x \in 1..(d + 1) : f[x] = Entry(data, s, n, keys[x])
        /\ \A x \in 1..d : x \in 1..(d + 1)
        /\ d + 1 \in 1..(d + 1)
    OBVIOUS
  <2>2. f = [x \in 1..(d + 1) |-> f[x]]
    OBVIOUS
  <2>3. q.out = [x \in 1..d |-> f[x]]
    <3> HIDE DEF f
    <3> QED
      BY <1>7, <2>1
  <2>4. e = f[d + 1]
    BY <1>13, <2>1
  <2> HIDE DEF f, e
  <2>5. Append([x \in 1..d |-> f[x]], f[d + 1]) = [x \in 1..(d + 1) |-> f[x]]
    BY OneMore
  <2> QED
    BY <1>10, <2>2, <2>3, <2>4, <2>5 DEF f
<1> HIDE DEF e, left
<1>15. KeysDone(data, p, n, d + 1)
  <2>1. d + 1 \in 0..Len(keys)
    BY <1>6
  <2>2. \A x \in 1..(d + 1) : LET b == IndicesOf(data, s, n, keys[x]) IN Passed(data, s, b, Len(b))
    <3>1. \A x \in 1..(d + 1) : x \in 1..d \/ x = d + 1
      OBVIOUS
    <3> QED
      BY <1>5, <1>6, <1>7, <3>1
  <2> QED
    BY <1>10, <1>12, <1>14, <2>1, <2>2 DEF KeysDone
<1>16. AfterKey(data, p, r.vm, n, d + 1)
  <2>1. Has(r.vm, "keys", Descending(keys, Len(keys) - (d + 1)))
    BY <1>6, <1>9 DEF Keeps
  <2>2. IF p.pc = "next" THEN d + 1 < Len(keys) ELSE d + 1 = Len(keys)
    BY <1>10, <1>12
  <2> QED
    BY <1>6, <1>10, <2>1, <2>2 DEF AfterKey
<1>17. p.pc \in KeySteps /\ p.pc \notin AccessSteps /\ p.pc # "first"
  BY <1>10 DEF KeySteps, AccessSteps
<1>18. Working(data, p, r.vm, n, d + 1)
  BY <1>15, <1>16, <1>17 DEF Working
<1>19. Going(data, p, r.vm, n)
  BY <1>11, <1>18 DEF Going
<1> QED
  BY <1>9, <1>19 DEF UsedLeaves, p, r

\* squash_dict_inner_assert_len_keys
KeysLeaves(data, q, v, n) ==
  LET r == AssertLenKeys(v)
  IN  r.err = "ok" /\ Going(data, [q EXCEPT !.pc = "exit"], r.vm, n)

\* squash_dict_inner_assert_len_keys.
LEMMA KeysGoes ==
  ASSUME NEW data, NEW q, NEW v, NEW n, Going(data, q, v, n), q.pc = "keys", Inner(v)
  PROVE  KeysLeaves(data, q, v, n)
<1> DEFINE keys == SortedKeys(data, q.start, n)
           r == AssertLenKeys(v)
           p == [q EXCEPT !.pc = "exit"]
<1>1. PICK d \in Nat : KeysDone(data, q, n, d) /\ AfterKey(data, q, v, n, d)
  BY DEF Going, Working, KeySteps
<1>2. CallKept(data, q, v, n) /\ IsSquash(q) /\ n \in Nat /\ Readable(data, q.start, n)
  BY DEF Going, CallKept
<1>3. /\ d \in 1..Len(keys) /\ q.key = keys[d] /\ d = Len(keys)
      /\ Has(v, "keys", Descending(keys, Len(keys) - d))
  BY <1>1 DEF AfterKey
<1>4. keys \in Seq(Nat) /\ Len(keys) \in Nat
  BY <1>2, KeysKnown
<1> HIDE DEF keys
<1>5. Has(v, "keys", << >>)
  <2> DEFINE c == Len(keys) - d
  <2>1. c = 0 /\ c \in 0..Len(keys)
    BY <1>3, <1>4
  <2> HIDE DEF c
  <2>2. Descending(keys, c) = << >>
    BY <1>4, <2>1, DescendingSeq
  <2> QED
    BY <1>3, <2>2 DEF c
<1>6. Finds(v, r, None, {})
  BY <1>5, KeysAsked
<1> HIDE DEF r
<1>7. r.err = "ok" /\ Keeps(v, r.vm, {})
  BY <1>6 DEF Finds
<1>8. /\ IsSquash(p) /\ p.pc = "exit"
      /\ p.start = q.start /\ p.end = q.end /\ p.out = q.out
      /\ p.big_keys = q.big_keys /\ p.key = q.key /\ p.remaining = q.remaining
  <2> DEFINE pc == "exit"
  <2> HIDE DEF pc
  <2>1. LET t == [q EXCEPT !.pc = pc]
        IN  /\ IsSquash(t) /\ t.pc = pc
            /\ t.start = q.start /\ t.end = q.end /\ t.out = q.out
            /\ t.big_keys = q.big_keys /\ t.key = q.key /\ t.remaining = q.remaining
    BY <1>2, PlaceMoved
  <2> QED
    BY <2>1 DEF pc
<1> HIDE DEF p
<1>9. CallKept(data, p, r.vm, n)
  BY <1>2, <1>7, <1>8, CallStays
<1>10. KeysDone(data, p, n, d)
  BY <1>1, <1>8, DoneStays
<1>11. AfterKey(data, p, r.vm, n, d)
  BY <1>3, <1>7, <1>8 DEF AfterKey, Keeps, keys
<1>12. Working(data, p, r.vm, n, d)
  BY <1>8, <1>10, <1>11 DEF Working, AccessSteps, KeySteps
<1>13. Going(data, p, r.vm, n)
  BY <1>9, <1>12 DEF Going
<1> QED
  BY <1>7, <1>13 DEF KeysLeaves, p, r

\* squash_dict_inner_next_key
NextLeaves(data, q, v, n) ==
  LET r == NextKey(v)
  IN  /\ r.err = "ok"
      /\ IF q.big_keys THEN r.val > q.key ELSE InRange(IntValue(r.val - q.key - 1))
      /\ Going(data, [q EXCEPT !.key = r.val, !.pc = "first"], r.vm, n)

\* squash_dict_inner_next_key.
LEMMA NextGoes ==
  ASSUME NEW data, NEW q, NEW v, NEW n, Going(data, q, v, n), q.pc = "next", Inner(v)
  PROVE  NextLeaves(data, q, v, n)
<1> DEFINE keys == SortedKeys(data, q.start, n)
           K == KeysOf(data, q.start, n)
           r == NextKey(v)
           k == r.val
           p == [q EXCEPT !.key = k, !.pc = "first"]
<1>1. PICK d \in Nat : KeysDone(data, q, n, d) /\ AfterKey(data, q, v, n, d)
  BY DEF Going, Working, KeySteps
<1>2. /\ CallKept(data, q, v, n) /\ IsSquash(q) /\ n \in Nat /\ Readable(data, q.start, n)
      /\ q.big_keys = (keys[Len(keys)] >= RangeCheckBound)
  BY DEF Going, CallKept
<1>3. /\ d \in 1..Len(keys) /\ q.key = keys[d] /\ d < Len(keys)
      /\ Has(v, "keys", Descending(keys, Len(keys) - d))
  BY <1>1 DEF AfterKey
<1>4. /\ keys \in Seq(Nat) /\ Len(keys) \in Nat
      /\ \A x \in 1..Len(keys) : keys[x] \in K /\ keys[x] \in Nat
      /\ \A x \in 2..Len(keys) : keys[x - 1] < keys[x]
      /\ \A l \in K : l <= keys[Len(keys)]
  BY <1>2, KeysKnown
<1> HIDE DEF keys, K
<1>5. /\ d + 1 \in 1..Len(keys) /\ d + 1 \in 2..Len(keys) /\ (d + 1) - 1 = d
      /\ Len(keys) \in 1..Len(keys)
  BY <1>3, <1>4
<1>6. /\ Finds(v, r, keys[d + 1], {"keys", "key"})
      /\ Has(r.vm, "keys", Descending(keys, Len(keys) - (d + 1)))
      /\ Has(r.vm, "key", keys[d + 1])
  <2> DEFINE c == Len(keys) - d
  <2>1. c \in 1..Len(keys) /\ Len(keys) + 1 - c = d + 1 /\ c - 1 = Len(keys) - (d + 1)
    BY <1>3, <1>4
  <2>2. Has(v, "keys", Descending(keys, c))
    BY <1>3
  <2> HIDE DEF c, r
  <2>3. /\ Finds(v, r, keys[Len(keys) + 1 - c], {"keys", "key"})
        /\ Has(r.vm, "keys", Descending(keys, c - 1))
        /\ Has(r.vm, "key", keys[Len(keys) + 1 - c])
    BY <1>4, <2>1, <2>2, KeyFound DEF r
  <2> QED
    BY <2>1, <2>3
<1> HIDE DEF r
<1>7. r.err = "ok" /\ k = keys[d + 1] /\ Keeps(v, r.vm, {"keys", "key"})
  BY <1>6 DEF Finds
<1>8. k \in Nat /\ q.key \in Nat /\ q.key < k /\ k <= keys[Len(keys)] /\ keys[Len(keys)] \in Nat
  BY <1>3, <1>4, <1>5, <1>7
<1> HIDE DEF k
<1>9. IF q.big_keys THEN k > q.key ELSE InRange(IntValue(k - q.key - 1))
  <2>1. CASE q.big_keys
    BY <1>8, <2>1
  <2>2. CASE ~q.big_keys
    <3> DEFINE i == k - q.key - 1
    <3>0. ~(keys[Len(keys)] >= RangeCheckBound)
      BY <1>2, <2>2
    <3>1. i \in Nat /\ i < RangeCheckBound
      BY <1>8, <3>0, BoundAssumption
    <3> HIDE DEF i
    <3>2. InRange(IntValue(i))
      BY <3>1, NumberInRange
    <3> QED
      BY <2>2, <3>2 DEF i
  <2> QED
    BY <2>1, <2>2
<1>10. /\ IsSquash(p) /\ p.pc = "first" /\ p.key = k
       /\ p.start = q.start /\ p.end = q.end /\ p.out = q.out
       /\ p.big_keys = q.big_keys /\ p.remaining = q.remaining
  BY <1>2 DEF IsSquash, Locals
<1> HIDE DEF p
<1>11. CallKept(data, p, r.vm, n)
  <2>1. "access_indices" \notin {"keys", "key"}
    OBVIOUS
  <2> QED
    BY <1>2, <1>7, <1>10, <2>1, CallStays
<1>12. KeysDone(data, p, n, d)
  BY <1>1, <1>10, DoneStays
<1>13. OnKey(data, p, r.vm, n, d)
  BY <1>5, <1>6, <1>7, <1>10 DEF OnKey, keys
<1>14. Working(data, p, r.vm, n, d)
  BY <1>10, <1>12, <1>13 DEF Working, AccessSteps, KeySteps
<1>15. Going(data, p, r.vm, n)
  BY <1>11, <1>14 DEF Going
<1> QED
  BY <1>7, <1>9, <1>15 DEF NextLeaves, p, k, r

\* The accesses of a squash that returns were to be squashed, and are.
LEMMA ExitGoes ==
  ASSUME NEW data, NEW q, NEW v, NEW n, Going(data, q, v, n), q.pc = "exit"
  PROVE  /\ SquashableIn(data, q.start, q.end)
         /\ q.out = SquashedIn(data, q.start, q.end \div DictAccessSize)
<1> DEFINE s == q.start
           keys == SortedKeys(data, s, n)
           K == KeysOf(data, s, n)
           a(k) == IndicesOf(data, s, n, k)
<1>1. PICK d \in Nat : KeysDone(data, q, n, d) /\ AfterKey(data, q, v, n, d)
  BY DEF Going, Working, KeySteps
<1>2. /\ n \in Nat /\ Readable(data, s, n) /\ q.end = DictAccessSize * n
  BY DEF Going, CallKept
<1>3. d = Len(keys)
  BY <1>1 DEF AfterKey
<1>4. /\ q.out = [x \in 1..d |-> Entry(data, s, n, keys[x])]
      /\ \A x \in 1..d : Passed(data, s, a(keys[x]), Len(a(keys[x])))
  BY <1>1 DEF KeysDone
<1>5. q.end \div DictAccessSize = n /\ q.end % DictAccessSize = 0
  BY <1>2 DEF DictAccessSize
<1>6. ASSUME NEW k \in K
      PROVE  Passed(data, s, a(k), Len(a(k)))
  <2>1. PICK x \in 1..Len(keys) : keys[x] = k
    BY <1>2, KeysKnown
  <2> QED
    BY <1>3, <1>4, <2>1
<1>7. ASSUME NEW i \in 0..(n - 1)
      PROVE  Complete(AccessAt(data, s, i))
  <2> DEFINE k == AccessAt(data, s, i).key.num
  <2>1. k \in K /\ i \in AccessesWith(data, s, n, AccessAt(data, s, i).key)
    BY <1>2, LogSorted
  <2>2. AccessAt(data, s, i).key = IntValue(k)
    BY <1>2, IntIs DEF Readable
  <2> HIDE DEF k
  <2>3. Lists(a(k), AccessesWith(data, s, n, IntValue(k)))
    BY <1>2, LogSorted
  <2>4. PICK x \in 1..Len(a(k)) : a(k)[x] = i
    BY <2>1, <2>2, <2>3 DEF Lists
  <2> QED
    BY <1>6, <2>1, <2>4 DEF Passed
<1>8. SquashableIn(data, s, q.end)
  BY <1>5, <1>6, <1>7 DEF SquashableIn, Passed
<1>9. q.out = SquashedIn(data, s, n)
  BY <1>3, <1>4 DEF SquashedIn
<1> QED
  BY <1>5, <1>8, <1>9

-----------------------------------------------------------------------------
(* The call of squash_dict.                                                *)

Begun(s, end, n, guess) ==
  LET begun == [NoSquash EXCEPT !.start = s, !.end = end]
  IN  [begun EXCEPT !.pc = "first", !.big_keys = guess.big_keys, !.key = guess.first_key,
                    !.remaining = n]

\* A squash that has begun.
LEMMA BegunIs ==
  ASSUME NEW s, NEW end, NEW n, NEW guess
  PROVE  LET p == Begun(s, end, n, guess)
         IN  /\ IsSquash(p) /\ p.pc = "first" /\ p.start = s /\ p.end = end
             /\ p.out = << >> /\ p.remaining = n
             /\ p.big_keys = guess.big_keys /\ p.key = guess.first_key
<1> DEFINE begun == [NoSquash EXCEPT !.start = s, !.end = end]
           big == guess.big_keys
           first == guess.first_key
<1>1. /\ IsSquash(begun) /\ begun.start = s /\ begun.end = end /\ begun.out = << >>
  BY DEF IsSquash, Locals, NoSquash
<1> HIDE DEF begun, big, first
<1> DEFINE p == [begun EXCEPT !.pc = "first", !.big_keys = big, !.key = first, !.remaining = n]
<1>2. /\ IsSquash(p) /\ p.pc = "first" /\ p.start = s /\ p.end = end
      /\ p.out = << >> /\ p.remaining = n /\ p.big_keys = big /\ p.key = first
  BY <1>1 DEF IsSquash, Locals
<1> QED
  BY <1>2 DEF Begun, begun, big, first

\* squash_dict
CallLeaves(v, s, end) ==
  LET n    == end \div DictAccessSize
      r    == SquashDict(v, RelocatableValue(s, 0), end, n)
      data == v.memory.data
  IN  IF r.err # "ok" THEN ~SquashableIn(data, s, end)
      ELSE /\ r.val.big_keys \/ InRange(IntValue(r.val.first_key))
           /\ Going(data, Begun(s, end, n, r.val), r.vm, n)

\* A cell that holds an integer.
LEMMA KeyReadable ==
  ASSUME NEW m, MemoryInv(m, Relocatables), NatCells(m), NEW s \in Nat, NEW i \in Nat,
         IsInt(AccessAt(m.data, s, i).key)
  PROVE  AccessAt(m.data, s, i).key \in Ints /\ AccessAt(m.data, s, i).key.num \in Nat
<1> DEFINE b == RelocatableValue(s, DictAccessSize * i + 0)
           c == Cell(m.data, b)
<1>1. b \in Relocatables
  <2>1. DictAccessSize * i + 0 \in Nat
    BY DEF DictAccessSize
  <2> QED
    BY <2>1 DEF RelocatableValue, Relocatables
<1>2. AccessAt(m.data, s, i).key = c
  BY DEF AccessAt
<1>3. c \in Values \union {None}
  BY <1>1, AddressesInside DEF MemoryInv, Memories, Elements
<1> HIDE DEF b
<1>4. c.num \in Nat
  BY <1>1, <1>2 DEF NatCells
<1> HIDE DEF c
<1>5. c \in Ints
  BY <1>2, <1>3 DEF IsInt, Values, Ints, Relocatables
<1> QED
  BY <1>2, <1>4, <1>5

\* squash_dict, the first hint.
LEMMA CallGoes ==
  ASSUME NEW v, Inner(v), MemoryInv(v.memory, Relocatables), NatCells(v.memory),
         NEW s \in Nat, NEW end \in Nat, end # 0, end <= UsizeMax
  PROVE  CallLeaves(v, s, end)
<1> DEFINE n      == end \div DictAccessSize
           data   == v.memory.data
           word(i) == KeyWord(v, RelocatableValue(s, 0), i)
           unread == {i \in 0..(n - 1) : ~IsInt(word(i))}
           map    == AccessIndices(v, RelocatableValue(s, 0), n)
           keys   == SortedKeys(data, s, n)
           K      == KeysOf(data, s, n)
           r      == SquashDict(v, RelocatableValue(s, 0), end, n)
           p      == Begun(s, end, n, r.val)
<1>1. n \in Nat /\ (end % DictAccessSize = 0 => n >= 1 /\ end = DictAccessSize * n)
  BY DEF DictAccessSize
<1>2. /\ \A i \in 0..(n - 1) : word(i) = AccessAt(data, s, i).key
      /\ Readable(data, s, n) => map = IndexMap(data, s, n)
  <2> HIDE DEF n
  <2> QED
    BY <1>1, IndexMapMade
<1>3. CASE end % DictAccessSize # 0
  <2>1. r.err # "ok"
    BY <1>3 DEF SquashDict, Refuse, Answer
  <2>2. ~SquashableIn(data, s, end)
    BY <1>3 DEF SquashableIn
  <2> QED
    BY <2>1, <2>2 DEF CallLeaves
<1>4. CASE end % DictAccessSize = 0 /\ unread # {}
  <2>1. \E err \in {"MemoryGet", "ExpectedInteger"} : r = Refuse(v, err)
    <3> HIDE DEF n
    <3> QED
      BY <1>4 DEF SquashDict
  <2>2. r.err # "ok"
    BY <2>1 DEF Refuse, Answer
  <2>3. PICK i \in 0..(n - 1) : ~IsInt(AccessAt(data, s, i).key)
    BY <1>2, <1>4
  <2>4. ~SquashableIn(data, s, end)
    BY <2>3 DEF SquashableIn, Complete
  <2> QED
    BY <2>2, <2>4 DEF CallLeaves
<1>5. CASE end % DictAccessSize = 0 /\ unread = {}
  <2>1. Readable(data, s, n)
    <3>1. \A i \in 0..(n - 1) : IsInt(AccessAt(data, s, i).key) /\ i \in Nat
      BY <1>2, <1>5
    <3> QED
      BY <3>1, KeyReadable DEF Readable
  <2>2. map = IndexMap(data, s, n) /\ n >= 1 /\ end = DictAccessSize * n /\ n \in Nat
    BY <1>1, <1>2, <1>5, <2>1
  <2> HIDE DEF n
  <2>3. r = FirstGuesses(v, map, Reverse(Ascending(DOMAIN map)))
    BY <1>5 DEF SquashDict
  <2>4. /\ keys \in Seq(Nat) /\ Len(keys) \in Nat
        /\ \A x \in 1..Len(keys) : keys[x] \in K /\ keys[x] \in Nat
        /\ \A k \in K : keys[1] <= k /\ k <= keys[Len(keys)] /\ Len(keys) >= 1
    BY <2>1, <2>2, KeysKnown
  <2>5. K # {}
    <3>1. 0 \in 0..(n - 1)
      BY <2>2
    <3> QED
      BY <3>1 DEF KeysOf
  <2>6. Len(keys) >= 1 /\ 1 \in 1..Len(keys) /\ Len(keys) \in 1..Len(keys)
        /\ keys[1] <= keys[Len(keys)]
    BY <2>4, <2>5
  <2>7. Reverse(Ascending(DOMAIN map)) = Descending(keys, Len(keys))
    <3>1. Ascending(DOMAIN map) = keys
      BY <2>2 DEF IndexMap, SortedKeys
    <3> HIDE DEF keys
    <3> QED
      BY <2>4, <3>1, DescendingAll
  <2> DEFINE guess == [big_keys |-> keys[Len(keys)] >= RangeCheckBound, first_key |-> keys[1]]
             names == {"access_indices", "keys", "key"}
  <2> HIDE DEF map, keys, K, r, p
  <2>8. /\ Finds(v, r, guess, names)
        /\ Has(r.vm, "access_indices", map)
        /\ Has(r.vm, "keys", Descending(keys, Len(keys) - 1))
        /\ Has(r.vm, "key", keys[1])
    <3> DEFINE g == FirstGuesses(v, map, Descending(keys, Len(keys)))
    <3>1. /\ Finds(v, g, guess, names)
          /\ Has(g.vm, "access_indices", map)
          /\ Has(g.vm, "keys", Descending(keys, Len(keys) - 1))
          /\ Has(g.vm, "key", keys[1])
      BY <2>4, <2>6, GuessesFound
    <3>2. r = g
      BY <2>3, <2>7
    <3> HIDE DEF g
    <3> QED
      BY <3>1, <3>2
  <2>9. r.err = "ok" /\ r.val = guess
    BY <2>8 DEF Finds
  <2>10. r.val.big_keys = (keys[Len(keys)] >= RangeCheckBound) /\ r.val.first_key = keys[1]
    BY <2>9
  <2>11. r.val.big_keys \/ InRange(IntValue(r.val.first_key))
    <3> DEFINE k == keys[1]
    <3>1. k \in Nat /\ k <= keys[Len(keys)] /\ keys[Len(keys)] \in Nat
      BY <2>4, <2>6
    <3> HIDE DEF k
    <3>2. ~(keys[Len(keys)] >= RangeCheckBound) => InRange(IntValue(k))
      BY <3>1, BoundAssumption, NumberInRange
    <3>3. ~r.val.big_keys => ~(keys[Len(keys)] >= RangeCheckBound)
      BY <2>10
    <3> QED
      BY <2>10, <3>2, <3>3 DEF k
  <2>12. /\ IsSquash(p) /\ p.pc = "first" /\ p.start = s /\ p.end = end
         /\ p.out = << >> /\ p.remaining = n
         /\ p.big_keys = r.val.big_keys /\ p.key = r.val.first_key
    BY BegunIs DEF p
  <2>13. CallKept(data, p, r.vm, n)
    BY <2>1, <2>2, <2>8, <2>10, <2>12 DEF CallKept, keys
  <2>14. KeysDone(data, p, n, 0)
    <3>1. Left(data, s, n, 0) = 0..(n - 1)
      BY DEF Left
    <3>2. Cardinality(0..(n - 1)) = n
      BY <2>2, FS_Interval
    <3>3. << >> = [x \in 1..0 |-> Entry(data, s, n, keys[x])]
      OBVIOUS
    <3> QED
      BY <2>4, <2>12, <3>1, <3>2, <3>3 DEF KeysDone, keys
  <2>15. OnKey(data, p, r.vm, n, 0)
    <3>1. 0 + 1 = 1
      OBVIOUS
    <3> QED
      BY <2>6, <2>8, <2>10, <2>12, <3>1 DEF OnKey, keys
  <2>16. Working(data, p, r.vm, n, 0)
    BY <2>12, <2>14, <2>15 DEF Working, AccessSteps, KeySteps
  <2>17. Going(data, p, r.vm, n)
    BY <2>13, <2>16 DEF Going
  <2> QED
    BY <2>9, <2>11, <2>17 DEF CallLeaves, p, r, n
<1> QED
  BY <1>3, <1>4, <1>5

-----------------------------------------------------------------------------
(* The logs fit, and their integers are elements of the field.             *)

\* No log holds more than the array and the accesses made.
SizeInv ==
  /\ made <= program.accesses
  /\ \A s \in DOMAIN ptrs : ptrs[s] <= Len(program.array) + DictAccessSize * made
  /\ NatCells(vm.memory)

\* What is assumed of the program of a run.
LEMMA ProgramKnown ==
  ASSUME MapInv
  PROVE  /\ program.array \in Seq(Elements) /\ Len(program.array) \in Nat
         /\ program.accesses \in Nat /\ made \in Nat
         /\ Len(program.array) + DictAccessSize * program.accesses <= UsizeMax
<1>1. program.array \in Seq(Elements)
  BY ProgramsAssumption DEF MapInv, Elements
<1>2. Len(program.array) \in Nat
  BY <1>1, LenProperties
<1> QED
  BY <1>1, <1>2, ProgramsAssumption DEF MapInv

\* The logs fit at the start.
LEMMA SizeInvInit == Init => SizeInv
<1> SUFFICES ASSUME Init
             PROVE  SizeInv
  OBVIOUS
<1> DEFINE a == program.array
<1>1. MapInv
  BY MapInvInit
<1>2. ptrs = [s \in {0} |-> Len(a)] /\ made = 0
  BY DEF Init
<1>3. a \in Seq(Elements) /\ Len(a) \in Nat /\ program.accesses \in Nat
  BY <1>1, ProgramKnown
<1>4. \A i \in 1..Len(a) : IsInt(a[i]) => a[i].num \in Nat
  BY ProgramsAssumption DEF Init
<1>5. vm.memory.data = <<a>>
  <2>1. vm.memory = [EmptyMemory EXCEPT !.data = <<a>>]
    BY DEF Init
  <2> DEFINE b == <<a>>
  <2> HIDE DEF b
  <2>2. vm.memory = [EmptyMemory EXCEPT !.data = b]
    BY <2>1 DEF b
  <2>3. vm.memory.data = b
    BY <2>2 DEF EmptyMemory
  <2> QED
    BY <2>3 DEF b
<1> HIDE DEF a
<1>6. ASSUME NEW b \in Relocatables, IsInt(Cell(<<a>>, b))
      PROVE  Cell(<<a>>, b).num \in Nat
  <2>1. b.seg \in Nat /\ b.off \in Nat
    BY RelocatableFields
  <2>2. ~IsInt(None)
    BY DEF IsInt
  <2>3. Len(<<a>>) = 1 /\ <<a>>[1] = a
    OBVIOUS
  <2>4. b.seg < 1 /\ b.off < Len(<<a>>[b.seg + 1]) /\
        Cell(<<a>>, b) = <<a>>[b.seg + 1][b.off + 1]
    BY <1>6, <2>2, <2>3 DEF Cell
  <2>5. b.seg + 1 = 1
    BY <2>1, <2>4
  <2>6. b.off < Len(a) /\ Cell(<<a>>, b) = a[b.off + 1]
    BY <2>3, <2>4, <2>5
  <2>7. b.off + 1 \in 1..Len(a)
    BY <1>3, <2>1, <2>6
  <2> QED
    BY <1>4, <1>6, <2>6, <2>7
<1>7. NatCells(vm.memory)
  BY <1>5, <1>6 DEF NatCells
<1>8. \A s \in DOMAIN ptrs : ptrs[s] <= Len(a) + DictAccessSize * made
  BY <1>2, <1>3 DEF DictAccessSize
<1> QED
  BY <1>2, <1>3, <1>7, <1>8 DEF SizeInv, a

\* Every step keeps them so.
LEMMA SizeInvNext == MapInv /\ SizeInv /\ [Next]_vars => SizeInv'
<1> SUFFICES ASSUME MapInv, SizeInv, [Next]_vars
             PROVE  SizeInv'
  OBVIOUS
<1>1. /\ Len(program.array) \in Nat /\ program.accesses \in Nat /\ made \in Nat
  BY ProgramKnown
<1>2. ASSUME NEW d, DictionaryAdded(d)
      PROVE  SizeInv'
  <2>1. /\ SameCells(vm, vm') /\ program' = program /\ made' = made
        /\ ptrs' = IF error' = "ok" THEN Put(ptrs, Len(vm.memory.data), 0) ELSE ptrs
    BY <1>2 DEF DictionaryAdded, NewTrackerOutcome
  <2>2. NatCells(vm'.memory)
    BY <2>1 DEF SizeInv, NatCells, SameCells
  <2>3. \A s \in DOMAIN ptrs' : ptrs'[s] <= Len(program.array) + DictAccessSize * made
    <3> DEFINE b == Len(program.array)
    <3>1. b \in Nat /\ \A s \in DOMAIN ptrs : ptrs[s] <= b + DictAccessSize * made
      BY <1>1 DEF SizeInv
    <3> HIDE DEF b
    <3>2. 0 <= b + DictAccessSize * made
      BY <1>1, <3>1 DEF DictAccessSize
    <3>3. \A s \in DOMAIN ptrs' : ptrs'[s] <= b + DictAccessSize * made
      BY <2>1, <3>1, <3>2 DEF Put
    <3> QED
      BY <3>3 DEF b
  <2> QED
    BY <2>1, <2>2, <2>3 DEF SizeInv
<1>3. ASSUME NEW s \in DOMAIN ptrs, NEW k \in Keys, NEW off, NEW value,
             Accessed(s, off, k, value)
      PROVE  SizeInv'
  <2>1. /\ program' = program /\ made' = made + 1 /\ made < program.accesses
        /\ off \in Nat /\ off <= ptrs[s]
        /\ ptrs' = IF error' = "ok"
                   THEN Put(ptrs, s, IF off = ptrs[s] THEN off + DictAccessSize ELSE ptrs[s])
                   ELSE ptrs
        /\ NatCells(vm.memory) => NatCells(vm'.memory)
    BY <1>3 DEF Accessed, AccessDone
  <2>2. NatCells(vm'.memory)
    BY <2>1 DEF SizeInv
  <2> DEFINE b == Len(program.array)
  <2>7. b \in Nat /\ made \in Nat
    BY <1>1
  <2>4. \A t \in DOMAIN ptrs : ptrs[t] \in Nat /\ ptrs[t] <= b + DictAccessSize * made
    BY DEF SizeInv, MapInv
  <2> HIDE DEF b
  <2>3. /\ b + DictAccessSize * (made + 1) = b + DictAccessSize * made + DictAccessSize
        /\ b + DictAccessSize * made \in Nat /\ DictAccessSize \in Nat
    BY <2>7 DEF DictAccessSize
  <2>5. ASSUME NEW t \in DOMAIN ptrs'
        PROVE  ptrs'[t] <= b + DictAccessSize * (made + 1)
    <3>1. \/ t \in DOMAIN ptrs /\ ptrs'[t] = ptrs[t]
          \/ ptrs'[t] = ptrs[s] + DictAccessSize
      BY <2>1 DEF Put
    <3>2. ptrs[s] \in Nat /\ ptrs[s] <= b + DictAccessSize * made
      BY <2>4
    <3> DEFINE c == DictAccessSize * made
    <3> HIDE DEF c
    <3>3. /\ b + DictAccessSize * (made + 1) = b + c + DictAccessSize
          /\ b + c \in Nat /\ ptrs[s] <= b + c
          /\ \A u \in DOMAIN ptrs : ptrs[u] \in Nat /\ ptrs[u] <= b + c
      BY <2>3, <2>4, <3>2 DEF c
    <3>4. CASE t \in DOMAIN ptrs /\ ptrs'[t] = ptrs[t]
      BY <2>3, <3>3, <3>4
    <3>5. CASE ptrs'[t] = ptrs[s] + DictAccessSize
      BY <2>3, <3>2, <3>3, <3>5
    <3> QED
      BY <3>1, <3>4, <3>5
  <2>6. made' <= program.accesses
    BY <1>1, <2>1
  <2> QED
    BY <2>1, <2>2, <2>5, <2>6 DEF SizeInv, b
<1>4. CASE Squashing
  BY <1>4 DEF Squashing, SizeInv
<1>5. CASE UNCHANGED vars
  BY <1>5 DEF vars, SizeInv
<1> QED
  BY <1>2, <1>3, <1>4, <1>5, NextTaken

\* What a program takes for the end of its accesses.
LEMMA EndsKnown ==
  ASSUME MapInv, SizeInv, NEW s \in DOMAIN ptrs, NEW end \in Ends(s)
  PROVE  s \in Nat /\ end \in Nat /\ end <= UsizeMax
<1> DEFINE b == Len(program.array)
           n == program.accesses
           p == ptrs[s]
<1>1. /\ b \in Nat /\ n \in Nat /\ made \in Nat /\ made <= n
      /\ b + DictAccessSize * n <= UsizeMax /\ p <= b + DictAccessSize * made
      /\ p \in Nat /\ s \in Nat
  BY ProgramKnown DEF SizeInv, MapInv
<1>2. end \in {0, p} \union {e \in {p - 1} : e > 0}
  BY DEF Ends
<1> HIDE DEF b, n, p
<1>3. p <= UsizeMax
  BY <1>1, FieldAssumption DEF DictAccessSize
<1>4. end \in Nat /\ end <= p
  BY <1>1, <1>2
<1> QED
  BY <1>1, <1>3, <1>4, FieldAssumption

-----------------------------------------------------------------------------
(* A squash, from its call to its return.                                  *)

\* It has returned what was to be squashed, squashed.
Returned(data, q) ==
  /\ SquashableIn(data, q.start, q.end)
  /\ q.out = SquashedIn(data, q.start, q.end \div DictAccessSize)

\* A squash that runs is going; one that failed had accesses that have no squashed
\* dictionary; one that returned has returned it.
SquashInv ==
  /\ squash.start # None => squash.start \in Nat /\ squash.end \in Nat
  /\ squash.pc # Done =>
       IF error = "ok"
       THEN Going(vm.memory.data, squash, vm, squash.end \div DictAccessSize)
       ELSE ~SquashableIn(vm.memory.data, squash.start, squash.end)
  /\ error = "ok" /\ squash.pc = Done /\ squash.start # None =>
       Returned(vm.memory.data, squash)

\* The accesses that were squashed do not change.
LEMMA ReturnedStays ==
  ASSUME NEW m, MemoryInv(m, Relocatables), NatCells(m), NEW g,
         NEW q, q.start \in Nat, q.end \in Nat, Returned(m.data, q),
         \A b \in Relocatables : Cell(m.data, b) # None => Cell(g.data, b) = Cell(m.data, b)
  PROVE  Returned(g.data, q)
<1> DEFINE s == q.start
           n == q.end \div DictAccessSize
<1>1. n \in Nat
  BY DEF DictAccessSize
<1>2. SquashableIn(m.data, s, q.end) /\ q.out = SquashedIn(m.data, s, n)
  BY DEF Returned
<1>3. \A i \in 0..(n - 1) : Complete(AccessAt(m.data, s, i))
  BY <1>2 DEF SquashableIn
<1> HIDE DEF n
<1>4. ASSUME NEW i \in 0..(n - 1)
      PROVE  AccessAt(g.data, s, i) = AccessAt(m.data, s, i)
  <2> DEFINE c(j) == Cell(m.data, RelocatableValue(s, DictAccessSize * i + j))
  <2>1. /\ AccessAt(m.data, s, i).key = c(0)
        /\ AccessAt(m.data, s, i).prev_value = c(1)
        /\ AccessAt(m.data, s, i).new_value = c(2)
    BY DEF AccessAt
  <2>2. \A j \in 0..2 : RelocatableValue(s, DictAccessSize * i + j) \in Relocatables
    <3>1. \A j \in 0..2 : DictAccessSize * i + j \in Nat
      BY <1>1 DEF DictAccessSize
    <3> QED
      BY <3>1 DEF RelocatableValue, Relocatables
  <2>3. IsInt(c(0)) /\ IsInt(c(1)) /\ IsInt(c(2))
    <3> HIDE DEF c
    <3> QED
      BY <1>3, <2>1 DEF Complete
  <2>4. 0 \in 0..2 /\ 1 \in 0..2 /\ 2 \in 0..2
    OBVIOUS
  <2>5. \A j \in 0..2 : IsInt(c(j)) =>
          Cell(g.data, RelocatableValue(s, DictAccessSize * i + j)) = c(j)
    BY <2>2 DEF IsInt
  <2>6. /\ Cell(g.data, RelocatableValue(s, DictAccessSize * i + 0)) = c(0)
        /\ Cell(g.data, RelocatableValue(s, DictAccessSize * i + 1)) = c(1)
        /\ Cell(g.data, RelocatableValue(s, DictAccessSize * i + 2)) = c(2)
    BY <2>3, <2>4, <2>5
  <2> QED
    BY <2>6 DEF AccessAt
<1>5. KeysOf(g.data, s, n) = KeysOf(m.data, s, n)
  BY <1>4 DEF KeysOf
<1>6. \A k : AccessesWith(g.data, s, n, IntValue(k)) = AccessesWith(m.data, s, n, IntValue(k))
  BY <1>4 DEF AccessesWith
<1>7. \A k : IndicesOf(g.data, s, n, k) = IndicesOf(m.data, s, n, k)
  BY <1>6 DEF IndicesOf
<1>8. Readable(m.data, s, n)
  <2>1. \A i \in 0..(n - 1) : i \in Nat /\ IsInt(AccessAt(m.data, s, i).key)
    BY <1>3 DEF Complete
  <2> QED
    BY <2>1, KeyReadable DEF Readable
<1>9. ASSUME NEW k \in KeysOf(m.data, s, n)
      PROVE  LET a == IndicesOf(m.data, s, n, k)
             IN  /\ Len(a) \in Nat /\ Len(a) >= 1
                 /\ \A x \in 1..Len(a) : AccessAt(g.data, s, a[x]) = AccessAt(m.data, s, a[x])
  <2>1. KeyFacts(m.data, s, n, k)
    BY <1>1, <1>8, KeyKnown
  <2> QED
    BY <1>4, <2>1 DEF KeyFacts
<1>10. SquashableIn(g.data, s, q.end)
  <2>1. /\ q.end % DictAccessSize = 0
        /\ \A k \in KeysOf(m.data, s, n) :
             LET a == IndicesOf(m.data, s, n, k)
             IN  \A x \in 2..Len(a) : AccessAt(m.data, s, a[x]).prev_value =
                                       AccessAt(m.data, s, a[x - 1]).new_value
    BY <1>2 DEF SquashableIn, n
  <2>2. ASSUME NEW k \in KeysOf(m.data, s, n), NEW x \in 2..Len(IndicesOf(m.data, s, n, k))
        PROVE  LET a == IndicesOf(m.data, s, n, k)
               IN  AccessAt(g.data, s, a[x]).prev_value = AccessAt(g.data, s, a[x - 1]).new_value
    <3> DEFINE a == IndicesOf(m.data, s, n, k)
    <3>1. Len(a) \in Nat /\ \A y \in 1..Len(a) : AccessAt(g.data, s, a[y]) = AccessAt(m.data, s, a[y])
      BY <1>9
    <3>2. x \in 1..Len(a) /\ x - 1 \in 1..Len(a)
      BY <3>1
    <3>3. AccessAt(m.data, s, a[x]).prev_value = AccessAt(m.data, s, a[x - 1]).new_value
      BY <2>1
    <3> HIDE DEF a
    <3>4. AccessAt(g.data, s, a[x]).prev_value = AccessAt(g.data, s, a[x - 1]).new_value
      BY <3>1, <3>2, <3>3
    <3> QED
      BY <3>4 DEF a
  <2>3. \A i \in 0..(n - 1) : Complete(AccessAt(g.data, s, i))
    BY <1>3, <1>4
  <2> QED
    BY <1>5, <1>7, <2>1, <2>2, <2>3 DEF SquashableIn, n
<1>11. SquashedIn(g.data, s, n) = SquashedIn(m.data, s, n)
  <2> DEFINE keys == SortedKeys(m.data, s, n)
  <2>1. SortedKeys(g.data, s, n) = keys
    BY <1>5 DEF SortedKeys
  <2>2. \A j \in 1..Len(keys) : keys[j] \in KeysOf(m.data, s, n)
    BY <1>1, <1>8, KeysKnown
  <2> HIDE DEF keys
  <2>3. ASSUME NEW j \in 1..Len(keys)
        PROVE  Entry(g.data, s, n, keys[j]) = Entry(m.data, s, n, keys[j])
    <3> DEFINE k == keys[j]
               a == IndicesOf(m.data, s, n, k)
    <3>1. /\ Len(a) \in Nat /\ Len(a) >= 1
          /\ \A x \in 1..Len(a) : AccessAt(g.data, s, a[x]) = AccessAt(m.data, s, a[x])
      BY <1>9, <2>2
    <3>2. IndicesOf(g.data, s, n, k) = a
      BY <1>7
    <3> HIDE DEF a, k
    <3>3. 1 \in 1..Len(a) /\ Len(a) \in 1..Len(a)
      BY <3>1
    <3>4. /\ AccessAt(g.data, s, a[1]) = AccessAt(m.data, s, a[1])
          /\ AccessAt(g.data, s, Last(a)) = AccessAt(m.data, s, Last(a))
      BY <3>1, <3>3 DEF Last
    <3>5. Entry(g.data, s, n, k) = Entry(m.data, s, n, k)
      BY <3>2, <3>4 DEF Entry, a
    <3> QED
      BY <3>5 DEF k
  <2> QED
    BY <2>1, <2>3 DEF SquashedIn, keys
<1> QED
  BY <1>2, <1>10, <1>11 DEF Returned, n

\* A hint of squash_dict_inner that goes on, or fails.
LEMMA SquashLeaves ==
  ASSUME MapInv, SquashInv, error = "ok", squash.pc # Done, Squashing, NEW n,
         \/ error' = "ok" /\ Going(vm.memory.data, squash', vm', n)
         \/ /\ error' # "ok" /\ squash' = squash
            /\ ~SquashableIn(vm.memory.data, squash.start, squash.end)
  PROVE  SquashInv'
<1>1. vm'.memory.data = vm.memory.data
  BY DEF Squashing
<1>2. CASE error' = "ok" /\ Going(vm.memory.data, squash', vm', n)
  <2> DEFINE q == squash'
  <2>1. /\ q.start \in Nat /\ n \in Nat /\ q.end = DictAccessSize * n
        /\ q.pc \in {"first"} \union AccessSteps \union KeySteps
    BY <1>2 DEF Going, CallKept, Working
  <2>2. q.end \in Nat /\ q.end \div DictAccessSize = n
    BY <2>1 DEF DictAccessSize
  <2>3. q.pc # Done
    BY <2>1 DEF AccessSteps, KeySteps, Done
  <2> QED
    BY <1>1, <1>2, <2>1, <2>2, <2>3 DEF SquashInv
<1>3. CASE /\ error' # "ok" /\ squash' = squash
           /\ ~SquashableIn(vm.memory.data, squash.start, squash.end)
  BY <1>1, <1>3 DEF SquashInv
<1> QED
  BY <1>2, <1>3

\* The hints of squash_dict_inner.
LEMMA SquashInnerGoes ==
  ASSUME MapInv, SquashInv, SquashStep
  PROVE  SquashInv'
<1> DEFINE data == vm.memory.data
           n == squash.end \div DictAccessSize
           Fails == /\ error' # "ok" /\ squash' = squash
                    /\ ~SquashableIn(data, squash.start, squash.end)
           Goes == error' = "ok" /\ Going(data, squash', vm', n)
<1>1. error = "ok" /\ squash.pc # Done
  BY DEF SquashStep, SquashFirst, SquashSkip, SquashCheck, SquashContinue, SquashLen, SquashUsed,
         SquashKeys, SquashNext, SquashExit, At, Done
<1>2. Inner(vm)
  BY <1>1 DEF MapInv, Sound, Record, Inner
<1>3. Squashing
  BY SquashInnerTaken
<1>4. Going(data, squash, vm, n)
  BY <1>1 DEF SquashInv
<1>5. ASSUME Goes \/ Fails
      PROVE  SquashInv'
  BY <1>1, <1>3, <1>5, SquashLeaves
<1>6. CASE SquashFirst
  <2>1. squash.pc = "first"
    BY <1>6 DEF SquashFirst, At
  <2>2. FirstLeaves(data, squash, vm, n)
    BY <1>2, <1>4, <2>1, FirstGoes
  <2> DEFINE r == FirstIteration(vm)
             at == AccessAt(data, squash.start, r.val)
             p == [squash EXCEPT !.index = r.val, !.used = 1, !.pc = "skip",
                                 !.first_value = at.prev_value, !.value = at.new_value]
             asserted == Complete(at) /\ at.key = IntValue(squash.key)
             x == [r EXCEPT !.err = IF @ = "ok" THEN RuleError(IntValue(r.val)) ELSE @]
  <2>3. /\ r.err = "ok" /\ r.val \in 0..(n - 1)
        /\ IF asserted THEN Going(data, p, r.vm, n) ELSE ~SquashableIn(data, squash.start, squash.end)
    BY <2>2 DEF FirstLeaves
  <2>4. Squashes(x, asserted, p)
    BY <1>6 DEF SquashFirst, IsAccess, Found
  <2>5. RuleError(IntValue(r.val)) = "ok"
    <3>1. n \in Nat /\ squash.end = DictAccessSize * n /\ squash.end <= UsizeMax
      BY <1>4 DEF Going, CallKept
    <3> DEFINE i == r.val
    <3>2. i \in 0..(n - 1)
      BY <2>3
    <3> HIDE DEF i, n
    <3>3. i \in Nat /\ i < RangeCheckBound
      BY <3>1, <3>2, FieldAssumption, BoundAssumption, ProgramsAssumption DEF DictAccessSize
    <3>4. RuleError(IntValue(i)) = "ok"
      BY <3>3, NumberInRange
    <3> QED
      BY <3>4 DEF i
  <2> DEFINE e == RuleError(IntValue(r.val))
  <2>6. x.err = "ok" /\ x.vm = r.vm
    <3>1. r = [vm |-> r.vm, err |-> r.err, val |-> r.val]
      BY DEF FirstIteration, WithVariables, FirstAccess, Refuse, Answer
    <3> HIDE DEF r, e
    <3>2. x = [r EXCEPT !.err = IF @ = "ok" THEN e ELSE @]
      BY DEF e
    <3>3. e = "ok"
      BY <2>5 DEF e
    <3> QED
      BY <2>3, <3>1, <3>2, <3>3
  <2> HIDE DEF r, p, x, asserted
  <2>7. /\ vm' = x.vm
        /\ error' = (IF x.err # "ok" THEN x.err ELSE IF asserted THEN "ok" ELSE "AssertFailed")
        /\ squash' = (IF x.err = "ok" /\ asserted THEN p ELSE squash)
    BY <2>4 DEF Squashes
  <2>8. Goes \/ Fails
    BY <2>3, <2>6, <2>7
  <2> QED
    BY <1>5, <2>8
<1>7. CASE SquashSkip
  <2>1. squash.pc = "skip"
    BY <1>7 DEF SquashSkip, At
  <2>2. SkipLeaves(data, squash, vm, n)
    BY <1>2, <1>4, <2>1, SkipGoes
  <2> DEFINE r == SkipLoop(vm)
             p == [squash EXCEPT !.pc = IF r.val = 1 THEN "len" ELSE "check"]
  <2>3. r.err = "ok" /\ Going(data, p, r.vm, n)
    BY <2>2 DEF SkipLeaves
  <2>4. Squashes(r, TRUE, p)
    BY <1>7 DEF SquashSkip
  <2> HIDE DEF r, p
  <2>5. vm' = r.vm /\ error' = "ok" /\ squash' = p
    BY <2>3, <2>4 DEF Squashes
  <2> QED
    BY <1>5, <2>3, <2>5
<1>8. CASE SquashContinue
  <2>1. squash.pc = "continue"
    BY <1>8 DEF SquashContinue, At
  <2>2. ContinueLeaves(data, squash, vm, n)
    BY <1>2, <1>4, <2>1, ContinueGoes
  <2> DEFINE r == ContinueLoop(vm)
             p == [squash EXCEPT !.pc = IF r.val = 1 THEN "check" ELSE "len"]
  <2>3. r.err = "ok" /\ Going(data, p, r.vm, n)
    BY <2>2 DEF ContinueLeaves
  <2>4. Squashes(r, TRUE, p)
    BY <1>8 DEF SquashContinue
  <2> HIDE DEF r, p
  <2>5. vm' = r.vm /\ error' = "ok" /\ squash' = p
    BY <2>3, <2>4 DEF Squashes
  <2> QED
    BY <1>5, <2>3, <2>5
<1>9. CASE SquashLen
  <2>1. squash.pc = "len"
    BY <1>9 DEF SquashLen, At
  <2>2. LenLeaves(data, squash, vm, n)
    BY <1>2, <1>4, <2>1, LenGoes
  <2> DEFINE r == LenAssert(vm)
             p == [squash EXCEPT !.pc = "used"]
             asserted == InRange(IntValue(squash.end - 1 - DictAccessSize * squash.index))
  <2>3. r.err = "ok" /\ asserted /\ Going(data, p, r.vm, n)
    BY <2>2 DEF LenLeaves
  <2>4. Squashes(r, asserted, p)
    BY <1>9 DEF SquashLen
  <2> HIDE DEF r, p, asserted
  <2>5. vm' = r.vm /\ error' = "ok" /\ squash' = p
    BY <2>3, <2>4 DEF Squashes
  <2> QED
    BY <1>5, <2>3, <2>5
<1>10. CASE SquashCheck
  <2>1. squash.pc = "check"
    BY <1>10 DEF SquashCheck, At
  <2>2. CheckLeaves(data, squash, vm, n)
    BY <1>2, <1>4, <2>1, CheckGoes
  <2> DEFINE r == CheckAccessIndex(vm)
             i == squash.index + r.val + 1
             at == AccessAt(data, squash.start, i)
             p == [squash EXCEPT !.index = i, !.used = @ + 1, !.value = at.new_value,
                                 !.pc = "continue"]
             exact == Complete(at) /\ at.key = IntValue(squash.key) /\ at.prev_value = squash.value
             asserted == InRange(IntValue(r.val)) /\ IsAccess(i) /\ Found(i).prev_value = squash.value
  <2>3. /\ r.err = "ok" /\ InRange(IntValue(r.val))
        /\ IF exact THEN Going(data, p, r.vm, n) ELSE ~SquashableIn(data, squash.start, squash.end)
    BY <2>2 DEF CheckLeaves
  <2>4. Squashes(r, asserted, p)
    BY <1>10 DEF SquashCheck, Found
  <2>5. asserted <=> exact
    BY <2>3 DEF IsAccess, Found
  <2> HIDE DEF r, p, asserted, exact
  <2>6. /\ vm' = r.vm
        /\ error' = (IF r.err # "ok" THEN r.err ELSE IF asserted THEN "ok" ELSE "AssertFailed")
        /\ squash' = (IF r.err = "ok" /\ asserted THEN p ELSE squash)
    BY <2>4 DEF Squashes
  <2>7. Goes \/ Fails
    BY <2>3, <2>5, <2>6
  <2> QED
    BY <1>5, <2>7
<1>11. CASE SquashUsed
  <2>1. squash.pc = "used"
    BY <1>11 DEF SquashUsed, At
  <2>2. UsedLeaves(data, squash, vm, n)
    BY <1>2, <1>4, <2>1, UsedGoes
  <2> DEFINE r == UsedAccessesAssert(vm, squash.used)
             p == UsedNext(squash)
  <2>3. r.err = "ok" /\ Going(data, p, r.vm, n)
    BY <2>2 DEF UsedLeaves
  <2>4. Squashes(r, TRUE, p)
    BY <1>11 DEF SquashUsed, UsedNext
  <2> HIDE DEF r, p
  <2>5. vm' = r.vm /\ error' = "ok" /\ squash' = p
    BY <2>3, <2>4 DEF Squashes
  <2> QED
    BY <1>5, <2>3, <2>5
<1>12. CASE SquashKeys
  <2>1. squash.pc = "keys"
    BY <1>12 DEF SquashKeys, At
  <2>2. KeysLeaves(data, squash, vm, n)
    BY <1>2, <1>4, <2>1, KeysGoes
  <2> DEFINE r == AssertLenKeys(vm)
             p == [squash EXCEPT !.pc = "exit"]
  <2>3. r.err = "ok" /\ Going(data, p, r.vm, n)
    BY <2>2 DEF KeysLeaves
  <2>4. Squashes(r, TRUE, p)
    BY <1>12 DEF SquashKeys
  <2> HIDE DEF r, p
  <2>5. vm' = r.vm /\ error' = "ok" /\ squash' = p
    BY <2>3, <2>4 DEF Squashes
  <2> QED
    BY <1>5, <2>3, <2>5
<1>13. CASE SquashNext
  <2>1. squash.pc = "next"
    BY <1>13 DEF SquashNext, At
  <2>2. NextLeaves(data, squash, vm, n)
    BY <1>2, <1>4, <2>1, NextGoes
  <2> DEFINE r == NextKey(vm)
             p == [squash EXCEPT !.key = r.val, !.pc = "first"]
             asserted == IF squash.big_keys THEN r.val > squash.key
                                            ELSE InRange(IntValue(r.val - squash.key - 1))
  <2>3. r.err = "ok" /\ asserted /\ Going(data, p, r.vm, n)
    BY <2>2 DEF NextLeaves
  <2>4. Squashes(r, asserted, p)
    BY <1>13 DEF SquashNext
  <2> HIDE DEF r, p, asserted
  <2>5. vm' = r.vm /\ error' = "ok" /\ squash' = p
    BY <2>3, <2>4 DEF Squashes
  <2> QED
    BY <1>5, <2>3, <2>5
<1>14. CASE SquashExit
  <2>1. squash.pc = "exit"
    BY <1>14 DEF SquashExit, At
  <2> DEFINE r == ExitScope(vm)
             p == [NoSquash EXCEPT !.start = squash.start, !.out = squash.out, !.end = squash.end]
  <2>2. r.err = "ok"
    BY <1>2, ExitStep DEF Inner
  <2>3. squash' = (IF r.err = "ok" THEN p ELSE squash)
    BY <1>14 DEF SquashExit, Squashes
  <2>4. p.pc = Done /\ p.start = squash.start /\ p.out = squash.out /\ p.end = squash.end
    BY DEF NoSquash
  <2> HIDE DEF r, p
  <2>5. /\ squash'.pc = Done /\ squash'.start = squash.start /\ squash'.out = squash.out
        /\ squash'.end = squash.end
    BY <2>2, <2>3, <2>4
  <2>6. Returned(data, squash)
    BY <1>4, <2>1, ExitGoes DEF Returned
  <2>7. Returned(data, squash')
    BY <2>5, <2>6 DEF Returned
  <2>8. vm'.memory.data = data
    BY <1>3 DEF Squashing
  <2> QED
    BY <2>5, <2>7, <2>8 DEF SquashInv
<1> QED
  BY <1>6, <1>7, <1>8, <1>9, <1>10, <1>11, <1>12, <1>13, <1>14 DEF SquashStep

\* No accesses are squashed to none.
LEMMA NoneReturned ==
  ASSUME NEW data, NEW q, q.start \in Nat, q.end = 0, q.out = << >>
  PROVE  Returned(data, q)
<1> DEFINE s == q.start
           keys == SortedKeys(data, s, 0)
<1>1. 0 \div DictAccessSize = 0 /\ 0 % DictAccessSize = 0 /\ 0..(0 - 1) = {}
  BY DEF DictAccessSize
<1>2. KeysOf(data, s, 0) = {} /\ Readable(data, s, 0)
  BY <1>1 DEF KeysOf, Readable
<1>3. SquashableIn(data, s, 0)
  BY <1>1, <1>2 DEF SquashableIn
<1>4. keys = << >>
  <2>1. Lists(keys, KeysOf(data, s, 0))
    BY <1>2, LogSorted
  <2> QED
    BY <1>2, <2>1 DEF Lists, Sorts
<1>5. SquashedIn(data, s, 0) = << >>
  <2>1. Len(keys) = 0
    BY <1>4
  <2> HIDE DEF keys
  <2>2. 1..Len(keys) = {}
    BY <2>1
  <2>3. SquashedIn(data, s, 0) = [j \in 1..Len(keys) |-> Entry(data, s, 0, keys[j])]
    BY DEF SquashedIn, keys
  <2>4. SquashedIn(data, s, 0) = [j \in {} |-> Entry(data, s, 0, keys[j])]
    BY <2>2, <2>3
  <2> QED
    BY <2>4
<1> QED
  BY <1>1, <1>3, <1>5 DEF Returned

\* The call of squash_dict.
LEMMA CallSquashGoes ==
  ASSUME MapInv, SizeInv, NEW s \in DOMAIN ptrs, NEW end \in Ends(s), CallSquash(s, end)
  PROVE  SquashInv'
<1> DEFINE entered == EnterScope(vm)
           n       == end \div DictAccessSize
           r       == IF end = 0 THEN ExitScope(entered)
                      ELSE SquashDict(entered, RelocatableValue(s, 0), end, n)
           begun   == [NoSquash EXCEPT !.start = s, !.end = end]
           done    == [begun EXCEPT !.pc = IF end = 0 THEN Done ELSE "first"]
           going   == Begun(s, end, n, r.val)
           data    == vm.memory.data
<1>1. /\ error = "ok" /\ squash.pc = Done
      /\ vm' = r.vm
      /\ r.err # "ok" \/ end = 0 => error' = r.err /\ squash' = done
      /\ ~(r.err # "ok" \/ end = 0) =>
           /\ error' = (IF r.val.big_keys \/ InRange(IntValue(r.val.first_key))
                        THEN "ok" ELSE "NumOutOfBounds")
           /\ squash' = going
  BY DEF CallSquash, Begun
<1>2. s \in Nat /\ end \in Nat /\ end <= UsizeMax
  BY EndsKnown
<1>3. Record(vm) /\ OneScope(vm)
  BY <1>1 DEF MapInv, Sound, Record
<1>4. InnerStep(vm, entered)
  BY <1>3, EnterStep
<1>5. Inner(entered) /\ entered.memory = vm.memory
  <2>1. /\ entered = [memory |-> vm.memory, trackers |-> vm.trackers, scopes |-> entered.scopes]
        /\ TwoScopes(entered)
    BY <1>4 DEF InnerStep
  <2> HIDE DEF entered
  <2>2. entered.memory = vm.memory /\ entered.trackers = vm.trackers
    BY <2>1
  <2> QED
    BY <2>1, <2>2 DEF Inner, Record
<1>6. vm'.memory.data = data
  <2>1. Squashing
    BY CallSquashTaken
  <2> QED
    BY <2>1 DEF Squashing
<1>7. /\ done.start = s /\ done.end = end /\ done.out = << >>
      /\ done.pc = IF end = 0 THEN Done ELSE "first"
  <2>1. IsSquash(begun) /\ begun.start = s /\ begun.end = end /\ begun.out = << >>
    BY DEF IsSquash, Locals, NoSquash
  <2> HIDE DEF begun
  <2> QED
    BY <2>1 DEF IsSquash, Locals
<1> HIDE DEF entered, done
<1>8. CASE end = 0
  <2>1. squash' = done
    BY <1>1, <1>8
  <2>2. Returned(data, squash')
    BY <1>2, <1>7, <1>8, <2>1, NoneReturned
  <2> QED
    BY <1>2, <1>6, <1>7, <1>8, <2>1, <2>2 DEF SquashInv
<1>9. CASE end # 0
  <2>1. r = SquashDict(entered, RelocatableValue(s, 0), end, n)
    BY <1>9
  <2>2. CallLeaves(entered, s, end)
    <3>1. MemoryInv(entered.memory, Relocatables) /\ NatCells(entered.memory)
      BY <1>5 DEF MapInv, Sound, SizeInv
    <3> QED
      BY <1>2, <1>5, <1>9, <3>1, CallGoes
  <2> HIDE DEF r
  <2>3. IF r.err # "ok" THEN ~SquashableIn(data, s, end)
        ELSE /\ r.val.big_keys \/ InRange(IntValue(r.val.first_key))
             /\ Going(data, going, r.vm, n)
    BY <1>5, <2>1, <2>2 DEF CallLeaves
  <2> HIDE DEF going
  <2>4. CASE r.err # "ok"
    <3>1. error' # "ok" /\ squash' = done
      BY <1>1, <2>4
    <3>2. squash'.start = s /\ squash'.end = end /\ squash'.pc # Done
      BY <1>7, <1>9, <3>1 DEF Done
    <3> QED
      BY <1>2, <1>6, <2>3, <2>4, <3>1, <3>2 DEF SquashInv
  <2>5. CASE r.err = "ok"
    <3>1. error' = "ok" /\ squash' = going
      BY <1>1, <1>9, <2>3, <2>5
    <3>2. Going(data, squash', vm', n)
      BY <1>1, <2>3, <2>5, <3>1
    <3>3. squash'.start = s /\ squash'.end = end /\ squash'.pc # Done
      <4>1. squash'.pc = "first" /\ squash'.start = s /\ squash'.end = end
        BY <3>1, BegunIs DEF going
      <4> QED
        BY <4>1 DEF Done
    <3> QED
      BY <1>2, <1>6, <3>1, <3>2, <3>3 DEF SquashInv
  <2> QED
    BY <2>4, <2>5
<1> QED
  BY <1>8, <1>9

\* No squash has begun at the start.
LEMMA SquashInvInit == Init => SquashInv
<1> SUFFICES ASSUME Init
             PROVE  SquashInv
  OBVIOUS
<1>1. squash.pc = Done /\ squash.start = None
  BY DEF Init, NoSquash
<1> QED
  BY <1>1 DEF SquashInv

\* Every step keeps the invariant of the squash.
LEMMA SquashInvNext == MapInv /\ SizeInv /\ SquashInv /\ [Next]_vars => SquashInv'
<1> SUFFICES ASSUME MapInv, SizeInv, SquashInv, [Next]_vars
             PROVE  SquashInv'
  OBVIOUS
<1>1. ASSUME squash' = squash, squash.pc = Done, error = "ok",
             \A b \in Relocatables : Cell(vm.memory.data, b) # None =>
               Cell(vm'.memory.data, b) = Cell(vm.memory.data, b)
      PROVE  SquashInv'
  <2>1. squash.start # None => /\ squash.start \in Nat /\ squash.end \in Nat
                               /\ Returned(vm.memory.data, squash)
    BY <1>1 DEF SquashInv
  <2>2. MemoryInv(vm.memory, Relocatables) /\ NatCells(vm.memory)
    BY DEF MapInv, Sound, SizeInv
  <2>3. squash.start # None => Returned(vm'.memory.data, squash)
    BY <1>1, <2>1, <2>2, ReturnedStays
  <2> QED
    BY <1>1, <2>1, <2>3 DEF SquashInv
<1>2. ASSUME NEW d, DictionaryAdded(d)
      PROVE  SquashInv'
  BY <1>1, <1>2 DEF DictionaryAdded, NewTrackerOutcome, SameCells
<1>3. ASSUME NEW s \in DOMAIN ptrs, NEW k \in Keys, NEW off, NEW value,
             Accessed(s, off, k, value)
      PROVE  SquashInv'
  BY <1>1, <1>3 DEF Accessed, AccessDone, Grows
<1>4. CASE \E s \in DOMAIN ptrs : \E end \in Ends(s) : CallSquash(s, end)
  BY <1>4, CallSquashGoes
<1>5. CASE SquashStep
  BY <1>5, SquashInnerGoes
<1>6. CASE UNCHANGED vars
  BY <1>6 DEF vars, SquashInv
<1>7. CASE NewDict \/ \E v \in Vals : NewDefaultDict(IntValue(v))
  BY <1>2, <1>7, DictionaryTaken
<1>8. CASE \E s \in DOMAIN ptrs, k \in Keys : \E ptr \in Pointers(s) :
             \/ Read(IntValue(k), ptr)
             \/ \E v \in Vals : Write(IntValue(k), IntValue(v), ptr)
             \/ \E v, w \in Vals : Update(IntValue(k), IntValue(v), IntValue(w), ptr)
  BY <1>3, <1>8, AccessTaken
<1> QED
  BY <1>4, <1>5, <1>6, <1>7, <1>8 DEF Next

\* A call of squash_dict passes exactly when its accesses have a squashed
\* dictionary, and then its output is that dictionary.  (SquashHints,
\* Dictionaries!SquashStep)
THEOREM DictionarySquashExact == Spec => []SquashExact
<1>1. MapInv /\ SizeInv /\ SquashInv => SquashExact
  <2> SUFFICES ASSUME MapInv, SquashInv
               PROVE  SquashExact
    OBVIOUS
  <2> DEFINE s == squash.start
             e == squash.end
             data == vm.memory.data
  <2>1. /\ Squashable(s, e) <=> SquashableIn(data, s, e)
        /\ Squashed(s, e \div DictAccessSize) = SquashedIn(data, s, e \div DictAccessSize)
    BY SquashableData
  <2>2. ASSUME error = "ok", squash.pc = Done, s # None
        PROVE  /\ Squashable(s, e)
               /\ squash.out = Squashed(s, e \div DictAccessSize)
    BY <2>1, <2>2 DEF SquashInv, Returned
  <2>3. ASSUME error # "ok", squash.pc # Done
        PROVE  ~Squashable(s, e)
    BY <2>1, <2>3 DEF SquashInv
  <2> QED
    BY <2>2, <2>3 DEF SquashExact
<1>2. Init => MapInv /\ SizeInv /\ SquashInv
  BY MapInvInit, SizeInvInit, SquashInvInit
<1>3. (MapInv /\ SizeInv /\ SquashInv) /\ [Next]_vars => (MapInv /\ SizeInv /\ SquashInv)'
  BY MapInvNext, SizeInvNext, SquashInvNext
<1> QED
  BY <1>1, <1>2, <1>3, PTL DEF Spec
=============================================================================
