------------------------------ MODULE DictHints ------------------------------
(***************************************************************************)
(* The dictionary hints (vm/hints/dict_hint_utils.rs), the DictManager     *)
(* they use (dict_manager.rs) and the execution scopes                     *)
(* (types/exec_scope.rs), as operators on the fields of the vm they touch: *)
(*   memory    a memory of MemoryCells;                                    *)
(*   trackers  DictManager::trackers, a function from segments;            *)
(*   scopes    ExecutionScopes::data: the functions from the names of the  *)
(*             variables to their values, the current scope last.          *)
(* The values of a hint's ids variables are arguments; what a hint leaves  *)
(* in a variable of its own frame, whose cell is new, is its answer.       *)
(***************************************************************************)
EXTENDS MemoryCells, SequencesExt

DictAccessSize == 3  \* DICT_ACCESS_SIZE: key, prev_value, new_value.

\* The numbers of a set in ascending order.
Ascending(S) == [i \in 1..Cardinality(S) |->
                   CHOOSE n \in S : Cardinality({m \in S : m < n}) = i - 1]

\* A map in which x is mapped to v, whether it was mapped before or not.
Put(f, x, v) == [y \in DOMAIN f \union {x} |-> IF y = x THEN v ELSE f[y]]

\* The vm a hint leaves, its error, and its answer.
Answer(vm, err, val) == [vm |-> vm, err |-> err, val |-> val]
Refuse(vm, err)      == Answer(vm, err, None)

-----------------------------------------------------------------------------
(* Execution scopes.                                                       *)

EnterScope(vm) == [vm EXCEPT !.scopes = Append(@, << >>)]

\* Fault: the variables of the scope are left to the one around it.
ExitScopeMerges(vm) ==
  LET n == Len(vm.scopes)
  IN  IF n = 1 THEN Refuse(vm, "ExitMainScopeError")
      ELSE Answer([vm EXCEPT !.scopes = Append(SubSeq(@, 1, n - 2), @[n] @@ @[n - 1])],
                  "ok", None)

ExitScope(vm) ==
  IF Len(vm.scopes) = 1 THEN Refuse(vm, "ExitMainScopeError")
                        ELSE Answer([vm EXCEPT !.scopes = Front(@)], "ok", None)

\* get_local_variables, get_int_from_scope and the like: None if there is no
\* variable of that name in the current scope.
Local(vm, name) ==
  IF name \in DOMAIN Last(vm.scopes) THEN Last(vm.scopes)[name] ELSE None

AssignVariable(vm, name, value) ==
  [vm EXCEPT !.scopes[Len(vm.scopes)] = Put(@, name, value)]

-----------------------------------------------------------------------------
(* The dictionaries: entries, and a default value that is None in a        *)
(* SimpleDictionary.                                                       *)

DictionaryInsert(dict, key, value) == [dict EXCEPT !.entries = Put(@, key, value)]

\* Fault: the default value is stored over the entry that is there.
DictionaryGetResets(dict, key) ==
  [val  |-> IF key \in DOMAIN dict.entries THEN dict.entries[key] ELSE dict.default_value,
   dict |-> IF dict.default_value = None THEN dict
            ELSE DictionaryInsert(dict, key, dict.default_value)]

\* Dictionary::get: looking up a default dictionary stores the default.
DictionaryGet(dict, key) ==
  IF key \in DOMAIN dict.entries
  THEN [val |-> dict.entries[key], dict |-> dict]
  ELSE [val  |-> dict.default_value,
        dict |-> IF dict.default_value = None THEN dict
                 ELSE DictionaryInsert(dict, key, dict.default_value)]

\* new_dict and new_default_dict: a segment, and a tracker for it.
NewTracker(vm, dict) ==
  LET base  == RelocatableValue(Len(vm.memory.data), 0)
      added == [vm EXCEPT !.memory = WithNewSegment(@)]
  IN  IF base.seg \in DOMAIN vm.trackers
      THEN Refuse(added, "CantCreateDictionaryOnTakenSegment")
      ELSE Answer([added EXCEPT !.trackers =
                     Put(@, base.seg, [data |-> dict, current_ptr |-> base])],
                  "ok", base)

\* dict_new; the variable initial_dict is not deleted.
DictNew(vm) ==
  IF Local(vm, "initial_dict") = None THEN Refuse(vm, "NoInitialDict")
  ELSE NewTracker(vm, [entries |-> Local(vm, "initial_dict"), default_value |-> None])

\* default_dict_new
DefaultDictNew(vm, default_value) ==
  IF ~IsInt(default_value) THEN Refuse(vm, "ExpectedInteger")
  ELSE NewTracker(vm, [entries |-> IF Local(vm, "initial_dict") = None THEN << >>
                                   ELSE Local(vm, "initial_dict"),
                       default_value |-> default_value.num])

-----------------------------------------------------------------------------
(* Accesses.  Only the segment of dict_ptr selects a tracker.              *)

AccessError(vm, ints, dict_ptr) ==
  IF ~IsRel(dict_ptr) \/ \E v \in ints : ~IsInt(v) THEN "FailedToGetIds"
  ELSE IF dict_ptr.seg \notin DOMAIN vm.trackers   THEN "NoDictTracker"
  ELSE "ok"

\* A vm with other data in a tracker, whose pointer has advanced by n entries.
WithData(vm, s, dict, n) ==
  [vm EXCEPT !.trackers[s].data = dict,
             !.trackers[s].current_ptr.off = @ + n * DictAccessSize]

\* What a tracker's dictionary answers for a key.
Lookup(vm, dict_ptr, key) ==
  DictionaryGet(vm.trackers[dict_ptr.seg].data, key.num)

\* dict_read
DictRead(vm, key, dict_ptr) ==
  LET got   == Lookup(vm, dict_ptr, key)
      after == WithData(vm, dict_ptr.seg, got.dict, 1)
  IN  IF AccessError(vm, {key}, dict_ptr) # "ok"
      THEN Refuse(vm, AccessError(vm, {key}, dict_ptr))
      ELSE IF got.val = None THEN Refuse(after, "NoValueForKey")
      ELSE Answer(after, "ok", IntValue(got.val))

\* Fault: the tracker is written before prev_value is.
DictWriteEarly(vm, key, new_value, dict_ptr) ==
  LET got      == Lookup(vm, dict_ptr, key)
      written  == DictionaryInsert(got.dict, key.num, new_value.num)
      after    == WithData(vm, dict_ptr.seg, written, 1)
      prev     == Lookup(after, dict_ptr, key)
      inserted == Insert(vm.memory, AddUsize(dict_ptr, 1).val, IntValue(prev.val))
  IN  IF AccessError(vm, {key, new_value}, dict_ptr) # "ok"
      THEN Refuse(vm, AccessError(vm, {key, new_value}, dict_ptr))
      ELSE IF got.val = None THEN Refuse(after, "NoValueForKey")
      ELSE Answer([after EXCEPT !.memory = inserted.memory], inserted.err, None)

\* dict_write: prev_value is written to the memory, then new_value to the
\* dictionary.
DictWrite(vm, key, new_value, dict_ptr) ==
  LET got      == Lookup(vm, dict_ptr, key)
      after    == WithData(vm, dict_ptr.seg, got.dict, 1)
      inserted == Insert(vm.memory, AddUsize(dict_ptr, 1).val, IntValue(got.val))
      written  == DictionaryInsert(got.dict, key.num, new_value.num)
  IN  IF AccessError(vm, {key, new_value}, dict_ptr) # "ok"
      THEN Refuse(vm, AccessError(vm, {key, new_value}, dict_ptr))
      ELSE IF got.val = None THEN Refuse(after, "NoValueForKey")
      ELSE IF inserted.err # "ok"
      THEN Refuse([after EXCEPT !.memory = inserted.memory], inserted.err)
      ELSE Answer([WithData(vm, dict_ptr.seg, written, 1) EXCEPT !.memory = inserted.memory],
                  "ok", None)

\* dict_update: a default is stored even when the update is refused.
DictUpdate(vm, key, prev_value, new_value, dict_ptr) ==
  LET got     == Lookup(vm, dict_ptr, key)
      written == DictionaryInsert(got.dict, key.num, new_value.num)
  IN  IF AccessError(vm, {key, prev_value, new_value}, dict_ptr) # "ok"
      THEN Refuse(vm, AccessError(vm, {key, prev_value, new_value}, dict_ptr))
      ELSE IF got.val # prev_value.num
      THEN Refuse(WithData(vm, dict_ptr.seg, got.dict, 0), "WrongPrevValue")
      ELSE Answer(WithData(vm, dict_ptr.seg, written, 1), "ok", None)
=============================================================================
