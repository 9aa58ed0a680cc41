----------------------------- MODULE SquashHints -----------------------------
(***************************************************************************)
(* The hints of squash_dict (vm/hints/squash_dict_utils.rs).  They guess,  *)
(* for the Cairo code around them, the next key and the next access of a   *)
(* key; between two hints the guesses wait in the variables of the current *)
(* scope.                                                                  *)
(***************************************************************************)
EXTENDS DictHints

\* A hint that misses a variable of the scope is refused; a hint with its
\* variables has the outcome r.
WithVariables(vm, names, r) ==
  IF ~(names \subseteq DOMAIN Last(vm.scopes)) THEN Refuse(vm, "NoLocalVariable") ELSE r

\* The words of the keys of n accesses from an address on.
KeyWord(vm, address, i) ==
  Cell(vm.memory.data, [address EXCEPT !.off = @ + DictAccessSize * i])

\* A map from each key to the list of the accesses that have it.
AccessIndices(vm, address, n) ==
  [key \in {KeyWord(vm, address, i).num : i \in 0..(n - 1)} |->
     Ascending({i \in 0..(n - 1) : KeyWord(vm, address, i).num = key})]

\* Fault: whether the keys are big is read off the smallest of them.
FirstGuessesOfSmallest(vm, access_indices, keys) ==
  IF keys = << >> THEN Refuse(vm, "panic")
  ELSE Answer(AssignVariable(AssignVariable(AssignVariable(vm,
                "access_indices", access_indices), "keys", Front(keys)), "key", Last(keys)),
              "ok", [big_keys |-> Last(keys) >= RangeCheckBound, first_key |-> Last(keys)])

\* squash_dict, when the keys are known.
FirstGuesses(vm, access_indices, keys) ==
  IF keys = << >> THEN Refuse(vm, "panic")
  ELSE Answer(AssignVariable(AssignVariable(AssignVariable(vm,
                "access_indices", access_indices), "keys", Front(keys)), "key", Last(keys)),
              "ok", [big_keys |-> keys[1] >= RangeCheckBound, first_key |-> Last(keys)])

\* squash_dict.  (No hint assigns the variable __squash_dict_max_size.)
SquashDict(vm, address, ptr_diff, n_accesses) ==
  LET unread == {i \in 0..(n_accesses - 1) : ~IsInt(KeyWord(vm, address, i))}
      first  == CHOOSE i \in unread : \A j \in unread : i <= j
      access_indices == AccessIndices(vm, address, n_accesses)
  IN  IF ptr_diff % DictAccessSize # 0
      THEN Refuse(vm, "PtrDiffNotDivisibleByDictAccessSize")
      ELSE IF unread # {}
      THEN Refuse(vm, IF KeyWord(vm, address, first) = None THEN "MemoryGet"
                                                            ELSE "ExpectedInteger")
      ELSE FirstGuesses(vm, access_indices, Reverse(Ascending(DOMAIN access_indices)))

-----------------------------------------------------------------------------
(* The hints of squash_dict_inner.                                         *)

\* The first of a key's accesses.
FirstAccess(vm, sorted) ==
  IF sorted = << >> THEN Refuse(vm, "EmptyCurrentAccessIndices")
  ELSE Answer(AssignVariable(AssignVariable(vm,
                "current_access_indices", Front(sorted)), "current_access_index", Last(sorted)),
              "ok", Last(sorted))

\* squash_dict_inner_first_iteration
FirstIteration(vm) ==
  LET access_indices == Local(vm, "access_indices")
      key            == Local(vm, "key")
  IN  WithVariables(vm, {"access_indices", "key"},
        IF key \notin DOMAIN access_indices THEN Refuse(vm, "NoKeyInAccessIndices")
        ELSE FirstAccess(vm, Reverse(Ascending(ToSet(access_indices[key])))))

\* squash_dict_inner_skip_loop
SkipLoop(vm) ==
  WithVariables(vm, {"current_access_indices"},
    Answer(vm, "ok", IF Local(vm, "current_access_indices") = << >> THEN 1 ELSE 0))

\* The next access of a key, and its distance from the current one.
NextAccess(vm, indices, current) ==
  IF indices = << >> THEN Refuse(vm, "EmptyCurrentAccessIndices")
  ELSE Answer(AssignVariable(AssignVariable(AssignVariable(vm,
                "new_access_index", Last(indices)), "current_access_indices", Front(indices)),
                "current_access_index", Last(indices)),
              "ok", Last(indices) - current - 1)

\* squash_dict_inner_check_access_index
CheckAccessIndex(vm) ==
  WithVariables(vm, {"current_access_indices", "current_access_index"},
    NextAccess(vm, Local(vm, "current_access_indices"), Local(vm, "current_access_index")))

\* squash_dict_inner_continue_loop
ContinueLoop(vm) ==
  WithVariables(vm, {"current_access_indices"},
    Answer(vm, "ok", IF Local(vm, "current_access_indices") = << >> THEN 0 ELSE 1))

\* squash_dict_inner_len_assert
LenAssert(vm) ==
  WithVariables(vm, {"current_access_indices"},
    IF Local(vm, "current_access_indices") # << >>
    THEN Refuse(vm, "CurrentAccessIndicesNotEmpty") ELSE Answer(vm, "ok", None))

\* squash_dict_inner_used_accesses_assert
UsedAccessesAssert(vm, n_used_accesses) ==
  LET access_indices == Local(vm, "access_indices")
      key            == Local(vm, "key")
  IN  WithVariables(vm, {"access_indices", "key"},
        IF key \notin DOMAIN access_indices THEN Refuse(vm, "NoKeyInAccessIndices")
        ELSE IF n_used_accesses # Len(access_indices[key])
        THEN Refuse(vm, "NumUsedAccessesAssertFail")
        ELSE Answer(vm, "ok", None))

\* squash_dict_inner_assert_len_keys
AssertLenKeys(vm) ==
  WithVariables(vm, {"keys"},
    IF Local(vm, "keys") # << >> THEN Refuse(vm, "KeysNotEmpty") ELSE Answer(vm, "ok", None))

\* squash_dict_inner_next_key
NextKey(vm) ==
  LET keys == Local(vm, "keys")
  IN  WithVariables(vm, {"keys"},
        IF keys = << >> THEN Refuse(vm, "EmptyKeys")
        ELSE Answer(AssignVariable(AssignVariable(vm, "keys", Front(keys)), "key", Last(keys)),
                    "ok", Last(keys)))
=============================================================================
