---------------------------- MODULE HintDispatch -----------------------------
(***************************************************************************)
(* execute_hint (vm/hints/execute_hint.rs) for every hint it knows: those  *)
(* of HintLibrary, and those of dictionaries (dict_hint_utils.rs) and of   *)
(* squash_dict (squash_dict_utils.rs), which are here with the variables   *)
(* that DictHints and SquashHints take as arguments and answer.            *)
(***************************************************************************)
EXTENDS HintLibrary, SquashHints

\* An answer is written where the hint has a variable for it; what the hint
\* assigns to the variables of the scope named in late, it assigns later.
Guessed(vm, r, address, late) ==
  LET done == Assign(r.vm, address, IntValue(r.val))
      old  == Last(vm.scopes)
      kept == (DOMAIN Last(r.vm.scopes) \ late) \union (DOMAIN old \intersect late)
  IN  IF r.err # "ok" THEN r
      ELSE IF done.err = "ok" THEN done
      ELSE Answer([done.vm EXCEPT !.scopes[Len(vm.scopes)] =
                     [name \in kept |-> IF name \in late THEN old[name] ELSE @[name]]],
                  done.err, None)

-----------------------------------------------------------------------------
(* Dictionaries.                                                           *)

\* The address of a new dictionary.
NewAtAp(r) == IF r.err # "ok" THEN r ELSE Assign(r.vm, r.vm.ap, r.val)

dict_new(vm) == NewAtAp(DictNew(vm))
default_dict_new(vm, at) == NewAtAp(DefaultDictNew(vm, Value(vm, at["default_value"])))

dict_read(vm, at) ==
  LET r == DictRead(vm, Value(vm, at["key"]), Value(vm, at["dict_ptr"]))
  IN  IF r.err # "ok" THEN r ELSE Assign(r.vm, at["value"], r.val)

dict_write(vm, at) ==
  DictWrite(vm, Value(vm, at["key"]), Value(vm, at["new_value"]), Value(vm, at["dict_ptr"]))

dict_update(vm, at) ==
  DictUpdate(vm, Value(vm, at["key"]), Value(vm, at["prev_value"]), Value(vm, at["new_value"]),
             Value(vm, at["dict_ptr"]))

-----------------------------------------------------------------------------
(* squash_dict.  The variables of the scope are missed first, those of the *)
(* frame are looked up next.                                               *)

\* A hint that writes the answer of r at a field of a variable.
GuessedAt(vm, needed, located, field, r, late) ==
  WithVariables(vm, needed,
    IF located.err # "ok" THEN Refuse(vm, located.err)
    ELSE \* of the one variable it has
         LET address == located.val[CHOOSE name \in DOMAIN located.val : TRUE]
         IN  Guessed(vm, r, Field(address, field), late))

squash_dict_inner_first_iteration(vm, located) ==
  LET pointer == Value(vm, located.val["range_check_ptr"])
  IN  WithVariables(vm, {"access_indices", "key"},
        Checked(vm, << <<located.err # "ok", located.err>>, <<pointer = None, "MemoryGet">> >>,
                Guessed(vm, FirstIteration(vm), pointer, {})))

squash_dict_inner_skip_loop(vm, located) ==
  GuessedAt(vm, {"current_access_indices"}, located, 0, SkipLoop(vm), {})

squash_dict_inner_check_access_index(vm, located) ==
  GuessedAt(vm, {"current_access_indices", "current_access_index"}, located, 0,
            CheckAccessIndex(vm), {"current_access_index"})

squash_dict_inner_continue_loop(vm, located) ==
  GuessedAt(vm, {"current_access_indices"}, located, 3, ContinueLoop(vm), {})

squash_dict_inner_next_key(vm, located) ==
  GuessedAt(vm, {"keys"}, located, 0, NextKey(vm), {"keys", "key"})

squash_dict_inner_used_accesses_assert(vm, located) ==
  LET n == Value(vm, located.val["n_used_accesses"])
  IN  WithVariables(vm, {"access_indices", "key"},
        Checked(vm, << <<located.err # "ok", located.err>>, <<n = None, "MemoryGet">>,
                       <<~IsInt(n), "ExpectedInteger">> >>,
                UsedAccessesAssert(vm, Num(n))))

\* The keys are guessed when big_keys and first_key have been written.
squash_dict(vm, at) ==
  LET v(name)   == Value(vm, at[name])
      n         == Num(v("n_accesses"))
      max_size  == Local(vm, "__squash_dict_max_size")
      r         == SquashDict(vm, v("dict_accesses"), Num(v("ptr_diff")), n)
      guessed   == InsertInTurn(vm, at["big_keys"], Flag(r.val.big_keys),
                                    at["first_key"], IntValue(r.val.first_key))
  IN  Checked(vm, << <<v("ptr_diff") = None, "MemoryGet">>,
                     <<~IsInt(v("ptr_diff")), "ExpectedInteger">>,
                     <<v("n_accesses") = None, "MemoryGet">>,
                     <<~IsInt(v("n_accesses")), "ExpectedInteger">>,
                     <<v("dict_accesses") = None, "MemoryGet">>,
                     <<~HasRangeCheck(vm), "NoRangeCheckBuiltin">>,
                     <<Num(v("ptr_diff")) % DictAccessSize # 0,
                       "PtrDiffNotDivisibleByDictAccessSize">>,
                     <<max_size # None /\ n > max_size, "SquashDictMaxSizeExceeded">>,
                     <<n \notin 0..UsizeMax, "NAccessesTooBig">>,
                     <<n > 0 /\ ~IsRel(v("dict_accesses")), "AddressNotRelocatable">> >>,
              IF r.err # "ok" THEN r
              ELSE IF guessed.err # "ok" THEN guessed
              ELSE Answer([guessed.vm EXCEPT !.scopes = r.vm.scopes], "ok", None))

-----------------------------------------------------------------------------
\* execute_hint
ExecuteHint(vm, code, ids, tracking) ==
  LET Run(hint(_, _), located) ==
        IF located.err # "ok" THEN Refuse(vm, located.err) ELSE hint(vm, located.val)
      All(names)  == Located(vm, ids, names, None, "FailedToGetIds")
      Turn(names) == LocatedInTurn(vm, ids, names, tracking)
  IN  CASE code = "dict_new"         -> dict_new(vm)
        [] code = "default_dict_new" ->
             Run(default_dict_new,
                 Located(vm, ids, {"default_value"}, tracking, "FailedToGetReference"))
        [] code = "dict_read"   -> Run(dict_read, All({"key", "value", "dict_ptr"}))
        [] code = "dict_write"  -> Run(dict_write, All({"key", "new_value", "dict_ptr"}))
        [] code = "dict_update" ->
             Run(dict_update, All({"key", "prev_value", "new_value", "dict_ptr"}))
        [] code = "squash_dict" ->
             Run(squash_dict, Turn(<<"dict_accesses", "ptr_diff", "n_accesses", "big_keys",
                                     "first_key">>))
        [] code = "squash_dict_inner_first_iteration" ->
             squash_dict_inner_first_iteration(vm, Turn(<<"range_check_ptr">>))
        [] code = "squash_dict_inner_skip_loop" ->
             squash_dict_inner_skip_loop(vm, Turn(<<"should_skip_loop">>))
        [] code = "squash_dict_inner_check_access_index" ->
             squash_dict_inner_check_access_index(vm, Turn(<<"loop_temps">>))
        [] code = "squash_dict_inner_continue_loop" ->
             squash_dict_inner_continue_loop(vm, Turn(<<"loop_temps">>))
        [] code = "squash_dict_inner_len_assert"      -> LenAssert(vm)
        [] code = "squash_dict_inner_used_accesses_assert" ->
             squash_dict_inner_used_accesses_assert(vm, Turn(<<"n_used_accesses">>))
        [] code = "squash_dict_inner_assert_len_keys" -> AssertLenKeys(vm)
        [] code = "squash_dict_inner_next_key" ->
             squash_dict_inner_next_key(vm, Turn(<<"next_key">>))
        [] OTHER                     -> RunHint(vm, code, ids, tracking)
=============================================================================
