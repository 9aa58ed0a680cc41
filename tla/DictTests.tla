------------------------------ MODULE DictTests ------------------------------
(***************************************************************************)
(* The tests of the hints of dictionaries and of squash_dict that the      *)
(* repository has, as calls.                                               *)
(***************************************************************************)
EXTENDS HintTests

\* A tracker of the second segment: its entries, its default (None without)
\* and where its pointer stands.
Tracker(entries, default_value, off) ==
  1 :> [data |-> [entries |-> entries, default_value |-> default_value],
        current_ptr |-> P(1, off)]

\* A test of a hint that has its dictionary, and what it leaves of it.
DictTest(code, names, cells, before, err, written, after) ==
  [Test(code, names, cells, err, written) EXCEPT
     !.trackers = before, !.expected.trackers = IF after = << >> THEN None ELSE after]

-----------------------------------------------------------------------------
dict_new_empty ==
  {[Test("dict_new", << >>, << >>, "ok", P(0, 0) :> P(0, 0)) EXCEPT
      !.data = << >>, !.ap = P(0, 0), !.scopes = <<"initial_dict" :> << >> >>,
      !.expected.trackers = 0 :> [data |-> [entries |-> << >>, default_value |-> None],
                                  current_ptr |-> P(0, 0)]]}

dict_new_refusals ==
  {[Test("dict_new", << >>, << >>, "NoInitialDict", NoCells) EXCEPT !.data = << >>],
   [Test("dict_new", << >>, << >>, Inconsistent, NoCells) EXCEPT
      !.data = <<<<I(1)>>>>, !.ap = P(0, 0), !.scopes = <<"initial_dict" :> << >> >>]}

dict_read_tests ==
  LET T(key, before, err, written, after) ==
        DictTest("dict_read", <<"key", "value", "dict_ptr">>, <<I(key), None, P(1, 0)>>, before,
                 err, written, after)
      simple == Tracker(5 :> 12, None, 0)
  IN  {T(5, simple, "ok", P(0, 1) :> I(12), Tracker(5 :> 12, None, 3)),
       T(6, simple, "NoValueForKey", NoCells, << >>),
       T(6, << >>, "NoDictTracker", NoCells, << >>)}

default_dict_new_tests ==
  {[Test("default_dict_new", <<"default_value">>, << >>, "ok", P(0, 0) :> P(2, 0)) EXCEPT
      !.data = << << >>, <<I(17)>> >>, !.fp = P(1, 1), !.ap = P(0, 0),
      !.expected.trackers = 2 :> [data |-> [entries |-> << >>, default_value |-> 17],
                                  current_ptr |-> P(2, 0)]],
   [Test("default_dict_new", <<"default_value">>, << >>, "ExpectedInteger", NoCells)
      EXCEPT !.data = << >>]}

\* A write of 17 at 5.
dict_write_test(before, err, written, after) ==
  DictTest("dict_write", <<"key", "new_value", "dict_ptr">>, <<I(5), I(17), P(1, 0)>>, before,
           err, written, after)

dict_write_empty ==
  {dict_write_test(Tracker(<< >>, 2, 0), "ok", P(1, 1) :> I(2), Tracker(5 :> 17, 2, 3))}
dict_write_overwrite ==
  {dict_write_test(Tracker(5 :> 10, 2, 0), "ok", P(1, 1) :> I(10), Tracker(5 :> 17, 2, 3))}
dict_write_simple ==
  {dict_write_test(Tracker(5 :> 10, None, 0), "ok", P(1, 1) :> I(10), Tracker(5 :> 17, None, 3))}
dict_write_new_key ==
  {dict_write_test(Tracker(<< >>, None, 0), "NoValueForKey", NoCells, << >>)}

\* An update from a value to another.
dict_update_test(key, prev_value, new_value, before, err, after) ==
  DictTest("dict_update", <<"key", "prev_value", "new_value", "dict_ptr">>,
           <<I(key), I(prev_value), I(new_value), P(1, 0)>>, before, err, NoCells, after)

Simple  == Tracker(5 :> 10, None, 0)
Default == Tracker(5 :> 10, 17, 0)

dict_update_simple ==
  {dict_update_test(5, 10, 20, Simple, "ok", Tracker(5 :> 20, None, 3))}
dict_update_simple_no_change ==
  {dict_update_test(5, 10, 10, Simple, "ok", Tracker(5 :> 10, None, 3))}
dict_update_simple_wrong_prev ==
  {dict_update_test(5, 11, 10, Simple, "WrongPrevValue", << >>)}
dict_update_simple_wrong_key ==
  {dict_update_test(6, 10, 10, Simple, "WrongPrevValue", << >>)}
dict_update_default ==
  {dict_update_test(5, 10, 20, Default, "ok", Tracker(5 :> 20, 17, 3))}
dict_update_default_no_change ==
  {dict_update_test(5, 10, 10, Default, "ok", Tracker(5 :> 10, 17, 3))}
dict_update_default_wrong_prev ==
  {dict_update_test(5, 11, 10, Default, "WrongPrevValue", << >>)}
dict_update_default_wrong_key ==
  {dict_update_test(6, 10, 10, Default, "WrongPrevValue", << >>)}
dict_update_default_no_key ==
  {dict_update_test(5, 17, 20, Tracker(<< >>, 17, 0), "ok", Tracker(5 :> 20, 17, 3))}

-----------------------------------------------------------------------------
\* A hint of squash_dict_inner, in a scope with the given variables.
InnerTest(code, names, cells, scope, err, written) ==
  [Test(code, names, cells, err, written) EXCEPT !.scopes = <<scope>>]

WithScope(test, scope) == [test EXCEPT !.expected.scopes = <<scope>>]

\* The accesses of key 5.
FourAccesses == "access_indices" :> (5 :> <<9, 3, 10, 7>>) @@ "key" :> 5

first_iteration_test(scope, err, written) ==
  InnerTest("squash_dict_inner_first_iteration", <<"range_check_ptr">>, <<P(1, 0)>>, scope, err,
            written)

first_iteration_valid ==
  {WithScope(first_iteration_test(FourAccesses, "ok", P(1, 0) :> I(3)),
             FourAccesses @@ "current_access_indices" :> <<10, 9, 7>>
                          @@ "current_access_index" :> 3)}
first_iteration_empty ==
  {first_iteration_test("access_indices" :> (5 :> << >>) @@ "key" :> 5,
                        "EmptyCurrentAccessIndices", NoCells)}
first_iteration_no_variables ==
  {first_iteration_test(NoScope, "NoLocalVariable", NoCells)}

skip_loop_tests ==
  LET T(indices, flag) ==
        InnerTest("squash_dict_inner_skip_loop", <<"should_skip_loop">>, << >>,
                  "current_access_indices" :> indices, "ok", P(0, 0) :> I(flag))
  IN  {T(<< >>, 1), T(<<4, 7>>, 0)}

check_access_index_tests ==
  LET T(indices, err, written) ==
        InnerTest("squash_dict_inner_check_access_index", <<"loop_temps">>, << >>,
                  "current_access_indices" :> indices @@ "current_access_index" :> 1, err,
                  written)
  IN  {WithScope(T(<<10, 9, 7, 5>>, "ok", P(0, 0) :> I(3)),
                 "current_access_indices" :> <<10, 9, 7>> @@ "current_access_index" :> 5
                   @@ "new_access_index" :> 5),
       T(<< >>, "EmptyCurrentAccessIndices", NoCells)}

continue_loop_tests ==
  LET T(indices, flag) ==
        InnerTest("squash_dict_inner_continue_loop", <<"loop_temps">>, << >>,
                  "current_access_indices" :> indices, "ok", P(0, 3) :> I(flag))
  IN  {T(<<4, 7>>, 1), T(<< >>, 0)}

len_assert_tests ==
  LET T(indices, err) ==
        InnerTest("squash_dict_inner_len_assert", << >>, << >>,
                  "current_access_indices" :> indices, err, NoCells)
  IN  {T(<< >>, "ok"), T(<<29>>, "CurrentAccessIndicesNotEmpty")}

used_accesses_assert_tests ==
  LET T(n, err) ==
        InnerTest("squash_dict_inner_used_accesses_assert", <<"n_used_accesses">>, <<n>>,
                  FourAccesses, err, NoCells)
  IN  {T(I(4), "ok"), T(I(5), "NumUsedAccessesAssertFail"), T(P(0, 2), "ExpectedInteger")}

assert_len_keys_tests ==
  LET T(scope, err) ==
        InnerTest("squash_dict_inner_assert_len_keys", << >>, << >>, scope, err, NoCells)
  IN  {T("keys" :> << >>, "ok"), T("keys" :> <<3>>, "KeysNotEmpty"),
       T(NoScope, "NoLocalVariable")}

next_key_tests ==
  LET T(keys, err, written) ==
        InnerTest("squash_dict_inner_next_key", <<"next_key">>, << >>, "keys" :> keys, err,
                  written)
  IN  {WithScope(T(<<1, 3>>, "ok", P(0, 0) :> I(3)), "keys" :> <<1>> @@ "key" :> 3),
       T(<< >>, "EmptyKeys", NoCells)}

-----------------------------------------------------------------------------
\* A call of squash_dict for accesses of these keys.
squash_dict_test(keys, ptr_diff, n_accesses, scope, err, written) ==
  [Test("squash_dict", <<"dict_accesses", "big_keys", "first_key", "ptr_diff", "n_accesses">>,
        <<P(1, 0), None, None, I(ptr_diff), I(n_accesses)>>, err, written) EXCEPT
     !.data[2] = FlattenSeq([i \in DOMAIN keys |-> <<I(keys[i]), I(1), I(2)>>]),
     !.scopes = <<scope>>]

\* What squash_dict leaves: the guesses, and the scope.
Guesses(big_keys, first_key) == P(0, 1) :> I(big_keys) @@ P(0, 2) :> I(first_key)
KeysLeft(access_indices, keys, key) ==
  "access_indices" :> access_indices @@ "keys" :> keys @@ "key" :> key

squash_dict_one_key ==
  {WithScope(squash_dict_test(<<1, 1>>, 6, 2, NoScope, "ok", Guesses(0, 1)),
             KeysLeft(1 :> <<0, 1>>, << >>, 1))}
squash_dict_two_keys ==
  {WithScope(squash_dict_test(<<1, 1, 2, 2>>, 6, 4, NoScope, "ok", Guesses(0, 1)),
             KeysLeft(1 :> <<0, 1>> @@ 2 :> <<2, 3>>, <<2>>, 1))}
squash_dict_with_max_size ==
  LET limited == "__squash_dict_max_size" :> 12
  IN  {WithScope(squash_dict_test(<<1, 1>>, 6, 2, limited, "ok", Guesses(0, 1)),
                 KeysLeft(1 :> <<0, 1>>, << >>, 1) @@ limited)}
squash_dict_max_size_exceeded ==
  {squash_dict_test(<<1, 1>>, 6, 2, "__squash_dict_max_size" :> 1, "SquashDictMaxSizeExceeded",
                    NoCells)}
squash_dict_bad_ptr_diff ==
  {squash_dict_test(<<1, 1>>, 7, 2, NoScope, "PtrDiffNotDivisibleByDictAccessSize", NoCells)}
squash_dict_n_accesses_too_big ==
  {squash_dict_test(<<1, 1>>, 6, Prime, NoScope, "NAccessesTooBig", NoCells)}
squash_dict_big_keys ==
  {WithScope(squash_dict_test(<<Prime - 1, Prime - 1>>, 6, 2, NoScope, "ok",
                              Guesses(1, Prime - 1)),
             KeysLeft((Prime - 1) :> <<0, 1>>, << >>, Prime - 1))}
=============================================================================
