------------------------------ MODULE MCLibrary ------------------------------
(* The numbers around every bound of a field of 8209, in which 2^64 is 16,  *)
(* 2^128 is 256 and 2^250 is 4096, and the tests of the repository.         *)
EXTENDS Library, DictTests

\* The numbers near n, and those near the bounds and near their opposites.
Around(n) == (n - 1)..(n + 1)
Bounds == {0, TwoTo64, RangeCheckBound \div 2, RangeCheckBound, TwoTo250, Prime \div 2}
Numbers == {n % Prime : n \in UNION {Around(b) \union Around(-b) : b \in Bounds}}
Small   == 0..80
Near == {n % Prime : n \in UNION {Around(b) \union Around(-b) : b \in {0, RangeCheckBound, Prime \div 2}}}
NoValues == {None, Heap(0)}
IntsOf(S) == {IntValue(n) : n \in S} \union NoValues

Builtins3 == {<<"range_check">>, <<"output", "range_check">>, << >>}

Frames(code, names, rows) ==
  {Call(code, names, row, << >>, builtins) : row \in rows, builtins \in Builtins3}

\* The hints of one number, with room for what they answer.
OfOne ==
  UNION {Frames(code, <<"a">>, {<<a>> : a \in IntsOf((Numbers \union Small))}) :
           code \in {"is_nn", "is_nn_out_of_range", "assert_nn"}}
  \union UNION {Frames(code, <<"value">>, {<<v>> : v \in IntsOf((Numbers \union Small))}) :
           code \in {"assert_not_zero", "split_int_assert_range"}}
  \union UNION {Frames(of[1], of[2], {<<v, None, None>> : v \in IntsOf((Numbers \union Small))}) :
           of \in {<<"is_positive", <<"value", "is_positive">> >>,
                   <<"sqrt", <<"value", "root">> >>,
                   <<"split_felt", <<"value", "low", "high">> >>,
                   <<"assert_250_bit", <<"value", "low", "high">> >>,
                   <<"split_64", <<"a", "low", "high">> >>}}

OfTwo ==
  UNION {Frames(code, <<"a", "b", "small_inputs">>,
                {<<a, b, None>> : a, b \in IntsOf(Near)}) :
           code \in {"is_le_felt", "assert_le_felt", "assert_lt_felt", "assert_not_equal"}}

\* Answers that are taken.
Taken == Frames("split_felt", <<"value", "low", "high">>,
                {<<IntValue(515), low, high>> : low, high \in {None, IntValue(2), IntValue(3)}})

OfMany ==
  Frames("split_int", <<"value", "base", "bound", "output">>,
         {<<IntValue(v), IntValue(base), bound, Heap(0)>> :
            v \in Numbers, base \in {0, 1, 2, 16}, bound \in IntsOf({0, 1, 2, 15, 16})})
  \union Frames("unsigned_div_rem", <<"value", "div", "q", "r">>,
                {<<v, IntValue(d), None, None>> :
                   v \in IntsOf(Numbers), d \in {0, 1, 2, 7, 31, 32, 33}})
  \union Frames("signed_div_rem", <<"value", "div", "bound", "r", "biased_q", "range_check_ptr">>,
                {<<v, IntValue(d), IntValue(bound), None, None, Heap(0)>> :
                   v \in IntsOf(Numbers \union 0..9), d \in {0, 1, 3, 31, 32, 33},
                   bound \in {0, 1, 5, 128, 129}})

\* Structs: two numbers of two halves, and the five fields of pow's locals.
Structs ==
  {[Call("uint256_add", <<"a", "b", "carry_low", "carry_high">>,
         <<IntValue(al), IntValue(ah), IntValue(bl), bh>>, << >>, << >>)
      EXCEPT !.references = <<Fp(-4), Fp(-2), Fp(0), Fp(1)>>] :
     al, ah, bl \in {0, 1, RangeCheckBound - 2, RangeCheckBound - 1}, bh \in IntsOf({0, 1, RangeCheckBound - 2, RangeCheckBound - 1})}
  \union {[Call("pow", <<"prev_locs", "locs">>, <<None, None, None, None, exp>>, << >>, << >>)
             EXCEPT !.references = <<Fp(-2), Fp(3)>>] : exp \in IntsOf((Numbers \union Small))}

\* Arrays of up to three elements, of one or two cells.
Arrays == {<<x, y, z, IntValue(7), y, x>> : x, y, z \in {IntValue(7), IntValue(8), Heap(1)}}

Searches ==
  {Call("find_element", <<"array_ptr", "elm_size", "n_elms", "key", "index">>,
        <<Heap(0), IntValue(size), n, key, None>>, array, builtins) :
     size \in 0..2, n \in IntsOf(0..4), key \in {IntValue(7), Heap(1)}, array \in Arrays,
     builtins \in Builtins3}
  \union
  {Call("set_add",
        <<"set_ptr", "elm_size", "elm_ptr", "set_end_ptr", "index", "is_elm_in_set">>,
        <<Heap(0), IntValue(size), Heap(4), end, None, None>>, array, builtins) :
     size \in 0..2, end \in {Heap(0), Heap(2), Heap(4), P(0, 5), IntValue(3)},
     array \in Arrays, builtins \in Builtins3}

MCTests ==
  UNION {alloc_tests, unknown_tests, is_nn_answers, is_nn_refusals,
         is_nn_out_of_range_tests, assert_le_felt_answers, assert_le_felt_taken,
         assert_le_felt_refusals, is_le_felt_answers, is_le_felt_refusals,
         assert_nn_answers, assert_nn_refusals, assert_nn_not_in_memory,
         assert_not_equal_ints, assert_not_equal_modulo,
         assert_not_equal_addresses, assert_not_equal_mixed,
         assert_not_zero_answers, assert_not_zero_refusals,
         split_int_assert_range_tests, split_int_valid, split_int_invalid, is_positive_answers,
         is_positive_refusals, sqrt_tests, sqrt_mismatched,
         unsigned_div_rem_success, unsigned_div_rem_out_of_range,
         unsigned_div_rem_no_range_check_builtin, unsigned_div_rem_inconsistent,
         unsigned_div_rem_incorrect_ids, signed_div_rem_success,
         signed_div_rem_negative_quotient, signed_div_rem_out_of_range,
         signed_div_rem_no_range_check_builtin, signed_div_rem_inconsistent,
         signed_div_rem_incorrect_ids, assert_250_bit_tests, split_felt_ok,
         split_felt_incorrect_ids, split_felt_failed_to_get_ids,
         split_felt_fails_first_insert, split_felt_fails_second_insert,
         split_felt_value_is_not_integer, assert_lt_felt_answers,
         assert_lt_felt_not_found, assert_lt_felt_refusals,
         assert_lt_felt_unassigned, memcpy_enter_scope_tests,
         memcpy_continue_copying_tests, exit_scope_tests, enter_scope_tests,
         memset_enter_scope_tests, memset_continue_loop_answers,
         memset_continue_loop_refusals, find_element_answers,
         find_element_not_found, find_element_refusals, set_add_answers,
         set_add_refusals, pow_ok, pow_not_found, pow_refusals, uint256_add_ok,
         uint256_add_fail_inserts, split_64_tests}

MCDictTests ==
  UNION {dict_new_empty, dict_new_refusals, dict_read_tests, default_dict_new_tests,
         dict_write_empty, dict_write_overwrite, dict_write_simple, dict_write_new_key,
         dict_update_simple, dict_update_simple_no_change,
         dict_update_simple_wrong_prev, dict_update_simple_wrong_key,
         dict_update_default, dict_update_default_no_change,
         dict_update_default_wrong_prev, dict_update_default_wrong_key,
         dict_update_default_no_key, first_iteration_valid, first_iteration_empty,
         first_iteration_no_variables, skip_loop_tests, check_access_index_tests,
         continue_loop_tests, len_assert_tests, used_accesses_assert_tests,
         assert_len_keys_tests, next_key_tests, squash_dict_one_key,
         squash_dict_two_keys, squash_dict_with_max_size,
         squash_dict_max_size_exceeded, squash_dict_bad_ptr_diff,
         squash_dict_n_accesses_too_big, squash_dict_big_keys}

\* The calls in which a hint does not do what its comment says: those of Comments.
AtLimit(of) ==
  \E cell \in {of.data[1]} :
    \/ of.code = "is_positive" /\ cell[1] \in {IntValue(RangeCheckBound), IntValue(Prime - RangeCheckBound)}
    \/ of.code = "assert_250_bit" /\ cell[1] = IntValue(TwoTo250)
    \/ of.code = "split_64" /\ Num(cell[1]) >= RangeCheckBound
    \/ of.code = "assert_le_felt" /\ Num(cell[1]) < RangeCheckBound
                                 /\ Num(cell[2]) - Num(cell[1]) >= RangeCheckBound
    \/ /\ of.code = "split_int" /\ Num(cell[2]) > 0
       /\ cell[3] = IntValue(Num(cell[1]) % Num(cell[2]))

Computed == OfOne \union OfTwo \union Taken \union OfMany \union Structs \union Searches

MCCalls == {of \in Computed : ~AtLimit(of)} \union MCTests \union MCDictTests
=============================================================================
