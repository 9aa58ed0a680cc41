------------------------------ MODULE HintTests ------------------------------
(***************************************************************************)
(* The tests of the hints that the repository has, as calls: each is a     *)
(* frame, what execute_hint should answer, and the cells that the test     *)
(* looks at afterwards.  A large number of a test stands at the same place *)
(* between the powers of two and the prime of the model, and segments are  *)
(* numbered from the one that fp points to.                                *)
(***************************************************************************)
EXTENDS HintFrames

NoCells == << >>

Expecting(of, err, cells) ==
  [of EXCEPT !.expected = [err |-> err, cells |-> cells, scopes |-> None, trackers |-> None]]

\* A test with cells for the variables, and one whose second segment is used
\* too.  ap is at the start of the second segment.
Test(code, names, cells, err, after) ==
  [Expecting(Call(code, names, cells, << >>, <<"range_check">>), err, after)
     EXCEPT !.data = <<cells, << >>, << >> >>, !.ap = P(1, 0)]

WithoutBuiltins(test)   == [test EXCEPT !.builtin_runners = << >>]
WithIds(test, names)    == [test EXCEPT !.ids = InOrder(names)]
WithReferences(test, references) == [test EXCEPT !.references = references]
WithLocal(test, name, value)     == [test EXCEPT !.scopes = <<name :> value>>]

\* What an insert of an answer that differs is refused with.
Inconsistent == "InconsistentMemory"
AtAp(n) == P(1, 0) :> I(n)

-----------------------------------------------------------------------------
\* memory[ap] = segments.add(), and two hints that are none.
alloc_tests ==
  LET T(segments, ap, err, after) ==
        [Test("add_segment", << >>, << >>, err, after) EXCEPT !.data = segments, !.ap = ap]
      sixCells == [i \in 1..6 |-> None]
  IN  {T(<< >>, P(0, 0), "ok", P(0, 0) :> P(0, 0)),
       T(<< << >>, << >>, << >> >>, P(2, 6), "ok", P(2, 6) :> P(3, 0)),
       T(<< << >>, << >>, Append(sixCells, P(2, 6))>>, P(2, 6), Inconsistent, NoCells)}

unknown_tests ==
  {Test("unknown", << >>, << >>, "UnknownHint", NoCells),
   Test("not utf-8", << >>, << >>, "InvalidHintEncoding", NoCells)}

is_nn_answers ==
  LET T(a, flag) == Test("is_nn", <<"a">>, <<I(a)>>, "ok", AtAp(flag))
  IN  {T(-1, 1), T(1, 0), T(1 - Prime, 0)}

is_nn_refusals ==
  LET T(cells, err) == Test("is_nn", <<"a">>, cells, err, NoCells)
  IN  {WithoutBuiltins(T(<<I(1)>>, "NoRangeCheckBuiltin")),
       WithIds(T(<< >>, "IncorrectIds"), <<"b">>),
       T(<< >>, "MemoryGet"), T(<<P(2, 3)>>, "ExpectedInteger")}

is_nn_out_of_range_tests ==
  LET T(a, flag) == Test("is_nn_out_of_range", <<"a">>, <<I(a)>>, "ok", AtAp(flag))
  IN  {T(2, 1), T(-1, 0)}

assert_le_felt_answers ==
  LET T(cells, err) ==
        Test("assert_le_felt", <<"a", "b", "small_inputs">>, cells, err, NoCells)
  IN  {T(<<I(1), I(2), None, I(4)>>, "ok"), T(<<I(2), I(1), None, I(4)>>, "NonLeFelt")}

assert_le_felt_taken ==
  {Test("assert_le_felt", <<"a", "b", "small_inputs">>, <<I(2), I(1), I(4)>>,
        "FailedToGetIds", NoCells)}

assert_le_felt_refusals ==
  LET T(cells) == Test("assert_le_felt", <<"a", "b", "small_inputs">>, cells,
                       "ExpectedInteger", NoCells)
  IN  {T(<<P(0, 0), I(1), None, I(4)>>), T(<<I(1), P(0, 0), None, I(4)>>)}

is_le_felt_test(err) == Test("is_le_felt", <<"a", "b">>, <<I(1), I(2)>>, err, NoCells)

is_le_felt_answers == {is_le_felt_test("ok"), WithoutBuiltins(is_le_felt_test("NoRangeCheckBuiltin"))}

is_le_felt_refusals ==
  {[is_le_felt_test(Inconsistent) EXCEPT !.ap = P(0, 0)],
   WithoutBuiltins(WithIds(is_le_felt_test("IncorrectIds"), <<"a", "c">>))}

assert_nn_test(cells, err) == Test("assert_nn", <<"a">>, cells, err, NoCells)

assert_nn_answers ==
  {assert_nn_test(<<I(1)>>, "ok"), assert_nn_test(<<I(-1)>>, "ValueOutOfRange"),
   WithIds(assert_nn_test(<<I(-1)>>, "IncorrectIds"), <<"incorrect_id">>)}

assert_nn_refusals ==
  {WithReferences(assert_nn_test(<<I(-1)>>, "FailedToGetIds"), <<Fp(10)>>),
   assert_nn_test(<<P(10, 10)>>, "ExpectedInteger"),
   WithoutBuiltins(assert_nn_test(<<I(1)>>, "NoRangeCheckBuiltin"))}

assert_nn_not_in_memory == {assert_nn_test(<< >>, "FailedToGetIds")}

-----------------------------------------------------------------------------
assert_not_equal_test(a, b, err) ==
  WithoutBuiltins(Test("assert_not_equal", <<"a", "b">>, <<a, b>>, err, NoCells))

assert_not_equal_ints ==
  {assert_not_equal_test(I(1), I(1), "AssertNotEqualFail"),
   assert_not_equal_test(I(1), I(3), "ok")}

assert_not_equal_modulo ==
  {assert_not_equal_test(I(-1), I(Prime - 1), "AssertNotEqualFail"),
   assert_not_equal_test(P(0, 0), P(0, 0), "AssertNotEqualFail")}

assert_not_equal_addresses ==
  {assert_not_equal_test(P(0, 1), P(0, 0), "ok"),
   assert_not_equal_test(P(1, 0), P(0, 0), "DiffIndexComp")}

assert_not_equal_mixed == {assert_not_equal_test(P(1, 0), I(1), "DiffTypeComparison")}

assert_not_zero_test(value, err) ==
  WithoutBuiltins(Test("assert_not_zero", <<"value">>, <<value>>, err, NoCells))

assert_not_zero_answers ==
  {assert_not_zero_test(I(5), "ok"), assert_not_zero_test(I(0), "AssertNotZero"),
   assert_not_zero_test(I(Prime), "AssertNotZero")}

assert_not_zero_refusals ==
  {[assert_not_zero_test(I(5), "FailedToGetReference") EXCEPT !.ids = "value" :> 10],
   WithIds(assert_not_zero_test(I(0), "IncorrectIds"), <<"incorrect_id">>),
   assert_not_zero_test(P(0, 0), "ExpectedInteger")}

split_int_assert_range_tests ==
  LET T(value, err) == WithoutBuiltins(Test("split_int_assert_range", <<"value">>,
                                            <<I(value)>>, err, NoCells))
  IN  {T(1, "SplitIntNotZero"), T(0, "ok")}

split_int_test(value, base, bound, err, after) ==
  WithoutBuiltins(Test("split_int", <<"output", "value", "base", "bound">>,
                       <<P(2, 0), I(value), I(base), I(bound)>>, err, after))

split_int_valid   == {split_int_test(2, 10, 100, "ok", P(2, 0) :> I(2))}
split_int_invalid == {split_int_test(100, 10000, 10, "SplitIntLimbOutOfRange", NoCells)}

is_positive_test(cells, err, after) ==
  Test("is_positive", <<"value", "is_positive">>, cells, err, after)

is_positive_answers ==
  {is_positive_test(<<I(250)>>, "ok", P(0, 1) :> I(1)),
   is_positive_test(<<I(-250)>>, "ok", P(0, 1) :> I(0))}

\* The first number is 2^224 below the prime.
is_positive_refusals ==
  {is_positive_test(<<I(Prime - 2 * RangeCheckBound)>>, "ValueOutsideValidRange", NoCells),
   is_positive_test(<<I(2), I(4)>>, Inconsistent, NoCells)}

sqrt_test(cells, err, after) ==
  WithoutBuiltins(Test("sqrt", <<"value", "root">>, cells, err, after))

sqrt_tests ==
  {sqrt_test(<<I(81)>>, "ok", P(0, 1) :> I(9)),
   sqrt_test(<<I(-81)>>, "ValueOutside250BitRange", NoCells)}

sqrt_mismatched == {sqrt_test(<<I(81), I(7)>>, Inconsistent, NoCells)}

-----------------------------------------------------------------------------
unsigned_test(r, div, err, after) ==
  Test("unsigned_div_rem", <<"r", "q", "div", "value">>, <<r, None, I(div), I(7)>>, err, after)

unsigned_div_rem_success ==
  {unsigned_test(None, 5, "ok", P(0, 0) :> I(2) @@ P(0, 1) :> I(1))}
unsigned_div_rem_out_of_range == {unsigned_test(None, -5, "OutOfValidRange", NoCells)}
unsigned_div_rem_no_range_check_builtin ==
  {WithoutBuiltins(unsigned_test(None, 5, "NoRangeCheckBuiltin", NoCells))}
unsigned_div_rem_inconsistent == {unsigned_test(I(5), 5, Inconsistent, NoCells)}
unsigned_div_rem_incorrect_ids ==
  {WithIds(unsigned_test(None, 5, "IncorrectIds", NoCells), <<"a", "b", "iv", "vlue">>)}

signed_test(biased_q, div, value, err, after) ==
  Test("signed_div_rem", <<"r", "biased_q", "range_check_ptr", "div", "value", "bound">>,
       <<None, biased_q, None, I(div), I(value), I(29)>>, err, after)

signed_div_rem_success ==
  {signed_test(None, 5, 10, "ok", P(0, 0) :> I(0) @@ P(0, 1) :> I(31))}
signed_div_rem_negative_quotient ==
  {signed_test(None, 7, -10, "ok", P(0, 0) :> I(4) @@ P(0, 1) :> I(27))}
signed_div_rem_out_of_range == {signed_test(None, -5, 10, "OutOfValidRange", NoCells)}
signed_div_rem_no_range_check_builtin ==
  {WithoutBuiltins(signed_test(None, 5, 10, "NoRangeCheckBuiltin", NoCells))}
signed_div_rem_inconsistent == {signed_test(I(10), 5, 10, Inconsistent, NoCells)}
signed_div_rem_incorrect_ids ==
  {[signed_test(None, 5, 10, "IncorrectIds", NoCells) EXCEPT
      !.ids = "r" :> 2 @@ "b" :> 5 @@ "d" :> 3 @@ "v" :> 4]}

assert_250_bit_tests ==
  LET T(value, err, after) == Test("assert_250_bit", <<"value", "high", "low">>, <<I(value)>>,
                                   err, after)
  IN  {WithoutBuiltins(T(1, "ok", P(0, 1) :> I(0) @@ P(0, 2) :> I(1))),
       WithoutBuiltins(T(2 * TwoTo250, "ValueOutside250BitRange", NoCells))}

\* A pointer to the answers is next to the value.
split_felt_test(value, heap, err, after) ==
  [Test("split_felt", <<"value", "low", "high">>, <<value, P(1, 0)>>, err, after) EXCEPT
     !.references = <<Fp(-3), FpInner(-2, 0), FpInner(-2, 1)>>,
     !.data = << <<value, P(1, 0)>>, heap>>]

\* 21 * 2^128 and a low half.
ManyBits == I(21 * RangeCheckBound + 189)

split_felt_ok ==
  {split_felt_test(ManyBits, << >>, "ok", P(1, 0) :> I(189) @@ P(1, 1) :> I(21))}
split_felt_incorrect_ids ==
  {WithIds(split_felt_test(ManyBits, << >>, "IncorrectIds", NoCells), <<"value">>)}
split_felt_failed_to_get_ids ==
  {WithReferences(split_felt_test(ManyBits, << >>, "FailedToGetIds", NoCells),
                  <<Fp(0), FpInner(-2, 0), FpInner(-2, 1)>>)}
split_felt_fails_first_insert == {split_felt_test(ManyBits, <<I(99)>>, Inconsistent, NoCells)}
split_felt_fails_second_insert ==
  {split_felt_test(ManyBits, <<None, I(99)>>, Inconsistent, NoCells)}
split_felt_value_is_not_integer ==
  {split_felt_test(P(0, 0), << >>, "ExpectedInteger", NoCells)}

-----------------------------------------------------------------------------
assert_lt_felt_test(cells, err) == Test("assert_lt_felt", <<"a", "b">>, cells, err, NoCells)

assert_lt_felt_answers ==
  {assert_lt_felt_test(<<I(1), I(2)>>, "ok"), assert_lt_felt_test(<<I(3), I(2)>>, "AssertLtFelt")}

assert_lt_felt_not_found ==
  {WithIds(assert_lt_felt_test(<<I(1), I(2)>>, "IncorrectIds"), <<"a">>),
   WithReferences(assert_lt_felt_test(<<I(1)>>, "FailedToGetIds"), <<Fp(0), Fp(-1)>>)}

assert_lt_felt_refusals ==
  {assert_lt_felt_test(<<P(1, 0), I(2)>>, "ExpectedInteger"),
   assert_lt_felt_test(<<I(1), P(1, 0)>>, "ExpectedInteger")}

assert_lt_felt_unassigned == {assert_lt_felt_test(<<I(1)>>, "FailedToGetIds")}

loop_test(code, name, cells, err, after) ==
  [WithoutBuiltins(Test(code, <<name>>, <<None>> \o cells, err, after)) EXCEPT
     !.references = <<Fp(-2)>>, !.fp = P(0, 3)]

memcpy_enter_scope_tests ==
  LET T(len, err) == loop_test("memcpy_enter_scope", "len", <<len>>, err, NoCells)
  IN  {T(I(5), "ok"), T(P(0, 0), "ExpectedInteger")}

memcpy_continue_copying_tests ==
  LET T(cells, err) ==
        loop_test("memcpy_continue_copying", "continue_copying", cells, err, NoCells)
  IN  {WithLocal(T(<<None, I(5)>>, "ok"), "n", 1),
       T(<<None, I(5)>>, "VariableNotInScopeError"),
       WithLocal(T(<<I(5)>>, Inconsistent), "n", 1)}

exit_scope_tests ==
  {[Test("exit_scope", << >>, << >>, "ok", NoCells) EXCEPT !.scopes = <<NoScope, "a" :> 1>>],
   Test("exit_scope", << >>, << >>, "ExitMainScopeError", NoCells)}

enter_scope_tests ==
  {[Test("enter_scope", << >>, << >>, "ok", NoCells) EXCEPT
      !.expected.scopes = <<NoScope, NoScope>>]}

memset_enter_scope_tests ==
  LET T(n, err) == loop_test("memset_enter_scope", "n", <<n>>, err, NoCells)
  IN  {T(I(5), "ok"), T(P(0, 0), "ExpectedInteger")}

memset_continue_test(cells, err, after) ==
  loop_test("memset_continue_loop", "continue_loop", cells, err, after)

memset_continue_loop_answers ==
  {WithLocal(memset_continue_test(<<None, I(5)>>, "ok", P(0, 1) :> I(0)), "n", 1),
   WithLocal(memset_continue_test(<<None, I(5)>>, "ok", P(0, 1) :> I(1)), "n", 5)}

memset_continue_loop_refusals ==
  {memset_continue_test(<<None, I(5)>>, "VariableNotInScopeError", NoCells),
   WithLocal(memset_continue_test(<<I(5)>>, Inconsistent, NoCells), "n", 1)}

-----------------------------------------------------------------------------
\* The frame of the searches: two structs of two fields.
find_element_test(elm_size, n_elms, key, err, after) ==
  [Test("find_element", <<"array_ptr", "elm_size", "n_elms", "index", "key">>, << >>, err, after)
     EXCEPT !.data = << <<P(1, 0), elm_size, n_elms, None, key>>,
                        <<I(1), I(2), I(3), I(4)>> >>]

found(err) == find_element_test(I(2), I(2), I(3), err, P(0, 3) :> I(1))
sought(elm_size, n_elms, key, err) == find_element_test(elm_size, n_elms, key, err, NoCells)

find_element_answers ==
  {found("ok"), WithLocal(found("ok"), "find_element_index", 1),
   sought(I(2), I(2), I(7), "NoValueForKey"),
   WithLocal(sought(I(2), I(2), I(3), "KeyNotFound"), "find_element_index", 2)}

find_element_not_found ==
  LET failed == sought(I(2), I(2), I(3), "FailedToGetIds")
      refused == sought(I(2), I(2), I(3), "NoRangeCheckBuiltin")
  IN  {WithReferences(failed, <<Fp(-7)>> \o Tail(failed.references)),
       sought(I(2), None, I(3), "FailedToGetIds"),
       WithoutBuiltins(refused), [refused EXCEPT !.builtin_runners = <<"output">>],
       [sought(I(2), I(2), I(3), "ok") EXCEPT !.builtin_runners = <<"output", "range_check">>]}

find_element_refusals ==
  {sought(P(7, 8), I(2), I(3), "ExpectedInteger"), sought(I(0), I(2), I(3), "ValueOutOfRange"),
   sought(I(-1), I(2), I(3), "ValueOutOfRange"), sought(I(2), P(1, 2), I(3), "ExpectedInteger"),
   sought(I(2), I(-1), I(3), "ValueOutOfRange"),
   WithLocal(sought(I(2), I(2), I(3), "FindElemMaxSize"), "find_element_max_size", 1),
   sought(I(2), I(2), P(1, 2), "ExpectedInteger")}

set_add_test(set_ptr, elm_size, elm, err, after) ==
  [Test("set_add", <<"is_elm_in_set", "index", "set_ptr", "elm_size", "elm_ptr", "set_end_ptr">>,
        << >>, err, after) EXCEPT
     !.data = << <<None, None, set_ptr, elm_size, P(2, 0), P(1, 2)>>,
                 <<I(1), I(3), I(5), I(7)>>, elm>>]

refused_set(elm_size, err) == set_add_test(P(1, 0), elm_size, <<I(2), I(3)>>, err, NoCells)

set_add_answers ==
  {set_add_test(P(1, 0), I(2), <<I(2), I(3)>>, "ok", P(0, 0) :> I(0)),
   set_add_test(P(1, 0), I(2), <<I(1), I(3)>>, "ok", P(0, 0) :> I(1) @@ P(0, 1) :> I(0)),
   refused_set(P(7, 8), "ExpectedInteger"), refused_set(I(-2), "BigintToUsizeFail"),
   refused_set(I(0), "ValueNotPositive"),
   set_add_test(P(1, 3), I(2), <<I(2), I(3)>>, "InvalidSetRange", NoCells)}

set_add_refusals ==
  LET refused == refused_set(I(2), "NoRangeCheckBuiltin")
      failed  == refused_set(I(2), "FailedToGetIds")
  IN  {WithReferences(failed, <<Fp(-7)>> \o Tail(failed.references)),
       WithoutBuiltins(refused), [refused EXCEPT !.builtin_runners = <<"output">>],
       [refused_set(I(2), "ok") EXCEPT !.builtin_runners = <<"output", "range_check">>]}

-----------------------------------------------------------------------------
\* The fields of prev_locs are in front of locs.
pow_test(cells, err, after) ==
  [Test("pow", <<"prev_locs", "locs">>, <<None, None, None, None>> \o cells, err, after) EXCEPT
     !.ap = P(0, 5), !.references = <<Ap(-5, NoTracking), Ap(0, NoTracking)>>]

\* ap has moved by one since the references were made.
pow_ok ==
  {[pow_test(<<I(3)>>, "ok", P(0, 5) :> I(1)) EXCEPT
      !.ap = P(0, 6), !.tracking = Tracking(4, 4),
      !.references = <<Ap(-5, Tracking(4, 3)), Ap(0, Tracking(4, 3))>>]}

pow_not_found ==
  {[pow_test(<< >>, "IncorrectIds", NoCells) EXCEPT !.ids = "locs" :> 1],
   WithReferences(pow_test(<< >>, "FailedToGetIds", NoCells),
                  <<Ap(-5, NoTracking), Ap(-12, NoTracking)>>)}

pow_refusals ==
  {pow_test(<<P(0, 5)>>, "ExpectedInteger", NoCells),
   pow_test(<<I(3), I(3)>>, Inconsistent, NoCells)}

uint256_add_test(high, carries, err, after) ==
  [Test("uint256_add", <<"a", "b", "carry_high", "carry_low">>,
        <<I(2), I(3), I(4), high, None, None>> \o carries, err, after) EXCEPT
     !.references = <<Fp(-6), Fp(-4), Fp(1), Fp(0)>>, !.fp = P(0, 6)]

uint256_add_ok ==
  {uint256_add_test(I(RangeCheckBound), << >>, "ok", P(0, 6) :> I(0) @@ P(0, 7) :> I(1))}
uint256_add_fail_inserts == {uint256_add_test(I(2), <<I(2)>>, Inconsistent, NoCells)}

\* A number of two digits: its lower one, and the one above.
split_64_test(low, err, after) ==
  [Test("split_64", <<"a", "high", "low">>, <<I(7 * TwoTo64 + 11), None, None, low>>, err, after)
     EXCEPT !.references = <<Fp(-3), Fp(1), Fp(0)>>]

split_64_tests ==
  {split_64_test(None, "ok", P(0, 3) :> I(11) @@ P(0, 4) :> I(7)),
   split_64_test(I(0), Inconsistent, NoCells)}
=============================================================================
