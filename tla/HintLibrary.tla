----------------------------- MODULE HintLibrary -----------------------------
(***************************************************************************)
(* The hints of Cairo's common library that compute (vm/hints/hint_utils,  *)
(* uint256_utils, pow_utils, find_element_hint, set and memset_utils).     *)
(* Each reads variables of its frame, refuses values that the library does *)
(* not allow, and writes its answer to variables that have no value yet.   *)
(* A hint takes at, a function from the names of its variables to their    *)
(* addresses.  A vm has, beside the fields of HintVariables,               *)
(*   builtin_runners  the names of the builtins of the run, in order.      *)
(***************************************************************************)
EXTENDS HintVariables, MathUtils

CONSTANTS TwoTo64, TwoTo250  \* The powers of two that the hints compare with.

\* The range check bound is 2^128.
ASSUME PowersAssumption ==
  /\ TwoTo64 \in Nat \ {0} /\ RangeCheckBound = TwoTo64 * TwoTo64
  /\ TwoTo250 \in 1..(Prime - 1)

-----------------------------------------------------------------------------
(* How the hints find their variables, check them, and answer.             *)

\* The addresses of a hint that looks all of its variables up before it looks
\* at what it found.
Located(vm, ids, names, tracking, refusal) ==
  LET All(found) ==
        IF \E name \in names : found[name].err = "panic" THEN Err("panic")
        ELSE IF \E name \in names : found[name].err # "ok" \/ found[name].val = None
        THEN Err(refusal)
        ELSE Ok([name \in names |-> found[name].val])
  IN  IF ~(names \subseteq DOMAIN ids) THEN Err("IncorrectIds")
      ELSE All([name \in names |-> GetAddress(vm, ids[name], tracking)])

\* The addresses of a hint that looks its variables up one after the other.
LocatedInTurn(vm, ids, names, tracking) ==
  LET All(found) ==
        LET failed == {i \in 1..Len(names) : found[names[i]].err # "ok"}
        IN  IF failed # {} THEN Err(found[names[Min(failed)]].err)
            ELSE Ok([name \in Range(names) |-> found[name].val])
  IN  All([name \in Range(names) |-> AddressOfName(vm, name, ids, tracking)])

\* The value of a variable, and its number if it has one.
Value(vm, address) == Cell(vm.memory.data, address)
Num(v)  == IF IsInt(v) THEN v.num ELSE 0
Flag(b) == IntValue(IF b THEN 1 ELSE 0)

\* A field of a variable that is a struct.
Field(address, n) == [address EXCEPT !.off = @ + n]

\* get_range_check_builtin, and the search that most hints write out.
HasRangeCheck(vm) == "range_check" \in Range(vm.builtin_runners)

\* The first of a list of <<condition, error>> that holds refuses the hint.
FirstError(checks) ==
  LET failed == {i \in 1..Len(checks) : checks[i][1]}
  IN  IF failed = {} THEN "ok" ELSE checks[Min(failed)][2]

Checked(vm, checks, answer) ==
  IF FirstError(checks) = "ok" THEN answer ELSE Refuse(vm, FirstError(checks))

Assign(vm, address, value) ==
  LET Inserted(r) == Answer([vm EXCEPT !.memory = r.memory], r.err, None)
  IN  Inserted(Insert(vm.memory, address, value))

\* Two answers, the second of which is written even if the first is refused.
InsertBoth(vm, address1, value1, address2, value2) ==
  LET Both(first, second) ==
        IF first.err # "ok" THEN [second EXCEPT !.err = first.err] ELSE second
      After(first) == Both(first, Assign(first.vm, address2, value2))
  IN  After(Assign(vm, address1, value1))

\* Two answers, the second of which is written only after the first.
InsertInTurn(vm, address1, value1, address2, value2) ==
  LET After(first) == IF first.err # "ok" THEN first ELSE Assign(first.vm, address2, value2)
  IN  After(Assign(vm, address1, value1))

-----------------------------------------------------------------------------
(* Comparisons, which answer 0 or 1.                                       *)

\* What is_nn and is_nn_out_of_range have in common: 0 if a, or -a - 1, is in
\* range.
RangeFlag(vm, at, opposite) ==
  LET a      == Value(vm, at["a"])
      tested == IF opposite THEN -Num(a) - 1 ELSE Num(a)
  IN  Checked(vm, << <<a = None, "MemoryGet">>, <<~IsInt(a), "ExpectedInteger">>,
                     <<~HasRangeCheck(vm), "NoRangeCheckBuiltin">> >>,
              Assign(vm, vm.ap, Flag(tested % Prime >= RangeCheckBound)))

is_nn(vm, at)              == RangeFlag(vm, at, FALSE)
is_nn_out_of_range(vm, at) == RangeFlag(vm, at, TRUE)

\* Fault: the values are compared as they are.
is_le_felt_unsigned(vm, at) ==
  LET a == Value(vm, at["a"])
      b == Value(vm, at["b"])
  IN  Checked(vm, << <<None \in {a, b}, "FailedToGetIds">>,
                     <<~HasRangeCheck(vm), "NoRangeCheckBuiltin">>,
                     <<~IsInt(a) \/ ~IsInt(b), "NotImplemented">> >>,
              Assign(vm, vm.ap, Flag(Num(a) >= Num(b))))

is_le_felt(vm, at) ==
  LET a == Value(vm, at["a"])
      b == Value(vm, at["b"])
  IN  Checked(vm, << <<None \in {a, b}, "FailedToGetIds">>,
                     <<~HasRangeCheck(vm), "NoRangeCheckBuiltin">>,
                     <<~IsInt(a) \/ ~IsInt(b), "NotImplemented">> >>,
              Assign(vm, vm.ap, Flag(Num(a) % Prime > Num(b) % Prime)))

is_positive(vm, at) ==
  LET value == Value(vm, at["value"])
      n     == AsInt(Num(value), Prime)
  IN  Checked(vm, << <<value = None, "FailedToGetIds">>, <<~IsInt(value), "ExpectedInteger">>,
                     <<~HasRangeCheck(vm), "NoRangeCheckBuiltin">>,
                     <<AbsoluteOf(n) > RangeCheckBound, "ValueOutsideValidRange">> >>,
              Assign(vm, at["is_positive"], Flag(n > 0)))

\* small_inputs must have no value.  Its second half compares a - b.
assert_le_felt(vm, at) ==
  LET a == Value(vm, at["a"])
      b == Value(vm, at["b"])
      taken == Value(vm, at["small_inputs"]) # None
  IN  Checked(vm, << <<None \in {a, b} \/ taken, "FailedToGetIds">>,
                     <<~IsInt(a) \/ ~IsInt(b), "ExpectedInteger">>,
                     <<~HasRangeCheck(vm), "NoRangeCheckBuiltin">>,
                     <<Num(a) % Prime > Num(b) % Prime, "NonLeFelt">> >>,
              Assign(vm, at["small_inputs"],
                       Flag(Num(a) < RangeCheckBound /\ Num(a) - Num(b) < RangeCheckBound)))

-----------------------------------------------------------------------------
(* Assertions, which answer nothing.                                       *)

Assertion(vm, checks) == Checked(vm, checks, Answer(vm, "ok", None))

assert_lt_felt(vm, at) ==
  LET a == Value(vm, at["a"])
      b == Value(vm, at["b"])
  IN  Assertion(vm, << <<IsRel(a) \/ IsRel(b), "ExpectedInteger">>,
                       <<None \in {a, b}, "FailedToGetIds">>,
                       <<Num(a) % Prime >= Num(b) % Prime, "AssertLtFelt">> >>)

\* Two addresses are compared if they are of one segment.
assert_not_equal(vm, at) ==
  LET a == Value(vm, at["a"])
      b == Value(vm, at["b"])
      same == IF IsInt(a) THEN (Num(a) - Num(b)) % Prime = 0 ELSE a = b
  IN  Assertion(vm, << <<None \in {a, b}, "FailedToGetIds">>,
                       <<IsInt(a) # IsInt(b), "DiffTypeComparison">>,
                       <<IsRel(a) /\ IsRel(b) /\ a.seg # b.seg, "DiffIndexComp">>,
                       <<same, "AssertNotEqualFail">> >>)

assert_nn(vm, at) ==
  LET a == Value(vm, at["a"])
  IN  Assertion(vm, << <<a = None, "FailedToGetIds">>, <<~IsInt(a), "ExpectedInteger">>,
                       <<~HasRangeCheck(vm), "NoRangeCheckBuiltin">>,
                       <<Num(a) % Prime >= RangeCheckBound, "ValueOutOfRange">> >>)

assert_not_zero(vm, at) ==
  LET value == Value(vm, at["value"])
  IN  Assertion(vm, << <<value = None, "FailedToGetIds">>, <<~IsInt(value), "ExpectedInteger">>,
                       <<Num(value) % Prime = 0, "AssertNotZero">> >>)

split_int_assert_range(vm, at) ==
  LET value == Value(vm, at["value"])
  IN  Assertion(vm, << <<value = None, "MemoryGet">>, <<~IsInt(value), "ExpectedInteger">>,
                       <<Num(value) # 0, "SplitIntNotZero">> >>)

-----------------------------------------------------------------------------
(* Splits and roots.                                                       *)

\* The bound itself is let through.
split_int(vm, at) ==
  LET v(name) == Value(vm, at[name])
      base    == Num(v("base"))
      res     == IF base = 0 THEN 0 ELSE (Num(v("value")) % Prime) % base
      typed   == IsRel(v("output")) /\ \A name \in {"value", "base", "bound"} : IsInt(v(name))
  IN  Checked(vm, << <<~typed, "FailedToGetIds">>, <<base = 0, "panic">>,
                     <<res > Num(v("bound")), "SplitIntLimbOutOfRange">> >>,
              Assign(vm, v("output"), IntValue(res)))

\* Fault: high and low change places.
split_felt_swapped(vm, at) ==
  LET value == Value(vm, at["value"])
  IN  Checked(vm, << <<value = None, "FailedToGetIds">>, <<~IsInt(value), "ExpectedInteger">> >>,
              InsertBoth(vm, at["high"], IntValue(Num(value) % RangeCheckBound),
                             at["low"], IntValue(Num(value) \div RangeCheckBound)))

split_felt(vm, at) ==
  LET value == Value(vm, at["value"])
  IN  Checked(vm, << <<value = None, "FailedToGetIds">>, <<~IsInt(value), "ExpectedInteger">> >>,
              InsertBoth(vm, at["low"], IntValue(Num(value) % RangeCheckBound),
                             at["high"], IntValue(Num(value) \div RangeCheckBound)))

\* UPPER_BOUND itself is let through; high is written first.
assert_250_bit(vm, at) ==
  LET value == Value(vm, at["value"])
      n     == AsInt(Num(value), Prime) % Prime
  IN  Checked(vm, << <<value = None, "MemoryGet">>, <<~IsInt(value), "ExpectedInteger">>,
                     <<n > TwoTo250, "ValueOutside250BitRange">> >>,
              InsertInTurn(vm, at["high"], IntValue(n \div RangeCheckBound),
                               at["low"], IntValue(n % RangeCheckBound)))

\* Two of the digits of the magnitude of a, which may have more.  a is checked
\* before the other variables are looked up.
split_64(vm, ids, tracking) ==
  LET Digit(a, n) == IntValue((AbsoluteOf(Num(a)) \div n) % TwoTo64)
      Split(a, others) ==
        IF ~IsInt(a) THEN Refuse(vm, "ExpectedInteger")
        ELSE IF others.err # "ok" THEN Refuse(vm, others.err)
        ELSE InsertInTurn(vm, others.val["low"], Digit(a, 1),
                              others.val["high"], Digit(a, TwoTo64))
      Found(of_a) ==
        IF of_a.err # "ok" THEN Refuse(vm, of_a.err)
        ELSE Split(Value(vm, of_a.val["a"]), LocatedInTurn(vm, ids, <<"high", "low">>, tracking))
  IN  Found(LocatedInTurn(vm, ids, <<"a">>, tracking))

sqrt(vm, at) ==
  LET value == Value(vm, at["value"])
      n     == Num(value) % Prime
  IN  Checked(vm, << <<value = None, "FailedToGetIds">>, <<~IsInt(value), "ExpectedInteger">>,
                     <<n >= TwoTo250, "ValueOutside250BitRange">> >>,
              Assign(vm, at["root"], IntValue(Isqrt(n))))

\* The lowest bit of a field of prev_locs, to the first field of locs.
pow(vm, at) ==
  LET exp == Value(vm, Field(at["prev_locs"], 4))
  IN  Checked(vm, << <<~IsInt(exp), "ExpectedInteger">> >>,
              Assign(vm, at["locs"], IntValue((Num(exp) % Prime) % 2)))

\* The low halves are added first; the carries are written high, then low.
uint256_add(vm, at) ==
  LET half(name, n) == Value(vm, Field(at[name], n))
      sum(n)        == Num(half("a", n)) + Num(half("b", n))
      carry_low     == IF sum(0) >= RangeCheckBound THEN 1 ELSE 0
      carry_high    == IF sum(1) + carry_low >= RangeCheckBound THEN 1 ELSE 0
  IN  Checked(vm, << <<\E name \in {"a", "b"}, n \in 0..1 : ~IsInt(half(name, n)),
                       "ExpectedInteger">> >>,
              InsertInTurn(vm, at["carry_high"], IntValue(carry_high),
                               at["carry_low"], IntValue(carry_low)))

-----------------------------------------------------------------------------
(* Divisions, by a divisor that leaves room for the quotient's check.      *)

\* Fault: the largest divisor is left out.
DivisorNotBelow(div) == div <= 0 \/ div >= Prime \div RangeCheckBound

DivisorOutOfRange(div) == div <= 0 \/ div > Prime \div RangeCheckBound

\* div_mod_floor
Quotient(n, div) == n \div div

signed_div_rem(vm, at) ==
  LET v(name) == Value(vm, at[name])
      div     == Num(v("div"))
      bound   == Num(v("bound"))
      n       == AsInt(Num(v("value")), Prime)
      q       == IF div <= 0 THEN 0 ELSE Quotient(n, div)
  IN  Checked(vm, << <<None \in {v("div"), v("value"), v("bound")}, "FailedToGetIds">>,
                     <<~HasRangeCheck(vm), "NoRangeCheckBuiltin">>,
                     <<~IsInt(v("div")), "ExpectedInteger">>,
                     <<DivisorOutOfRange(div), "OutOfValidRange">>,
                     <<~IsInt(v("bound")), "ExpectedInteger">>,
                     <<bound > RangeCheckBound \div 2, "OutOfValidRange">>,
                     <<~IsInt(v("value")), "ExpectedInteger">>,
                     <<-bound > q \/ q >= bound, "OutOfValidRange">> >>,
              InsertBoth(vm, at["r"], IntValue(n - q * div),
                             at["biased_q"], IntValue(q + bound)))

\* The range check builtin must be the first; value is not reduced.
unsigned_div_rem(vm, at) ==
  LET value == Value(vm, at["value"])
      div   == Value(vm, at["div"])
      first == vm.builtin_runners # << >> /\ Head(vm.builtin_runners) = "range_check"
  IN  Checked(vm, << <<None \in {div, value}, "FailedToGetIds">>,
                     <<~IsInt(div), "ExpectedInteger">>,
                     <<~first, "NoRangeCheckBuiltin">>,
                     <<DivisorOutOfRange(Num(div)), "OutOfValidRange">>,
                     <<~IsInt(value), "NotImplemented">> >>,
              InsertBoth(vm, at["r"], IntValue(Num(value) % Num(div)),
                             at["q"], IntValue(TruncDiv(Num(value), Num(div)))))

-----------------------------------------------------------------------------
(* Searches in the memory.                                                 *)

\* The value where a search looks: its error is the memory's or the sum's.
ValueAt(vm, address) ==
  IF address.err # "ok" THEN address ELSE Get(vm.memory, address.val)

\* An array search, from the i-th element on.
FindFrom(vm, at, array_ptr, elm_size, n_elms, key) ==
  LET find[i \in 0..n_elms, address \in Values] ==
        LET found == Get(vm.memory, address)
            next  == AddIntMod(address, elm_size)
        IN  IF i = n_elms
            THEN Refuse(vm, IF IsInt(key) THEN "NoValueForKey" ELSE "ExpectedInteger")
            ELSE IF found.err # "ok"   THEN Refuse(vm, found.err)
            ELSE IF found.val = None   THEN Refuse(vm, "KeyNotFound")
            ELSE IF found.val = key    THEN Assign(vm, at["index"], IntValue(i))
            ELSE IF next.err # "ok"    THEN Refuse(vm, next.err)
            ELSE find[i + 1, next.val]
  IN  find[0, array_ptr]

\* delete_variable
DeleteVariable(vm, name) ==
  [vm EXCEPT !.scopes[Len(vm.scopes)] = Restrict(@, DOMAIN @ \ {name})]

\* An index that the scope proposes.
FindGiven(vm, at, array_ptr, elm_size, index, key) ==
  LET found    == ValueAt(vm, AddIntMod(array_ptr, elm_size * index))
      inserted == Assign(vm, at["index"], IntValue(index))
  IN  IF found.err # "ok"        THEN Refuse(vm, found.err)
      ELSE IF found.val = None   THEN Refuse(vm, "KeyNotFound")
      ELSE IF found.val # key    THEN Refuse(vm, "InvalidIndex")
      ELSE IF inserted.err # "ok" THEN inserted
      ELSE Answer(DeleteVariable(inserted.vm, "find_element_index"), "ok", None)

find_element(vm, at) ==
  LET v(name)  == Value(vm, at[name])
      elm_size == v("elm_size")
      n_elms   == v("n_elms")
      index    == Local(vm, "find_element_index")
      max_size == Local(vm, "find_element_max_size")
  IN  Checked(vm, << <<None \in {elm_size, n_elms, v("key")}, "FailedToGetIds">>,
                     <<~HasRangeCheck(vm), "NoRangeCheckBuiltin">>,
                     <<~IsInt(elm_size), "ExpectedInteger">>,
                     <<Num(elm_size) <= 0, "ValueOutOfRange">>,
                     <<index = None /\ ~IsInt(n_elms), "ExpectedInteger">>,
                     <<index = None /\ Num(n_elms) < 0, "ValueOutOfRange">>,
                     <<index = None /\ max_size # None /\ Num(n_elms) > max_size,
                       "FindElemMaxSize">>,
                     <<index = None /\ Num(n_elms) > OffsetMax, "OffsetExceeded">>,
                     <<v("array_ptr") = None, "KeyNotFound">> >>,
              IF index # None
              THEN FindGiven(vm, at, v("array_ptr"), Num(elm_size), index, v("key"))
              ELSE FindFrom(vm, at, v("array_ptr"), Num(elm_size), Num(n_elms), v("key")))

\* get_range: the cells from an address on.
GetRange(vm, address, size) ==
  [i \in 1..size |-> Value(vm, AddUsize(address, i - 1).val)]

\* The order of MaybeRelocatable: addresses, by segment and offset, then ints.
Exceeds(v, w) ==
  IF IsInt(v) THEN ~IsInt(w) \/ v.num > w.num
  ELSE IsRel(v) /\ IsRel(w) /\ (v.seg > w.seg \/ (v.seg = w.seg /\ v.off > w.off))

ElementOffsets(limit, elm_size) == {i \in 0..(limit - 1) : i % elm_size = 0}

\* The number of cells of the set is the usize that is searched.
set_add(vm, at) ==
  LET v(name)  == Value(vm, at[name])
      elm_size == Num(v("elm_size"))
      span     == Sub(v("set_end_ptr"), v("set_ptr"))
      elm      == GetRange(vm, v("elm_ptr"), elm_size)
      same     == {i \in ElementOffsets(Num(span.val), elm_size) :
                     GetRange(vm, AddUsize(v("set_ptr"), i).val, elm_size) = elm}
  IN  Checked(vm, << <<None \in {v("set_ptr"), v("elm_size"), v("elm_ptr"), v("set_end_ptr")},
                       "FailedToGetIds">>,
                     <<~HasRangeCheck(vm), "NoRangeCheckBuiltin">>,
                     <<~IsInt(v("elm_size")), "ExpectedInteger">>,
                     <<elm_size = 0, "ValueNotPositive">>,
                     <<elm_size \notin 0..UsizeMax, "BigintToUsizeFail">>,
                     <<~IsRel(v("elm_ptr")), "AddressNotRelocatable">>,
                     <<Exceeds(v("set_ptr"), v("set_end_ptr")), "InvalidSetRange">>,
                     <<span.err # "ok", span.err>>,
                     <<Num(span.val) \notin 0..UsizeMax, "BigintToUsizeFail">>,
                     <<~IsRel(v("set_ptr")) /\ Num(span.val) > 0, "AddressNotRelocatable">> >>,
              IF same = {} THEN Assign(vm, at["is_elm_in_set"], IntValue(0))
              ELSE InsertInTurn(vm, at["index"], IntValue(Min(same) \div elm_size),
                                    at["is_elm_in_set"], IntValue(1)))

-----------------------------------------------------------------------------
(* Scopes and loops.  memcpy and memset count their rounds in a scope.     *)

\* add_segment
AddSegment(vm) ==
  Assign([vm EXCEPT !.memory = WithNewSegment(@)], vm.ap,
         RelocatableValue(Len(vm.memory.data), 0))

\* memcpy_enter_scope and memset_enter_scope
EnterLoop(vm, address) ==
  LET n == Value(vm, address)
  IN  Checked(vm, << <<n = None, "FailedToGetIds">>, <<~IsInt(n), "ExpectedInteger">> >>,
              Answer([vm EXCEPT !.scopes = Append(@, [name \in {"n"} |-> Num(n)])], "ok", None))

\* Fault: n is not counted down.
NextRoundForever(vm, address) ==
  LET n == Local(vm, "n")
  IN  IF n = None THEN Refuse(vm, "VariableNotInScopeError")
      ELSE Assign(vm, address, Flag(n - 1 > 0))

\* Fault: n is compared before it is counted down.
NextRoundOnceMore(vm, address) ==
  LET n     == Local(vm, "n")
      asked == Assign(vm, address, Flag(n > 0))
  IN  IF n = None THEN Refuse(vm, "VariableNotInScopeError")
      ELSE IF asked.err # "ok" THEN asked
      ELSE Answer(AssignVariable(asked.vm, "n", n - 1), "ok", None)

\* memcpy_continue_copying and memset_continue_loop: n is counted down last.
NextRound(vm, address) ==
  LET n     == Local(vm, "n")
      asked == Assign(vm, address, Flag(n - 1 > 0))
  IN  IF n = None THEN Refuse(vm, "VariableNotInScopeError")
      ELSE IF asked.err # "ok" THEN asked
      ELSE Answer(AssignVariable(asked.vm, "n", n - 1), "ok", None)

-----------------------------------------------------------------------------
(* execute_hint, for the hints of this module: most are not told where ap  *)
(* stands, whatever the tracking of the program is.                        *)

RunHint(vm, code, ids, tracking) ==
  LET Run(hint(_, _), located) ==
        IF located.err # "ok" THEN Refuse(vm, located.err) ELSE hint(vm, located.val)
      All(names)       == Located(vm, ids, names, None, "FailedToGetIds")
      Referenced(name) == Located(vm, ids, {name}, None, "FailedToGetReference")
      Followed(names)  == Located(vm, ids, names, tracking, "FailedToGetIds")
      InTurn(names)    == LocatedInTurn(vm, ids, names, None)
      Loop(hint(_, _), name) ==
        Run(LAMBDA v, at : hint(v, at[name]), LocatedInTurn(vm, ids, <<name>>, tracking))
  IN  CASE code = "add_segment"        -> AddSegment(vm)
        [] code = "is_nn"              -> Run(is_nn, Referenced("a"))
        [] code = "is_nn_out_of_range" -> Run(is_nn_out_of_range, Referenced("a"))
        [] code = "is_le_felt"         -> Run(is_le_felt, All({"a", "b"}))
        [] code = "assert_le_felt"     -> Run(assert_le_felt, All({"a", "b", "small_inputs"}))
        [] code = "assert_250_bit"     -> Run(assert_250_bit, All({"value", "high", "low"}))
        [] code = "is_positive"        -> Run(is_positive, Followed({"value", "is_positive"}))
        [] code = "split_int_assert_range" ->
             Run(split_int_assert_range, Referenced("value"))
        [] code = "split_int"      -> Run(split_int, All({"output", "value", "base", "bound"}))
        [] code = "assert_not_equal"   -> Run(assert_not_equal, All({"a", "b"}))
        [] code = "assert_nn"          -> Run(assert_nn, All({"a"}))
        [] code = "sqrt"               -> Run(sqrt, All({"value", "root"}))
        [] code = "assert_not_zero"    -> Run(assert_not_zero, Referenced("value"))
        [] code = "exit_scope"         -> ExitScope(vm)
        [] code = "enter_scope"        -> Answer(EnterScope(vm), "ok", None)
        [] code = "memcpy_enter_scope"      -> Loop(EnterLoop, "len")
        [] code = "memset_enter_scope"      -> Loop(EnterLoop, "n")
        [] code = "memcpy_continue_copying" -> Loop(NextRound, "continue_copying")
        [] code = "memset_continue_loop"    -> Loop(NextRound, "continue_loop")
        [] code = "split_felt"         -> Run(split_felt, All({"high", "low", "value"}))
        [] code = "unsigned_div_rem"   -> Run(unsigned_div_rem, All({"r", "q", "div", "value"}))
        [] code = "signed_div_rem"     ->
             Run(signed_div_rem,
                 All({"r", "biased_q", "range_check_ptr", "div", "value", "bound"}))
        [] code = "assert_lt_felt"     -> Run(assert_lt_felt, All({"a", "b"}))
        [] code = "find_element"       ->
             Run(find_element, InTurn(<<"array_ptr", "elm_size", "n_elms", "index", "key">>))
        [] code = "pow"                -> Run(pow, Followed({"prev_locs", "locs"}))
        [] code = "set_add"            ->
             Run(set_add, InTurn(<<"is_elm_in_set", "index", "set_ptr", "elm_size", "elm_ptr",
                                   "set_end_ptr">>))
        [] code = "uint256_add"        ->
             Run(uint256_add, InTurn(<<"a", "b", "carry_high", "carry_low">>))
        [] code = "split_64"           -> split_64(vm, ids, None)
        [] code = "not utf-8"          -> Refuse(vm, "InvalidHintEncoding")
        [] OTHER                       -> Refuse(vm, "UnknownHint")
=============================================================================
