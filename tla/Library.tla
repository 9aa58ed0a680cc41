------------------------------- MODULE Library -------------------------------
(***************************************************************************)
(* One hint of the library is executed in a frame.                         *)
(***************************************************************************)
EXTENDS HintFrames

CONSTANT Calls  \* Calls, as in HintFrames.

VARIABLES
  call,     (* The call.                                                   *)
  vm,       (* The vm.                                                     *)
  outcome   (* The error of the hint, "ok" without, None before it ran.    *)

vars == <<call, vm, outcome>>

Init == call \in Calls /\ vm = VmOf(call) /\ outcome = None

\* execute_hint
Execute ==
  /\ outcome = None
  /\ \E run \in {ExecuteHint(vm, call.code, call.ids, call.tracking)} :
       vm' = run.vm /\ outcome' = run.err
  /\ UNCHANGED call

Next == Execute

Spec == Init /\ [][Next]_vars

-----------------------------------------------------------------------------
\* A variable of the frame, its value, and its number in the field.
At(name)   == AddressOfName(VmOf(call), name, call.ids, call.tracking).val
Var(name)  == Value(vm, At(name))
Felt(name) == Num(Var(name)) % Prime
FlagAtAp   == Num(Value(vm, vm.ap))

RangeChecked(n) == n % Prime < RangeCheckBound
Signed(n) == IF n % Prime <= Prime \div 2 THEN n % Prime ELSE (n % Prime) - Prime

Half(name, n) == Num(Value(vm, Field(At(name), n)))
Wide(name)    == Half(name, 0) + Half(name, 1) * RangeCheckBound

\* The key of an element of an array, and whether a set holds an element.
KeyAt(i) == Value(vm, Field(Var("array_ptr"), i * Felt("elm_size")))
ElementAt(address) == [i \in 0..(Felt("elm_size") - 1) |-> Value(vm, Field(address, i))]
SetSize == (Var("set_end_ptr").off - Var("set_ptr").off) \div Felt("elm_size")
IsAt(i) == ElementAt(Field(Var("set_ptr"), i * Felt("elm_size"))) = ElementAt(Var("elm_ptr"))

\* What the comment of a hint and the instructions after it assert of its
\* answer, and what the answer has to be for their result to be right.
Accepted ==
  CASE call.code = "is_nn"              -> (FlagAtAp = 0) <=> RangeChecked(Felt("a"))
    [] call.code = "is_nn_out_of_range" -> (FlagAtAp = 0) <=> RangeChecked(-Felt("a") - 1)
    [] call.code = "is_le_felt"         -> (FlagAtAp = 0) <=> Felt("a") <= Felt("b")
    [] call.code = "assert_le_felt"     ->
         /\ Felt("a") <= Felt("b")
         /\ (Felt("small_inputs") = 1) <=>
              (RangeChecked(Felt("a")) /\ RangeChecked(Felt("b") - Felt("a")))
    [] call.code = "assert_lt_felt"     -> Felt("a") < Felt("b")
    [] call.code = "assert_nn"          -> RangeChecked(Felt("a"))
    [] call.code = "assert_not_zero"    -> Felt("value") # 0
    [] call.code = "assert_not_equal"   ->
         IF IsInt(Var("a")) THEN Felt("a") # Felt("b") ELSE Var("a") # Var("b")
    [] call.code = "is_positive"        ->
         \/ Felt("is_positive") = 1 /\ Felt("value") # 0 /\ RangeChecked(Felt("value"))
         \/ Felt("is_positive") = 0 /\ RangeChecked(-Felt("value"))
    [] call.code = "split_int"          ->
         \E limb \in {Num(Value(vm, Var("output")))} :
           /\ limb < Felt("base") /\ limb < Felt("bound")
           /\ (Felt("value") - limb) % Felt("base") = 0
    [] call.code = "split_felt"         ->
         /\ RangeChecked(Felt("low")) /\ Felt("high") <= (Prime - 1) \div RangeCheckBound
         /\ Felt("value") = Felt("high") * RangeCheckBound + Felt("low")
    [] call.code = "assert_250_bit"     ->
         /\ RangeChecked(Felt("low")) /\ Felt("high") < TwoTo250 \div RangeCheckBound
         /\ Felt("value") = Felt("high") * RangeCheckBound + Felt("low")
    [] call.code = "sqrt"               ->
         Felt("root") * Felt("root") <= Felt("value")
           /\ Felt("value") < (Felt("root") + 1) * (Felt("root") + 1)
    [] call.code = "pow"                ->
         (Half("prev_locs", 4) - Felt("locs")) % 2 = 0 /\ Felt("locs") \in 0..1
    [] call.code = "split_64"           ->
         Felt("low") < TwoTo64 /\ Felt("a") = Felt("low") + Felt("high") * TwoTo64
    [] call.code = "uint256_add"        ->
         \E sum \in {Wide("a") + Wide("b") - Felt("carry_high") * RangeCheckBound * RangeCheckBound} :
           /\ sum \in 0..(RangeCheckBound * RangeCheckBound - 1)
           /\ RangeChecked(Half("a", 0) + Half("b", 0) - Felt("carry_low") * RangeCheckBound)
    [] call.code = "unsigned_div_rem"   ->
         /\ Felt("r") < Felt("div")
         /\ Felt("q") * Felt("div") + Felt("r") = Felt("value")
    [] call.code = "signed_div_rem"     ->
         /\ Felt("r") < Felt("div") /\ RangeChecked(Felt("biased_q"))
         /\ Felt("biased_q") < 2 * Felt("bound")
         /\ (Felt("biased_q") - Felt("bound")) * Felt("div") + Felt("r") = Signed(Felt("value"))
    [] call.code = "find_element"       ->
         Felt("index") < Felt("n_elms") /\ KeyAt(Felt("index")) = Var("key")
    [] call.code = "set_add"            ->
         IF Felt("is_elm_in_set") = 1 THEN Felt("index") < SetSize /\ IsAt(Felt("index"))
         ELSE \A i \in 0..(SetSize - 1) : ~IsAt(i)
    [] OTHER -> TRUE

\* Why a hint says that the values it was given are not allowed.
ValueErrors ==
  {"NonLeFelt", "AssertLtFelt", "ValueOutOfRange", "AssertNotZero", "AssertNotEqualFail",
   "ValueOutsideValidRange", "SplitIntLimbOutOfRange", "ValueOutside250BitRange",
   "OutOfValidRange", "NoValueForKey"}

\* Some answer to the values of the variables would be accepted.
HasAnswer ==
  CASE call.code = "assert_le_felt"   -> Felt("a") <= Felt("b")
    [] call.code = "assert_lt_felt"   -> Felt("a") < Felt("b")
    [] call.code = "assert_nn"        -> RangeChecked(Felt("a"))
    [] call.code = "assert_not_zero"  -> Felt("value") # 0
    [] call.code = "assert_not_equal" -> Var("a") # Var("b") /\ Felt("a") # Felt("b")
    [] call.code = "is_positive"      -> RangeChecked(Felt("value")) \/ RangeChecked(-Felt("value"))
    [] call.code = "split_int"        -> Felt("value") % Felt("base") < Felt("bound")
    [] call.code = "assert_250_bit"   -> Felt("value") < TwoTo250
    [] call.code = "sqrt"             -> Felt("value") < TwoTo250
    [] call.code = "unsigned_div_rem" -> Felt("div") \in 1..(Prime \div RangeCheckBound)
    [] call.code = "signed_div_rem"   ->
         /\ Felt("div") \in 1..(Prime \div RangeCheckBound)
         /\ 2 * Felt("bound") <= RangeCheckBound
         /\ \E q \in (-Felt("bound"))..(Felt("bound") - 1), r \in 0..(Felt("div") - 1) :
              (q * Felt("div") + r) % Prime = Felt("value")
    [] call.code = "find_element"     ->
         Felt("elm_size") > 0 /\ \E i \in 0..(Felt("n_elms") - 1) : KeyAt(i) = Var("key")
    [] OTHER -> FALSE

\* The answer of a hint satisfies the assertions that the library makes of it
\* and is the right one: an honest run is not stopped by its own hint.
AnswersAreAccepted == (outcome = "ok" /\ call.expected = None) => Accepted

\* A hint refuses no values for which there is an answer.
NothingTrueRefused == (outcome \in ValueErrors /\ call.expected = None) => ~HasAnswer

\* The hints do what the tests of the repository expect.
AsTested ==
  (outcome # None /\ call.expected # None) =>
    /\ outcome = call.expected.err
    /\ \A address \in DOMAIN call.expected.cells :
         Value(vm, address) = call.expected.cells[address]
    /\ call.expected.scopes # None => vm.scopes = call.expected.scopes
    /\ call.expected.trackers # None => vm.trackers = call.expected.trackers
=============================================================================
