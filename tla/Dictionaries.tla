---------------------------- MODULE Dictionaries -----------------------------
(***************************************************************************)
(* A program that creates dictionaries, accesses them, and squashes their  *)
(* accesses with Cairo's library, whose hints are DictHints and            *)
(* SquashHints.  An action is one hint with the library's instructions up  *)
(* to the next one: these are not part of this repository, and are here    *)
(* what its hints and its test programs (cairo_programs) take them to be.  *)
(* They assert what the hints only guess.  The first error ends the run.   *)
(***************************************************************************)
EXTENDS SquashHints

CONSTANTS
  Keys,         (* The keys of the accesses to dictionaries, as integers.  *)
  Vals,         (* The values, as integers.                                *)
  Programs      (* The programs: records with array, the accesses that it  *)
                (* writes by hand in segment 0, a sequence of cells;       *)
                (* initial_dict, what the user of the vm leaves in that    *)
                (* variable of the main scope, or None; and bounds on its  *)
                (* dictionaries, dicts, and on its accesses to them,       *)
                (* accesses.                                               *)

\* The integers are elements of the field, none negative.  A usize counts the
\* cells of a run, when they are relocated; it has 64 bits, and the bound of the
\* range checks is 2^128.
ASSUME ProgramsAssumption ==
  /\ Keys \subseteq Nat /\ Vals \subseteq Nat /\ None \notin Int
  /\ UsizeMax < RangeCheckBound
  /\ \A p \in Programs :
       /\ p.array \in Seq(Values \union {None})
       /\ \A i \in 1..Len(p.array) : IsInt(p.array[i]) => p.array[i].num \in Nat
       /\ p.initial_dict # None =>
            \A k \in DOMAIN p.initial_dict : p.initial_dict[k] \in Vals
       /\ p.accesses \in Nat
       /\ Len(p.array) + DictAccessSize * p.accesses <= UsizeMax

VARIABLES
  program,      (* The program that runs.                                  *)
  vm,           (* The fields of the vm the hints use.                     *)
  error,        (* The error that ended the run, "ok" if none has.         *)
  ptrs,         (* The program's dict_ptr for each segment: the offset     *)
                (* after the last access it made there.                    *)
  made,         (* How many accesses it made to its dictionaries.          *)
  answer,       (* What the last dict_read answered.                       *)
  reused,       (* History: an access was made at an old dict_ptr.         *)
  squash        (* The locals of squash_dict and squash_dict_inner; pc is  *)
                (* the hint that comes next, "done" outside of a call.     *)

vars == <<program, vm, error, ptrs, made, answer, reused, squash>>

Done == "done"
NoSquash ==
  [pc |-> Done, start |-> None, end |-> None, out |-> << >>, big_keys |-> None,
   key |-> None, remaining |-> None, index |-> None, used |-> None,
   first_value |-> None, value |-> None]

Init ==
  /\ program \in Programs
  /\ vm = [memory   |-> [EmptyMemory EXCEPT !.data = <<program.array>>],
           trackers |-> << >>,
           scopes   |-> <<IF program.initial_dict = None THEN << >>
                          ELSE [name \in {"initial_dict"} |-> program.initial_dict]>>]
  /\ ptrs = [s \in {0} |-> Len(program.array)] /\ made = 0
  /\ error = "ok" /\ answer = None /\ reused = FALSE
  /\ squash = NoSquash

\* What a call of the library leaves when it is not one of squash_dict.
Calls(outcome, s, ptr) ==
  /\ error = "ok" /\ squash.pc = Done
  /\ \E r \in {outcome} :
       /\ vm' = r.vm
       /\ error' = r.err
       /\ ptrs' = IF r.err = "ok" THEN Put(ptrs, s, ptr) ELSE ptrs
  /\ UNCHANGED <<program, squash>>

-----------------------------------------------------------------------------
(* Dictionaries.                                                           *)

\* dict_new and default_dict_new: a hint and a return.
NewDict ==
  /\ Cardinality(DOMAIN vm.trackers) < program.dicts
  /\ Calls(DictNew(vm), Len(vm.memory.data), 0)
  /\ UNCHANGED <<made, answer, reused>>

NewDefaultDict(default_value) ==
  /\ Cardinality(DOMAIN vm.trackers) < program.dicts
  /\ Calls(DefaultDictNew(vm, default_value), Len(vm.memory.data), 0)
  /\ UNCHANGED <<made, answer, reused>>

\* The library's instructions assert the fields of the access that are not
\* None: a field is assigned, or compared.
AssertedField(m, ptr, i, value) ==
  IF m.err # "ok" \/ value = None THEN m
  ELSE Insert(m.memory, AddUsize(ptr, i).val, value)

Asserted(r, ptr, fields) ==
  LET m0 == [memory |-> r.vm.memory, err |-> r.err]
      m1 == AssertedField(m0, ptr, 0, fields[1])
      m2 == AssertedField(m1, ptr, 1, fields[2])
      m3 == AssertedField(m2, ptr, 2, fields[3])
  IN  Answer([r.vm EXCEPT !.memory = m3.memory], m3.err, r.val)

\* The access after the last one of a dictionary, or an old one made again.
Pointers(s) ==
  {RelocatableValue(s, off) : off \in {o \in 0..ptrs[s] : (ptrs[s] - o) % DictAccessSize = 0}}

Access(r, ptr, fields) ==
  /\ made < program.accesses /\ made' = made + 1
  /\ Calls(Asserted(r, ptr, fields), ptr.seg,
           IF ptr.off = ptrs[ptr.seg] THEN ptr.off + DictAccessSize ELSE ptrs[ptr.seg])
  /\ reused' = (reused \/ ptr.off # ptrs[ptr.seg])

Read(key, ptr) ==
  LET r == DictRead(vm, key, ptr)
  IN  /\ Access(r, ptr, <<key, r.val, r.val>>)
      /\ answer' = IF error' = "ok" THEN r.val ELSE answer

Write(key, new_value, ptr) ==
  /\ Access(DictWrite(vm, key, new_value, ptr), ptr, <<key, None, new_value>>)
  /\ UNCHANGED answer

Update(key, prev_value, new_value, ptr) ==
  /\ Access(DictUpdate(vm, key, prev_value, new_value, ptr), ptr,
            <<key, prev_value, new_value>>)
  /\ UNCHANGED answer

-----------------------------------------------------------------------------
(* squash_dict.                                                            *)

\* The i-th access of a segment, from 0.
AccessAt(data, s, i) ==
  LET field(j) == Cell(data, RelocatableValue(s, DictAccessSize * i + j))
  IN  [key |-> field(0), prev_value |-> field(1), new_value |-> field(2)]

Complete(access) == IsInt(access.key) /\ IsInt(access.prev_value) /\ IsInt(access.new_value)

\* What the program takes for the end: its dict_ptr, the start, or an address
\* that is not the end of an access.
Ends(s) == {0, ptrs[s]} \union {end \in {ptrs[s] - 1} : end > 0}

\* The call, up to the first hint of squash_dict_inner.
CallSquash(s, end) ==
  LET entered == EnterScope(vm)
      r       == IF end = 0 THEN ExitScope(entered)
                 ELSE SquashDict(entered, RelocatableValue(s, 0), end, end \div DictAccessSize)
      begun   == [NoSquash EXCEPT !.start = s, !.end = end]
  IN  /\ error = "ok" /\ squash.pc = Done
      /\ vm' = r.vm
      /\ IF r.err # "ok" \/ end = 0
         THEN /\ error' = r.err
              /\ squash' = [begun EXCEPT !.pc = IF end = 0 THEN Done ELSE "first"]
         ELSE /\ error' = IF r.val.big_keys \/ InRange(IntValue(r.val.first_key))
                          THEN "ok" ELSE "NumOutOfBounds"
              /\ squash' = [begun EXCEPT !.pc = "first", !.big_keys = r.val.big_keys,
                                          !.key = r.val.first_key,
                                          !.remaining = end \div DictAccessSize]
      /\ UNCHANGED <<program, ptrs, made, answer, reused>>

\* A hint r, and what the library asserts of its guess.
Squashes(r, asserted, next) ==
  /\ vm' = r.vm
  /\ error' = IF r.err # "ok" THEN r.err ELSE IF asserted THEN "ok" ELSE "AssertFailed"
  /\ squash' = IF r.err = "ok" /\ asserted THEN next ELSE squash
  /\ UNCHANGED <<program, ptrs, made, answer, reused>>

At(pc) == error = "ok" /\ squash.pc = pc

\* The access at an index, if it is one of the key.
Found(i) == AccessAt(vm.memory.data, squash.start, i)
IsAccess(i) == Complete(Found(i)) /\ Found(i).key = IntValue(squash.key)

\* The guess is written to the segment of the range check builtin.
SquashFirst ==
  /\ At("first")
  /\ \E r \in {FirstIteration(vm)} :
       Squashes([r EXCEPT !.err = IF @ = "ok" THEN RuleError(IntValue(r.val)) ELSE @],
         IsAccess(r.val),
         [squash EXCEPT !.index = r.val, !.used = 1, !.pc = "skip",
                        !.first_value = Found(r.val).prev_value,
                        !.value = Found(r.val).new_value])

SquashSkip ==
  /\ At("skip")
  /\ \E r \in {SkipLoop(vm)} :
       Squashes(r, TRUE, [squash EXCEPT !.pc = IF r.val = 1 THEN "len" ELSE "check"])

SquashCheck ==
  /\ At("check")
  /\ \E r \in {CheckAccessIndex(vm)} :
       LET i == squash.index + r.val + 1
       IN  Squashes(r,
             InRange(IntValue(r.val)) /\ IsAccess(i) /\ Found(i).prev_value = squash.value,
             [squash EXCEPT !.index = i, !.used = @ + 1, !.value = Found(i).new_value,
                            !.pc = "continue"])

SquashContinue ==
  /\ At("continue")
  /\ \E r \in {ContinueLoop(vm)} :
       Squashes(r, TRUE, [squash EXCEPT !.pc = IF r.val = 1 THEN "check" ELSE "len"])

SquashLen ==
  /\ At("len")
  /\ Squashes(LenAssert(vm), InRange(IntValue(squash.end - 1 - DictAccessSize * squash.index)),
              [squash EXCEPT !.pc = "used"])

SquashUsed ==
  /\ At("used")
  /\ \E left \in {squash.remaining - squash.used} :
       Squashes(UsedAccessesAssert(vm, squash.used), TRUE,
         [squash EXCEPT
            !.out = Append(@, [key |-> IntValue(squash.key), prev_value |-> squash.first_value,
                               new_value |-> squash.value]),
            !.remaining = left, !.pc = IF left = 0 THEN "keys" ELSE "next"])

SquashKeys ==
  /\ At("keys")
  /\ Squashes(AssertLenKeys(vm), TRUE, [squash EXCEPT !.pc = "exit"])

SquashNext ==
  /\ At("next")
  /\ \E r \in {NextKey(vm)} :
       Squashes(r, IF squash.big_keys THEN r.val > squash.key
                                     ELSE InRange(IntValue(r.val - squash.key - 1)),
                [squash EXCEPT !.key = r.val, !.pc = "first"])

SquashExit ==
  /\ At("exit")
  /\ Squashes(ExitScope(vm), TRUE,
       [NoSquash EXCEPT !.start = squash.start, !.out = squash.out, !.end = squash.end])

SquashStep ==
  \/ SquashFirst
  \/ SquashSkip
  \/ SquashCheck
  \/ SquashContinue
  \/ SquashLen
  \/ SquashUsed
  \/ SquashKeys
  \/ SquashNext
  \/ SquashExit

Next ==
  \/ NewDict
  \/ \E v \in Vals : NewDefaultDict(IntValue(v))
  \/ \E s \in DOMAIN ptrs, k \in Keys : \E ptr \in Pointers(s) :
       \/ Read(IntValue(k), ptr)
       \/ \E v \in Vals : Write(IntValue(k), IntValue(v), ptr)
       \/ \E v, w \in Vals : Update(IntValue(k), IntValue(v), IntValue(w), ptr)
  \/ \E s \in DOMAIN ptrs : \E end \in Ends(s) : CallSquash(s, end)
  \/ SquashStep

Spec == Init /\ [][Next]_vars

-----------------------------------------------------------------------------
(* What makes the dictionaries correct.                                    *)

\* Where a key is accessed among the first n accesses of a segment.
Indices(s, n, key) ==
  Ascending({i \in 0..(n - 1) : AccessAt(vm.memory.data, s, i).key = key})

\* Each access of a key starts from the value the one before left.
Chained(s, n, key) ==
  LET at(i) == AccessAt(vm.memory.data, s, Indices(s, n, key)[i])
  IN  \A i \in 2..Len(Indices(s, n, key)) : at(i).prev_value = at(i - 1).new_value

\* What a key maps to: now, and when the dictionary was created.
Current(dict, key) ==
  IF key \in DOMAIN dict.entries THEN dict.entries[key] ELSE dict.default_value

Initial(dict, key) ==
  LET given == IF "initial_dict" \in DOMAIN vm.scopes[1] THEN vm.scopes[1]["initial_dict"]
                                                         ELSE << >>
  IN  Current([dict EXCEPT !.entries = given], key)

\* The accesses that a program has made through its dict_ptr replay to the
\* dictionary the manager holds outside of the memory: squash_dict, and the
\* proof of the run, only know the accesses.
LogReplays ==
  (error = "ok" /\ ~reused) =>
    \A s \in DOMAIN vm.trackers, k \in Keys :
      LET dict    == vm.trackers[s].data
          n       == ptrs[s] \div DictAccessSize
          indices == Indices(s, n, IntValue(k))
          at(i)   == AccessAt(vm.memory.data, s, i)
      IN  /\ vm.trackers[s].current_ptr = RelocatableValue(s, ptrs[s])
          /\ Chained(s, n, IntValue(k))
          /\ IF indices = << >> THEN Current(dict, k) = Initial(dict, k)
             ELSE /\ at(indices[1]).prev_value = IntValue(Initial(dict, k))
                  /\ at(Last(indices)).new_value = IntValue(Current(dict, k))

\* The accesses that squash_dict is to accept, and what it makes of them: for
\* each key in ascending order, the value before its first access and the
\* value after its last.
AccessedKeys(s, n) == {AccessAt(vm.memory.data, s, i).key.num : i \in 0..(n - 1)}

Squashable(s, end) ==
  /\ end % DictAccessSize = 0
  /\ \A i \in 0..(end \div DictAccessSize - 1) : Complete(AccessAt(vm.memory.data, s, i))
  /\ \A k \in AccessedKeys(s, end \div DictAccessSize) :
       Chained(s, end \div DictAccessSize, IntValue(k))

Squashed(s, n) ==
  LET keys == Ascending(AccessedKeys(s, n))
      at(i) == AccessAt(vm.memory.data, s, i)
  IN  [j \in 1..Len(keys) |->
         LET indices == Indices(s, n, IntValue(keys[j]))
         IN  [key |-> IntValue(keys[j]), prev_value |-> at(indices[1]).prev_value,
              new_value |-> at(Last(indices)).new_value]]

\* The hints guess right, however large the keys are: a call of squash_dict
\* passes exactly when its accesses have a squashed dictionary, and then its
\* output is that dictionary.
SquashExact ==
  /\ (error = "ok" /\ squash.pc = Done /\ squash.start # None) =>
        /\ Squashable(squash.start, squash.end)
        /\ squash.out = Squashed(squash.start, squash.end \div DictAccessSize)
  /\ (error # "ok" /\ squash.pc # Done) => ~Squashable(squash.start, squash.end)

\* The caller's variables are its own: squash_dict leaves the scope it was
\* called in as it found it.
CallerScopeKept ==
  [][/\ vm'.scopes[1] = vm.scopes[1]
     /\ (error' = "ok" /\ squash'.pc = Done) => Len(vm'.scopes) = 1]_vars

\* The dictionaries as maps.
Store == INSTANCE KeyValueStore WITH
  Key     <- Keys,
  Value   <- Vals,
  Nothing <- None,
  maps    <- [s \in DOMAIN vm.trackers |-> [k \in Keys |-> Current(vm.trackers[s].data, k)]],
  answer  <- IF answer = None THEN None ELSE answer.num

\* Every hint is a step of the maps, the ones that fail half way included: a
\* read answers what was written last, a lookup that stores the default
\* changes nothing, and no dictionary is confused with another.
ImplementsKeyValueStore == Store!Spec
=============================================================================
