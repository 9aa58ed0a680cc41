# A verification of the Cairo virtual machine

cleopatra_cairo runs compiled Cairo programs: it loads a program into a
segmented memory, executes its instructions one after the other, runs the hints
that are attached to them, checks the builtins, and relocates the memory and
the trace into one address space. It is a sequential program. What makes it
hard is not concurrency but its protocols: a memory that must never change a
cell, deductions that fill in operands in a fixed order, caches and lists of
what was "already verified", calls that stop half way, and steps that every
other part relies on having happened before.

This directory holds TLA+ modules of the parts of that program, the
instances that TLC checks, and proofs that TLAPS checks. `PROJECT.json` lists
the components, the runs, what every definition models, the hazards and the
findings.

## The system

| part | state | operations | what makes it correct |
|---|---|---|---|
| values, `types/relocatable.rs` | none | add, subtract, relocate: an integer of the field, or an address (segment, offset) | no sum or difference turns into another cell's address |
| memory, `vm/vm_memory/memory.rs` | segments of cells, validated addresses, validation rules | insert, get, add a rule, validate a cell, validate everything | a cell is assigned once; a cell under a rule satisfies it |
| segment manager, `memory_segments.rs` | the number of segments, the cached sizes | add, load_data, compute sizes, relocation table | its count agrees with the memory; sizes fit what they are used for |
| decoder, `vm/decoding/decoder.rs` | none | a word to an instruction | one word, one instruction |
| run context, `vm/context/run_context.rs` | pc, ap, fp | operand addresses | |
| VM core, `vm/vm_core.rs` | the above, builtins, hints, trace, step count | step, verify_auto_deductions | a step executes the instruction at pc in the memory it leaves |
| builtin runners, `vm/runners/builtin_runner.rs` | base of the segment, pedersen's verified addresses | deduce a cell, add a rule | what is deduced is what ends up in memory; a curve operation adds as the group does |
| runner, `vm/runners/cairo_runner.rs` | bases, initial registers, relocated memory and trace | set up, run, relocate, output | calls in the order of `cairo_run` give exact results |
| `cairo_run.rs`, `main.rs` | none | the order of the runner's calls; files | |
| dictionaries, `dict_manager.rs`, `dict_hint_utils.rs` | a tracker for each dictionary's segment: its entries, a pointer | create, read, write, update | a dictionary is a map, and the accesses in its segment replay to it |
| squash, `squash_dict_utils.rs` | scope variables: the keys and the accesses still to come | nine guesses for the library's loop | a squash passes exactly when every access follows from the one before |
| execution scopes, `types/exec_scope.rs` | a stack of named values | enter, exit, look up, assign | a caller finds its variables as it left them |
| ids variables, `cairo_runner.rs:227-296`, `hint_utils.rs:48-200` | the reference list, the hint dictionary | find the address of a variable | a hint gets the address its variable had where it was defined, however ap has moved since |
| the other hints, `vm/hints/*`, `execute_hint.rs` | none | some forty hint codes, found by their text | the answer passes the assertions the library makes of it, and no values that have an answer are refused |
| memcpy and memset, `hint_utils.rs:1411`, `memset_utils.rs` | a counter in a scope, a flag in memory | enter, continue | they write what was asked, keep the caller's scopes, and return |
| program, `serde/*`, `types/program.rs` | none | parse the compiled program | |
| `math_utils.rs` | none | isqrt, modular inverse, curve arithmetic | |

How they interact: everything is a direct call. The VM core asks the run context
for addresses, the memory for contents, the builtin runners for deductions, and
writes back through `Memory::insert`, which calls the rule a builtin left in the
memory. Hints get the whole VM and do the same. The runner sets all of it up and
reads it at the end. The shared state is the memory, the sizes cached by
whoever asked first, and the pedersen runner's list.

The errors of the code are `Result`s passed to the caller by `?`; what had been
written by then stays. A few conditions panic instead. Both are modelled:
operators return an `err`, and a panic ends the run.

## Modules

The modules are written bottom up. Those of the lower half have no variables:
an operator takes a value of a Rust struct and returns the value the method
leaves behind, with its result.

* `MaybeRelocatable` values and their arithmetic: errors, panics, the width of
  `usize`, Rust's truncating division.
* `MemoryCells` the methods of `Memory` and `MemorySegmentManager`. Loops that
  stop at an error are closed forms here; `Memory` states that they are the
  loops.
* `Memory` the two as a component of its own: one action per public method,
  called in any order, failures included.
* `CheckedMemory` what they promise: an immutable store in which some
  cells are vouched for. `Memory` implements it.
* `Decoder` instructions and decoding.
* `MathUtils`, `EcOp` the arithmetic of `math_utils.rs` and the operation of the
  ec_op builtin; `EcOp` also has the group of the curve by chords and tangents,
  for the property.
* `Builtins` the builtin runners' deductions.
* `VirtualMachine` `step` and all it calls, as operators on the vm.
* `CairoRunner` the life of a run: the actions are the calls of `cairo_run`, and
  each iteration of `run_until_pc`. It composes all of the above.
* `CairoMachine` the abstract machine of registers and a growing memory:
  an instruction is executed when the memory *it leaves* holds the instruction
  and its operands and the new registers follow from them. Nothing is said of
  how operands are found. `CairoRunner` implements it, with the mapping given in
  its `Machine` instance.
* `DictHints` the dictionary hints, the trackers and the scopes; `SquashHints`
  the hints of `squash_dict`. Operators on the three fields of the vm they use.
* `Dictionaries` a program that uses them: one action per hint, together with
  the instructions of Cairo's library up to the next one. Those instructions are
  not in this repository. They are modelled, as external, from the programs under
  `cairo_programs` that the tests run: `dict_read` and its siblings assert the
  three fields of an access, `squash_dict_inner` asserts what the hints guess.
* `KeyValueStore` what they promise: maps. `Dictionaries` implements it.
* `HintVariables` the texts of references, what the parser keeps of them, the
  reference list and the hint dictionary that the runner makes, and the address
  of a variable, with its ap tracking, in `i32` and `usize`.
* `Frame` a function whose hints look up their variables: ap is pushed, advanced
  and moved out of sight of the compiler, variables are defined in between.
* `HintLibrary`, `HintDispatch` `execute_hint`: all of its hint codes, from the
  variables of the frame to the answer in memory. `HintDispatch` gives the hints of
  `DictHints` and `SquashHints` their variables.
* `HintFrames` calls of hints, as records; `Library` executes one of them, and
  `Comments` one after the other.
  `HintTests` and `DictTests` are the tests that the repository has of its hints,
  as such calls, each with what it expects.
* `Loops` a program that opens and closes scopes and calls memcpy and memset, hint
  by hint. The instructions around the hints are the library's, external.
* `MemoryCellsProofs`, `MachineProofs` lemmas about recursion and the operators of
  `MemoryCells`, and about those of `VirtualMachine` and `Builtins`.
* `MemoryProofs`, `RunnerProofs`, `RunnerRefinement`,
  `DictionariesProofs`, `FrameProofs`, `LoopsProofs` the theorems about `Memory`,
  `CairoRunner`, `Dictionaries`, `Frame` and `Loops`.
* `Assembler` names for the words of instructions, to write the programs of
  the instances; `MC*` the instances.

State and code correspond field by field: `vm` is a record with the fields of
struct `VirtualMachine` (the run context's registers, `memory`, the segment
manager's two fields, `builtin_runners` with the pedersen runner's
`verified_addresses`, `hints`, `trace`, `current_step`); `runner` has those of
`CairoRunner`; `phase` is how far `cairo_run` has got; `output` is what was
written last. `guarded` in `Memory` is history: it says that the validation has
succeeded and nothing has failed it since.

Definitions whose comment begins with *Fault* are mutated forms of the
definition that follows them. They are used by nothing; `PROJECT.json` says
which property each would break, to show that the property can be broken.

### What is abstracted

* The 252-bit prime, `usize`, and the 16-bit offsets are the constants `Prime`,
  `UsizeMax`, `OffsetSize`. `FieldAssumption` keeps what matters: the field is
  wider than a machine word.
* Pedersen's hash and the bit operations are operator parameters.
* In the machine (`VirtualMachine`, `CairoRunner`) only `memory[ap] =
  segments.add()` is computed; `IS_NN` stands for a hint that leaves one integer at
  `[ap]`, or fails. All hints are computed in `HintDispatch`, on a vm with the same
  fields.
* 2^64, 2^128 and 2^250, which hints compare with, are the constants `TwoTo64`,
  `RangeCheckBound` and `TwoTo250`; the curve's beta and the number of rounds of ec_op
  are `EcBeta` and `EcHeight`.
* A compiled reference is a record of its register, brackets and offsets, not a
  string; the texts of hints are their names.
* Messages, formats and files.
* Fields that are written and never read (`accessed_addresses`,
  `skip_instruction_execution`, `_program_base`).

## Runs

The machine runs with `Prime = 101`, `UsizeMax = 40` and offsets of
sixteen values (−8 to 7), so that an offset can leave a segment on both
sides, a sum can exceed `UsizeMax` and a field element can exceed both. `Frame` runs
with a `UsizeMax` of 150, more than twice its greatest `i32`, and `Dictionaries` with 15,
below the bound of its range checks as 2^64 is below 2^128. The
hints run with `Prime = 8209`, in which 16, 256 and 4096 stand for 2^64, 2^128 and
2^250: their order is that of the code, and the prime is just above a product of
two powers of two as the real one is above 2^251. Debug arithmetic
(`OverflowChecks = TRUE`): an overflow panics.

| run | instance | shows |
|---|---|---|
| `memory` | two segments of two cells; an integer in range, one out of range, an address; loads of up to two values | the memory's invariants, its loops, and that it implements `CheckedMemory`. Two segments let a rule hold for one and not the other; two cells let a gap be left and filled; one value of each kind passes, fails and has the wrong type. |
| `decoder` | every word of three two-valued offsets and fifteen flags | decoding against the layout drawn in `decoder.rs`, read from fields to bits |
| `execution` | every sequence of three of 20 instructions, then `ret`, from an empty frame (8000 programs), every four of six writes to an output segment, and a program without main; `get_output` at any moment | the machine is implemented; the trace replays; main's `ret` ends the run; a relocation that succeeds is exact, also with sizes that were cached too early |
| `builtins` | four reads and writes of an instance of pedersen or bitwise, three of range_check or output; ec_op with points on and off the curve and nine multiples, a result asserted before it is deduced; builtins that are named out of order or have no runner; three instructions with hints before the first two | deductions are stored and, once verified, consistent; ec_op is the group's addition; the range check holds all along; the output is the whole segment, and the order of the builtins is refused when it would not be found; hints that collide with the instruction, fail half way or add segments make no address up |
| `dictionaries` | two dictionaries with two accesses, one with three, each kind and with or without an `initial_dict`, an access made again at an old `dict_ptr` included; or an array of up to four accesses written by hand, in any order, chained or not, with a gap or an address for a field; squashed from the start to its end, to nothing, or to an address between two accesses. Two keys below the range check's bound, one above | the accesses replay to the dictionary; a squash passes exactly when there is a squashed dictionary, and returns it; the caller's scope is kept; the dictionaries are maps |
| `frame` | two references of any of fifteen texts (direct, through a pointer, past either end, without a register, an offset that overflows), two moves of ap of three kinds, two hints at a pc | a found address is the one that was meant; the first hint of a pc finds every variable that is known, but those behind a reference without a register |
| `library` | about 18000 calls: each hint with the numbers next to every bound it compares with and their opposites (but those of `comments`), missing and taken cells, addresses, with the range check first, second or not there; and all tests of hints of the repository | an answer is the one that the hint's comment and the assertions after it allow; no values with an answer are refused; the hints do what their tests expect |
| `loops` | two calls of memcpy or memset for none to six cells, an address for a length, overlapping ranges, cells that are taken or missing, scopes opened and closed around them, one with a variable `n` of its own | what is filled is exactly what was asked; a call fails only if that is impossible; the caller's scopes are kept; a call returns |

Two accesses of a key are the shortest chain, and four leave a third key or a
second round of the inner loop; a key on each side of the bound takes both ways
of comparing keys. Two references are what it takes for one to hide the other, and
two hints for one not to be the first. Two calls of a loop are enough for the
second to see what the first left behind; six cells exceed what a heap holds.

`MaxSteps` cuts off programs that loop: six steps are enough for those of
`execution`, which have at most six instructions on a path without a loop, and
sixteen for the twelve or thirteen of ec_op. The bound is in the guard of `Step`
only. In `Loops`, nine hints are one more than a call for six cells executes.

`library` checks answers, and has tests as a second instance: about two thirds of
the lines of `hint_utils.rs` and the other files of hints are their tests, and the
modules `HintTests` and `DictTests` are these tests as data, one set of calls
per test. They tie the model to the code where its authors said what they expect,
errors and scopes included. A number such as 2^128 + 1 has its counterpart in the
small field. The tests that only say that a hint text is unknown are one call.

`CHECK_DEADLOCK FALSE` is there where a run ends: a program that has failed or
has been relocated does nothing more, a hint is executed once.

These runs are expected to find a violation. Each is a place where the code and
a comment, a documented error or a name in it disagree; `PROJECT.json` quotes
them.

| run | what happens |
|---|---|
| `products_hold` | `[a] = [b] * [c]` with `[a] = 3`, `[c] = 7` deduces `[b] = 0` |
| `asserts_compare` | an `assert_eq` of two different addresses succeeds |
| `variables_found` | the second hint of a pc does not find a variable the first one finds; nor does any hint, if a reference without a register comes before the last |
| `comments` | one program gets an answer that its comment excludes from each of five hints: `assert_le_felt` says that inputs are small when their difference is not; `split_int` lets a limb be its bound; `assert_250_bit` splits 2^250; `split_64` drops what is above 128 bits; `is_positive` declares the range check's bound and its opposite |

The five comments of `comments` are refuted by one counterexample. The module
`Comments` lets a program execute one hint after the other and collects those whose
answer is not `Accepted`, the judgement that `library` makes; `SomeCommentHolds`
says that the collection is never complete, which each of the five comments
implies. A test of a single comment would end at the first of them. Around those values
`AnswersAreAccepted` holds in `library` with the bounds as the comments have them.
`is_positive` has the bound in its comment only as an argument: what makes it an
exclusive one is the rule of the range check itself, whose numbers are below it.

`ImplementsCairoMachine` holds of the code as it is, so `CairoMachine`
states in `Promised` exactly how far an instruction can be relied on: the
equation of an `assert_eq`, or a factor solved by the truncating division, or
an operand that is no integer and was not compared; and that a call leaves the return pc
in its op0 only if that cell was free and is in no builtin's segment.

Met while modelling, and left without a run of their own, because no line of the
repository says otherwise or because the models above already speak of what
the code does:

* the cells of a call's frame are not compared with fp and the return address when
  they hold an `Int` (`vm_core.rs:411`), and a step with an `Int` in a register
  leaves no trace entry (`vm_core.rs:444`);
* `get_output` before the end freezes the sizes (`memory_segments.rs:44`): later output
  is cut off, or the index is out of bounds;
* ec_op checks one of its two points only (`builtin_runner.rs:516`); `ecdsa` is accepted
  and gets no segment (`cairo_runner.rs:42`);
* `unsigned_div_rem` wants the range check to be the first builtin
  (`hint_utils.rs:1381`), where the others search for it;
* a reference with an immediate loses it, and a `dict_new` leaves `initial_dict` in
  the scope for the next;
* `igcdex(a, 0)` of a negative `a` has the wrong sign (no caller passes one).

## Fairness and liveness

The program has one thread and no waiting. Nothing promises that a run ends: a
Cairo program may jump in a circle for ever. What the hints decide is whether a
loop of the library ends, and `Loops` says that it does (`CallsReturn`). Its
fairness is that of `Step` only: `run_until_pc` takes the next step for as long as
there is no error, so a call that has begun goes on; that the program makes a call
at all is not assumed. A length above the number of cells ends in an error in the
model, where the heap is finite by the rounds of `MaxSteps`; in the field, a length
of `Prime - 1` would be as many rounds. The other specifications state no fairness.

## Proofs

TLAPS checks twenty-seven theorems, for every value of the constants: any prime wider than
the word, any word, any width of offsets, any programs, hints and hash. Each states a
property that a run checks on an instance.

| module | theorems |
|---|---|
| `MemoryProofs` | `TypeCorrect`, `SegmentsAlwaysAgree`, `ValidatedStayInRange`, `SizesNeverAhead`, `NothingStaysUnchecked`, `InsertsAreIdempotent`, `LoadsInOrder`, `ValidationInOrder`, `MemoryIsImmutable` (`Memory` implements `CheckedMemory`) |
| `RunnerProofs` | `RunTyped`, `RunAddressesExist`, `RunRangeChecksHold`, `RunHashesAreStored`, `RunDeductionsHold`, `RunOutputComplete` |
| `RunnerRefinement` | `RunRelocationExact`, `RunImplementsCairoMachine`, `RunTraceReplays`, `RunMainReturns` |
| `DictionariesProofs` | `DictionaryScopeKept`, `DictionaryMapsKept` (`Dictionaries` implements `KeyValueStore`), `DictionaryLogReplays`, `DictionarySquashExact` |
| `FrameProofs` | `FrameAddressAsMeant`, `FrameKnownIsFound` |
| `LoopsProofs` | `LoopsCallsExact`, `LoopsScopesKept` |

`MemoryCellsProofs` and `MachineProofs` hold the lemmas they rest on.

### Assumptions

They are those of the modules, and TLC evaluates them in the runs. `MemoryBounds` says that
the offsets callers write at are `usize`s. About the numbers:
`FieldAssumption` (the field is wider than a machine word), `BoundAssumption`,
`OffsetAssumption`, `EcAssumption`, `NoneAssumption` (None is not a
value). About parameters: `BuiltinAssumption`, that the hash and the bit operations give
natural numbers. About inputs: `ProgramAssumption` and `RunAssumption`, that a program
is what the parser makes of a file (words that are integers, builtins in a list whose
initial stack is no longer than a machine word), and `ProgramsAssumption`, that keys and
values are elements of the field, none negative, that the accesses a program makes to a
dictionary have their cells counted by a `usize`, as those of a `Vec` are, and that a
`usize` is less than the bound of the range checks (2^64 and 2^128), without which the
distance of two accesses could fail a range check. `FrameAssumption` is about the variables of hints: offsets are at
least `i32::MIN` (the parser refuses others), no two variables of a hint end in
the same name (the map that drops their paths would keep either), and the addresses of a
frame have offsets that an `i32` holds, as `ap` does by the bound in `Move`: the code takes
them `as i32`, and what it makes of greater ones is not modelled. `LoopsAssumption`: the
pointers of a call of memcpy or memset are addresses of the heap, a number of cells is not
negative, a run has at least one scope, and the frames of the calls fit into a segment (the
bounds of the calls and of their hints see to that). Every theorem but one has no other. `RunOutputComplete` has
the hypothesis `~EarlyOutput`, that `get_output` is not called before the run has
ended; it is what `cairo_run` does, and without it the property is false
(`memory_segments.rs:44`, below the runs).

### The memory

What every call does to the memory is one of two things: it adds
a segment, or it stores a sequence of values in one segment and validates some
cells. A lemma about `Stored` says what a cell holds after a store (its old
content if it had one, provided the store was allowed; the new value; `None`).
From it come lemmas for `Insert`, `LoadData`, `ValidateExisting` and `AddRule`,
each stating that the memory after the call *grows*: every segment at least as
long, every assigned cell unchanged, the validated addresses a superset whose
new members are in range. `ValidatedInRange` alone is not inductive: that a
validated cell keeps its value needs the cell to be inside its segment and the
segments to agree with the counter. The inductive invariant is the conjunction
of the type invariant, `SegmentsAgree`, `ValidatedInRange` and `SizesOnlyLag`;
`MemoryStep` shows that every action keeps it, with one case per action. The
refinement follows from the same growth lemma: growth is `Assign`.

`NothingUnchecked` is inductive together with that invariant, because growth keeps
what is validated. What it needs besides is that a call that no validation refuses
validates every cell it assigns (`InsertValidates`, `LoadValidates`: up to its first
error, a load stores exactly what it validates), and that a
`validate_existing_memory` that succeeds has looked at everything
(`ValidateExistingValidates`): of any addresses one comes first, so if some were
refused the call would answer with the error of the first. `InsertIsIdempotent`
follows from the invariant alone.

`LoadInsertsInOrder` and `ValidatesInOrder` say that the closed forms, which everything
else is proved about, are the loops of the code. Both go by rounds. `UpTo`
describes what the loop of `validate_existing_memory` has made of the memory when it comes to
a cell: no cell before it is refused and those with a rule are validated, or
the first refused cell is behind and the loop has stopped there. One iteration leads from a
cell to the next (`ValidateNextStep`), a segment from its first cell to that of the next
segment (`ValidateSegmentStep`), and at the end the description is the closed form
(`ValidatesAtEnd`). For `load_data` it is `AllLoaded` or `StoppedAt`: storing the
`n`-th value after the first `n - 1` is storing `n` values at once (`OneMoreStored`), and
since the places are distinct, the `n`-th insert is answered as it would have been in the
memory before the first (`LoadNextStep`). A pointer that is not an address is refused by
the first insert.

### A step

`MachineProofs` goes along `step` operator by operator, and says of each what the
machine holds after it: the values it makes are *known* (`Known(n)`: an
integer that is not negative, or an address in one of the `n` segments there are), the
memory grows, the registers stay known. The arithmetic comes first (no sum, difference
or truncating division of known values is unknown), then the deductions of
the builtins, the inserts, the hints (which may add segments, and may fail with some of
their effects there), the operands, and the registers. `StepOfStep` is the whole of it:
a step either fails in its hints, its operands or its registers, with what each had
written, or it runs its instruction (`RanInstruction`).

### A run

`RunInv` is the inductive invariant of `CairoRunner`. Its parts:

* `RunTypes` and `VmSound`: the types, the counter of the segments equal to their
  number, and every cell and register known. It implies `TypeOK` and
  `AddressesExist`. That cells hold known values is what makes the registers known
  (they are read from cells), and the other way round (`ap` and `pc` are written to cells).
* `PhaseInv`: what each call of `cairo_run` relies on having been done by those before
  it. Before the segments are made nothing is loaded (`Blank`). Each builtin has
  a segment of its own from then on (`BasesKnown`): without it a deduction could answer
  for another builtin's cell, and a rule hold for another's segment. The runners are in the
  order of the program's builtins (`NamesKept`), which is what finds the output.
* `Checked`, once `initialize_vm` has added the rules: every assigned cell of
  a segment with a rule is validated. `RangeChecksHold` follows, and is not inductive by
  itself: an insert of a value that is there already skips nothing only because that
  value was validated when it got there.
* `HashesStored` while it runs, `HashesHold` after `verify_auto_deductions`: a marked
  address of pedersen's list holds the hash of its inputs. The list is written when a
  hash is *deduced*, which is before it is stored, if it is stored; between steps
  the cell has it all the same, because the operand that asked for it is then inserted.
  Only the verification marks cells that nobody stores, and it is the last to deduce.
* `DeductionsHold` once it is verified. The verification leaves out what the list has
  marked, so it needs `HashesStored`.
* `SizesKept`: sizes that are cached are those of the memory, if nobody asked for them
  early. `OutputComplete` follows, with `RunOutputComplete`'s hypothesis.

`RunInvNext` has one lemma per call of `cairo_run`; for `Step` it is
`StepOfStep`, for `VerifyRun` and `Relocate` an induction over the segments.

`RelocationExact` says of a relocation that succeeded that a value and an address of
a cell or the trace are where they should be, *whatever* the sizes were when the table was
computed. Its proof counts: `TraceInv` (an address in the trace is one of a segment that
exists, and the trace is no longer than the steps), and that the relocated memory has as
many cells before a segment as there are addresses below it (`PlacesCounted`). The code
compares the length with the table at every segment, so a table of old sizes is
refused or right.

### A run is a run of the Cairo machine

`RunImplementsCairoMachine` maps the calls of `cairo_run` up to `initialize_vm` to
`Load`, that call to `Start`, a step to `Execute`, errors and the end to `Stop`. A step is
an execution because of four facts, each a lemma: the memory grows (`MemGrows`), so the
instruction that was decoded is the instruction in the memory it leaves
(`DecodesStays`); the operands the code computed, deduced or asserted are those that
memory has at the operands' addresses (`OperandsThere`); the registers follow from
them (`RegistersFollow`); and what was deduced solves the instruction's equation in
the field, or is a factor from the truncating division, or was not compared
(`PromiseKept`). The last needs the arithmetic of residues: that
`b + (a - b)` is `a` in the field (`DifferenceSum`), that residues are unique.

`TraceReplays` needs `Replayed`, that every entry of the trace `Follows` from the one
before *in the present memory*: this is kept by every later step because an instruction
that was executed stays executable as the memory grows (`FollowsStays`).
`MainReturnsToEnd` needs `Entered`, that the two cells under the initial fp hold the fp of
main's caller and the final pc: nothing can write them again.

### The dictionaries

`MapInv` says that the memory is sound, that the trackers belong to segments that exist and
hold values of `Vals`, and which scopes there are: the program's own outside a squash, and it and
one more inside. That the first of them is the program's own, as it was, is `CallerScopeKept`;
it is not inductive without the number of scopes, since a hint assigns to the last.
`NextTaken` says what a step can be: a dictionary is added, one access is made
by it (`Accessed`, that may fail at each of its asserts, with what was there before it), or a
squash goes on, which leaves the maps (`Squashing`). The refinement follows: a read
or a write of the store, or a stutter.

`LogInv` adds what was logged: a dictionary that made `n` accesses has `dict_ptr` and
tracker both at `3n`, its segment holds `n` accesses (`Recorded`), and for every key they are a chain
from what the dictionary had at first to what the manager has now (`Replays`). A read
or write appends one access, and the earlier cells stay since the memory grows.
`LogReplays` speaks of the accesses of a key in order; that `Ascending` does sort the
indices (`AscendingSorts`) is proved for sets of any size by the least
counterexample, since an induction over data is not to be had.

`SquashExact` needs two invariants more. `SizeInv`: no log holds more than the array and the
accesses made, and every integer in memory is an element of the field. So no distance between
two accesses exceeds a range check, and of the keys, whose order the library has
asserted, none is negative. `SquashInv` follows a call from hint to hint: one that runs is
`Going`, one that failed had accesses that have no squashed dictionary (`SquashableIn` false),
one that returned has returned it. `Going` ties the variables of the scope to the memory:
`access_indices` is the map of keys to indices that `squash_dict` made (`CallKept`); the
first `d` keys, in ascending order, are done, their entries are in the output and `remaining`
counts the accesses of the others (`KeysDone`); `keys` and `current_access_indices`, lists that
the hints pop from their end, are the rest of the keys and of the indices of the key, from
the last to the next (`OnKey`, `OnAccess`, `Descending`); and up to there each access starts from
what the one before left (`Passed`). Each hint has a lemma (`FirstGoes`, `SkipGoes`,
`CheckGoes`, `ContinueGoes`, `LenGoes`, `UsedGoes`, `KeysGoes`, `NextGoes`): it finds the
variables it asks for, and what the library then asserts of its guess holds exactly
if the accesses can still be squashed. That `remaining` is zero exactly after the last key
is a count: the accesses of a key and those of the keys after it are disjoint
(`Left`). The memory grows while a program goes on, so the accesses of a squash that has
returned stay what they were (`ReturnedStays`).

### The frame

`FrameInv` has three parts. `VmInv`: the memory is sound and its offsets are those of an `i32`
(`Reached`), which a push keeps because ap is. Without it a negative sum of offsets,
which is a huge number as a `usize`, could be a cell. `ReferencesInv`: the vm has the
reference list of the program, entry by entry, and for every reference `MovedAsTracked`, that
in the tracking group it was made in ap has moved exactly as far as the tracking says. This is
what makes `apply_ap_tracking_correction` lead back to the ap of the definition
(`CorrectedToMade`). `AnswerInv`: the last answer is that of the vm as it is.
From there `AddressAsMeant` follows along the code: the text is parsed to what it says
(`KeptText`), the register is the one meant (`BaseMeant`), brackets and offsets lead where
they should or into no cell (`AddressFromMeant`), and the name of a hint leads to its own
index (`NamedIndex`). `KnownIsFound` needs besides that the number of entries, which an
index is compared with, is that of the references less those without one
(`EntriesCounted`).

### The loops

`LoopsInv` follows a call from hint to hint. Between the calls the heap is the one
that was wanted (`InMain`). In a call, the frame has the arguments, the
caller's fp and a return address (`IsFrame`), and the scopes are the caller's and one more,
in which `n` is what there is left to do. `Looping(k)` says that `k` cells are filled: the
heap is the `k`-th of those that `Filled` defines without scopes, hints or pointers, the
counter is `n - k`, and the last cells below ap are pointers to the `k`-th cells
(`HasPointers`). The three must agree, and no hint sees more than one of them.
`RoundKept` is the step from `k` to `k + 1`: the pointers of the next round are pushed above
the cell that the hint then writes its flag to (`RoundFrames`), which is why
that cell is still empty (`RoundCounted`); the flag is zero exactly after the last round
(`LastRound`). A cell that cannot be filled makes every later heap of `Filled` an error
(`RoundFails`). `LeaveKept` shows that the assert after the loop holds and that
`exit_scope` finds the scope that `memcpy_enter_scope` opened, and no other. What the
hints do is proved along `execute_hint`: the reference of the variable, with its ap tracking,
leads to the argument (`EnterHintRuns`) or to the cell where ap was when the round began
(`EndRoundRuns`).

### How recursion is proved about

The library's theorems on induction take an operator as a parameter, which no
installed prover can instantiate. Loops of the code are therefore recursive functions on
the naturals, or closed forms. `MemoryCellsProofs` proves that a set of
naturals that is not empty has a least element, and from it, for each shape needed, that a
recursive function exists and what holds at its start and is kept by its
step holds at every argument (`RecursionExists`, `RecursionStays`). The rounds of
`Euclid`, `EcOpImpl`, the runners of `InitializeSegments`, `RelocateMemory` and
`GetOutput` are functions from a number of rounds to the state of the loop for that
reason.

### What the proofs found in the model

`MainReturnsToEnd` was stated of instructions that have the opcode of a ret and the
registers of main; a word can also have that opcode and other operands, or be written
by a hint just before it is executed, and the property now says the word is a `ret`, in
the memory that is executed. The promise about the return address of a call was too wide: a call
whose op0 lies in a builtin's segment has the builtin's deduction there instead of the
return pc, so `CairoMachine` now knows which segments are owned. That the initial stack
fits into a word, and that an access's cells are counted by a `usize`, were
assumptions of the model without a name; so was, until `SquashExact` was to be proved, that a
`usize` is below the bound of the range checks, and the instance had chosen them the other
way round. `AddressAsMeant` spoke of every text with two
offsets; the parser takes the register and the first offset of such a text for the content
of a cell even if it has no inner brackets, and `Kept` now leaves these texts out, as those
whose second offset the parser drops.

### Only model-checked

* Liveness (`CallsReturn`) and what needs ENABLED: out of the prover's reach.
* The digits of a word (`DecodingLosesNothing`, `RefusedWhenAmbiguous`): remainders of
  powers of two, on which the solver does not end.
* What the recursive `Isqrt` and searches compute: inductions over data.
* That ec_op adds points as the group does (`EcOpsAreSums`): the group law.
* The answers of single hints (`AnswersAreAccepted`, `NothingTrueRefused`,
  `AsTested`): `HintLibrary` and `HintDispatch` use bit operations and searches.

## Plan

Done: the memory (modelled, checked, proved); the decoder, the VM core, the
builtins and the runner (modelled, checked, proved but for the above); the
dictionaries and their squash (modelled, checked, proved); the variables of hints
(modelled, checked, proved); the loops (modelled, checked, proved but for liveness); all
hints (modelled, checked).

Next in the model: the hints of `HintDispatch` as the hints of the machine, so that a
program runs with them; the rest of the runner's entrypoints.

## Not modelled

Parsing of programs but for references, files, the command line and error texts:
pure input and output. The entrypoints of the runner
that only tests call. The digits of the 252-bit arithmetic, the hash function and
the bit operations: parameters. The tests of the machine and the builtins are not
replayed; the programs of the instances are their counterpart.
