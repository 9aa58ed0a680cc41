----------------------------- MODULE CairoRunner -----------------------------
(***************************************************************************)
(* A run of a Cairo program (vm/runners/cairo_runner.rs), called the way   *)
(* cairo_run (cairo_run.rs) calls it: segments, entrypoint, vm, steps until*)
(* the final pc, the verification of the auto deductions, the relocation,  *)
(* and the output.  Each call is an action, each iteration of              *)
(* run_until_pc is one.  The first error, or panic, ends the run.          *)
(* A user of the library may also ask for the output before the run ends.  *)
(***************************************************************************)
EXTENDS VirtualMachine

CONSTANTS
  Programs,      (* The programs: records with the data, the offset of     *)
                 (* main (None: there is none), the builtins, and hints, a *)
                 (* function from offsets to the hints at them.            *)
  TraceEnabled,  (* The choices of trace_enabled: a subset of BOOLEAN.     *)
  HintAnswers,   (* What a hint that is abstracted may leave, or None.     *)
  MaxSteps,      (* Bound on the steps that are explored.                  *)
  EarlyOutput    (* TRUE: get_output may be called at any moment.          *)

\* The words of a compiled program are hexadecimal numbers; hints are at the
\* offsets of its instructions.  The bases of the builtins and the two
\* addresses of the initial stack are elements of a Vec.
ASSUME ProgramAssumption ==
  \A p \in Programs :
    /\ p.data \in Seq([kind : {"int"}, num : Nat])
    /\ p.main \in Nat \union {None}
    /\ p.builtins \in Seq(STRING)
    /\ Len(p.builtins) + 2 <= UsizeMax
    /\ DOMAIN p.hints \subseteq Nat
    /\ \A off \in DOMAIN p.hints : p.hints[off] \in Seq(STRING)

ASSUME RunAssumption ==
  /\ TraceEnabled \subseteq BOOLEAN
  /\ HintAnswers \subseteq [kind : {"int"}, num : Nat] \union {None}
  /\ MaxSteps \in Nat
  /\ EarlyOutput \in BOOLEAN

VARIABLES
  phase,    (* How far the run has got: the last call that succeeded, or   *)
            (* "failed".                                                   *)
  error,    (* The error of the call that failed, "ok" if none has.        *)
  program,  (* CairoRunner::program.                                       *)
  runner,   (* The other fields of CairoRunner, without vm.                *)
  vm,       (* CairoRunner::vm.                                            *)
  output    (* The integers that the last write_output wrote.              *)

vars == <<phase, error, program, runner, vm, output>>

\* The builtins that a program may name, in this order, and those of them
\* that new makes a runner for.
BuiltinOrderedList == <<"output", "pedersen", "range_check", "ecdsa", "bitwise", "ec_op">>
HasRunner(name) == name # "ecdsa"

\* utils::is_subsequence
IsSubsequence(subsequence, sequence) ==
  \E place \in [1..Len(subsequence) -> 1..Len(sequence)] :
    /\ \A i \in 1..Len(subsequence) : sequence[place[i]] = subsequence[i]
    /\ \A i, j \in 1..Len(subsequence) : i < j => place[i] < place[j]

\* Fault: any order of the builtins is taken.
NewErrorUnordered(builtins) ==
  IF \E i \in 1..Len(builtins) : \A k \in 1..Len(BuiltinOrderedList) :
       builtins[i] # BuiltinOrderedList[k]
  THEN "panic" ELSE "ok"

\* The assertion of CairoRunner::new.
NewError(builtins) == IF IsSubsequence(builtins, BuiltinOrderedList) THEN "ok" ELSE "panic"

\* VirtualMachine::new, for the builtins of a program.
NewVm(names, traced) ==
  [pc |-> RelocatableValue(0, 0), ap |-> RelocatableValue(0, 0),
   fp |-> RelocatableValue(0, 0),
   memory |-> EmptyMemory, num_segments |-> 0, segment_used_sizes |-> None,
   builtin_runners |-> [i \in 1..Len(names) |-> [name |-> names[i], base |-> None]],
   verified_addresses |-> {}, hints |-> << >>,
   trace |-> IF traced THEN << >> ELSE None, current_step |-> 0]

\* A program, before there is a runner.
Init ==
  /\ phase = "given" /\ error = "ok" /\ output = << >>
  /\ program \in Programs
  /\ \E traced \in TraceEnabled : vm = NewVm(<< >>, traced)
  /\ runner = [program_base |-> None, execution_base |-> None, initial_pc |-> None,
               initial_fp |-> None, final_pc |-> None,
               relocated_memory |-> << >>, relocated_trace |-> None]

\* A call that goes from one phase to the next, unless it fails.
Call(from, to, err) ==
  /\ phase = from
  /\ phase' = IF err = "ok" THEN to ELSE "failed"
  /\ error' = err
  /\ UNCHANGED program

-----------------------------------------------------------------------------
(* The set-up.                                                             *)

\* The builtins of a program that get a runner, in its order.
WithRunner(builtins) ==
  LET runners[n \in 0..Len(builtins)] ==
        IF n = 0 THEN << >>
        ELSE IF HasRunner(builtins[n]) THEN Append(runners[n - 1], builtins[n])
        ELSE runners[n - 1]
  IN  runners[Len(builtins)]

\* CairoRunner::new.  A builtin without runner is passed over.
New ==
  /\ Call("given", "new", NewError(program.builtins))
  /\ vm' = NewVm(WithRunner(program.builtins), vm.trace # None)
  /\ UNCHANGED <<runner, output>>

\* Fault: one segment is counted, however many there are.
WithSegmentsCountedOnce(m, n) ==
  [m EXCEPT !.num_segments = @ + 1, !.memory.data = @ \o [i \in 1..n |-> << >>]]

\* A vm with n more segments.
WithSegments(m, n) ==
  [m EXCEPT !.num_segments = @ + n, !.memory.data = @ \o [i \in 1..n |-> << >>]]

\* initialize_segments: the program's, the execution's, then the builtins'.
InitializeSegments ==
  LET base(i) == RelocatableValue(vm.num_segments + i, 0)
  IN  /\ Call("new", "segments", "ok")
      /\ runner' = [runner EXCEPT !.program_base = base(0), !.execution_base = base(1)]
      /\ vm' = [WithSegments(vm, 2 + Len(vm.builtin_runners)) EXCEPT
                  !.builtin_runners =
                    [i \in 1..Len(@) |-> [@[i] EXCEPT !.base = base(i + 1)]]]
      /\ UNCHANGED output

\* load_data, when it is called by initialize_state.
Loading(v, loaded) == Result([v EXCEPT !.memory = loaded.memory], loaded.err)
LoadInto(r, base, vals) ==
  IF r.err # "ok" THEN r ELSE Loading(r.vm, LoadData(r.vm.memory, base, vals))

\* The stack main starts with: what a ret of main finds on top of it.
StackPcFirst(bases, return_fp, end) == bases \o <<end, return_fp>>  \* Fault: swapped
InitialStack(bases, return_fp, end) == bases \o <<return_fp, end>>

\* initialize_main_entrypoint, with initialize_function_entrypoint and
\* initialize_state: two segments that stay empty, whose bases are main's
\* caller's fp and the pc that main returns to, and the initial stack.
InitializeMainEntrypoint ==
  LET return_fp == RelocatableValue(vm.num_segments, 0)
      end       == RelocatableValue(vm.num_segments + 1, 0)
      bases     == [i \in 1..Len(vm.builtin_runners) |-> vm.builtin_runners[i].base]
      stack     == InitialStack(bases, return_fp, end)
      entered   == [runner EXCEPT
                      !.initial_fp = [runner.execution_base EXCEPT !.off = @ + Len(stack)],
                      !.initial_pc = [runner.program_base EXCEPT !.off = @ + program.main]]
      outcome   == LoadInto(LoadInto(Result(WithSegments(vm, 2), "ok"),
                                     runner.program_base, program.data),
                            runner.execution_base, stack)
  IN  IF program.main = None
      THEN /\ Call("segments", "entrypoint", "MissingMain")
           /\ vm' = WithSegments(vm, 1)
           /\ UNCHANGED <<runner, output>>
      ELSE \E loaded \in {outcome} :
           /\ Call("segments", "entrypoint", loaded.err)
           /\ vm' = loaded.vm
           /\ runner' = IF loaded.err = "ok" THEN [entered EXCEPT !.final_pc = end]
                                             ELSE entered
           /\ UNCHANGED output

\* The segments that a builtin's add_validation_rule adds a rule for.
RuledIndices(runners) ==  \* Fault: the runner's index, not its segment
  {i \in 1..Len(runners) : runners[i].name = "range_check"}
RuledSegments(runners) ==
  {runners[i].base.seg : i \in {j \in 1..Len(runners) : runners[j].name = "range_check"}}

\* initialize_vm
InitializeVm ==
  LET ruled  == [vm.memory EXCEPT
                   !.validation_rules = @ \union RuledSegments(vm.builtin_runners)]
      r      == ValidateExisting(ruled)
      hinted == {RelocatableValue(0, off) : off \in DOMAIN program.hints}
  IN  /\ Call("entrypoint", "running", r.err)
      /\ vm' = [vm EXCEPT !.pc = runner.initial_pc, !.ap = runner.initial_fp,
                          !.fp = runner.initial_fp, !.memory = r.memory,
                          !.hints = [pc \in hinted |-> program.hints[pc.off]]]
      /\ UNCHANGED <<runner, output>>

-----------------------------------------------------------------------------
(* The run.                                                                *)

\* run_until_pc: an iteration of its loop, and the end of it.
Step ==
  /\ vm.pc # runner.final_pc
  /\ vm.current_step < MaxSteps
  /\ \E r \in {StepOf(vm, answer) : answer \in HintAnswers} :
       Call("running", "running", r.err) /\ vm' = r.vm
  /\ UNCHANGED <<runner, output>>

ReachFinalPc ==
  /\ vm.pc = runner.final_pc
  /\ Call("running", "halted", "ok")
  /\ UNCHANGED <<runner, vm, output>>

\* verify_auto_deductions
VerifyRun ==
  /\ \E r \in {VerifyAutoDeductions(vm)} : Call("halted", "verified", r.err) /\ vm' = r.vm
  /\ UNCHANGED <<runner, output>>

-----------------------------------------------------------------------------
(* The results.                                                            *)

\* compute_effective_sizes
WithSizes(m) ==
  [m EXCEPT !.segment_used_sizes = IF @ = None THEN EffectiveSizes(m.memory.data) ELSE @]

\* relocate_segments: the first address of each segment that has a size, which
\* is the one after all the cells of the segments before it.
RelocationTable(sizes) ==
  LET after[k \in 0..Len(sizes)] ==
        IF k = 0 THEN 1 ELSE after[k - 1] + sizes[k]
  IN  [k \in 1..Len(sizes) |-> after[k - 1]]

\* The inner loop of relocate_memory: the elements of a segment, up to the
\* first that the table has no address for.
RelocateSegment(r, segment, table) ==
  LET value(i) == IF segment[i] = None THEN Ok(None) ELSE RelocateValue(segment[i], table)
      fails == {i \in 1..Len(segment) : value(i).err # "ok"}
      count == IF fails = {} THEN Len(segment)
               ELSE (CHOOSE i \in fails : \A j \in fails : i <= j) - 1
  IN  [memory |-> r.memory \o [i \in 1..count |-> value(i).val],
       err    |-> IF fails = {} THEN "ok" ELSE "Relocation"]

\* What relocate_memory finds wrong before it copies the k-th segment to the
\* memory relocated so far: the table has no entry for it, or another place.
PlaceNotCompared(relocated, table, k) ==  \* Fault: the place is not looked at
  IF k > Len(table) THEN "panic" ELSE "ok"

PlaceError(relocated, table, k) ==
  IF k > Len(table) THEN "panic"
  ELSE IF Len(relocated) # table[k] THEN "Relocation"
  ELSE "ok"

\* relocate_memory: the memory as one sequence, whose element of index n is
\* at address n, the first at address 0.
RelocateMemory(relocated, data, table) ==
  LET after[k \in 0..Len(data)] ==
        IF k = 0 THEN [memory |-> <<None>>, err |-> "ok"]
        ELSE LET r == after[k - 1]
             IN  IF r.err # "ok" THEN r
                 ELSE IF PlaceError(r.memory, table, k) # "ok"
                 THEN [r EXCEPT !.err = PlaceError(r.memory, table, k)]
                 ELSE RelocateSegment(r, data[k], table)
  IN  IF relocated # << >> THEN [memory |-> relocated, err |-> "Relocation"]
      ELSE after[Len(data)]

\* relocate_trace
RelocateTrace(trace, table) ==
  LET number(a) == table[a.seg + 1] + a.off
  IN  IF \E k \in 1..Len(trace) :
           \E a \in {trace[k].pc, trace[k].ap, trace[k].fp} : Len(table) <= a.seg
      THEN Err("NoRelocationFound")
      ELSE Ok([k \in 1..Len(trace) |-> [pc |-> number(trace[k].pc),
                                        ap |-> number(trace[k].ap),
                                        fp |-> number(trace[k].fp)]])

\* relocate
Relocate ==
  LET sized == WithSizes(vm)
      table == RelocationTable(sized.segment_used_sizes)
      m     == RelocateMemory(runner.relocated_memory, vm.memory.data, table)
      t     == IF vm.trace = None THEN Ok(None) ELSE RelocateTrace(vm.trace, table)
  IN  /\ Call("verified", "relocated", IF m.err # "ok" THEN m.err ELSE t.err)
      /\ vm' = sized
      /\ runner' = [runner EXCEPT
                      !.relocated_memory = m.memory,
                      !.relocated_trace = IF m.err = "ok" THEN t.val ELSE @]
      /\ UNCHANGED output

\* utils::to_field_element
ToFieldElement(n) == TruncMod(n + Prime \div 2, Prime) - Prime \div 2

\* The integers among the first size cells of a segment.
IntsOf(data, base, size) ==
  LET written[n \in 0..size] ==
        IF n = 0 THEN << >>
        ELSE LET value == Cell(data, [base EXCEPT !.off = @ + n - 1])
             IN  IF IsInt(value)
                 THEN Append(written[n - 1], ToFieldElement(value.num))
                 ELSE written[n - 1]
  IN  written[size]

HasOutput == Len(vm.builtin_runners) > 0 /\ vm.builtin_runners[1].name = "output"

\* write_output, and get_output which is the same written to a string.  The
\* length of the segment is the cached size: an index out of bounds when the
\* segment did not exist when the sizes were computed.
WriteOutput ==
  LET sized == IF HasOutput THEN WithSizes(vm) ELSE vm
      base  == vm.builtin_runners[1].base
      err   == IF ~HasOutput THEN "ok"
               ELSE IF base = None THEN "UninitializedBase"
               ELSE IF base.seg >= Len(sized.segment_used_sizes) THEN "panic"
               ELSE "ok"
  IN  /\ IF EarlyOutput THEN phase \notin {"given", "failed"} ELSE phase = "relocated"
      /\ vm' = sized
      /\ output' = IF err # "ok" THEN output
                   ELSE IF ~HasOutput THEN << >>
                   ELSE IntsOf(vm.memory.data, base, sized.segment_used_sizes[base.seg + 1])
      \* An error of this call is reported to its caller, who may go on.
      /\ phase' = IF err = "panic" THEN "failed" ELSE phase
      /\ error' = IF err = "panic" THEN "panic" ELSE error
      /\ UNCHANGED <<program, runner>>

Next ==
  \/ New
  \/ InitializeSegments
  \/ InitializeMainEntrypoint
  \/ InitializeVm
  \/ Step
  \/ ReachFinalPc
  \/ VerifyRun
  \/ Relocate
  \/ WriteOutput

Spec == Init /\ [][Next]_vars

-----------------------------------------------------------------------------
(* What makes a run correct.                                               *)

Registers == [pc |-> vm.pc, ap |-> vm.ap, fp |-> vm.fp]
Data      == vm.memory.data
Assigned  == {a \in AddressesIn(Data) : Cell(Data, a) # None}

\* The run is set up, and has not failed.
Running  == phase = "running"
Finished == phase \in {"halted", "verified", "relocated"}

AddressOrInt == Ints \union Relocatables

TypeOK ==
  /\ phase \in {"given", "new", "segments", "entrypoint", "running", "halted", "verified",
                "relocated", "failed"}
  /\ (error # "ok") = (phase = "failed")
  /\ {vm.pc, vm.fp} \subseteq AddressOrInt /\ vm.ap \in Relocatables
  /\ vm.memory \in [data : Seq(Seq(Values \union {None})),
                    validated_addresses : SUBSET Relocatables,
                    validation_rules : SUBSET Nat]
  /\ vm.num_segments = Len(Data)
  /\ vm.segment_used_sizes \in Seq(Nat) \union {None}
  /\ vm.verified_addresses \subseteq Relocatables
  /\ vm.trace \in Seq([pc : Relocatables, ap : Relocatables, fp : Relocatables])
                    \union {None}
  /\ vm.current_step \in 0..MaxSteps
  /\ runner.relocated_memory \in Seq(Int \union {None})
  /\ output \in Seq(Int)

\* What the Cairo machine sees of a run.
MachineMode ==
  CASE phase \in {"given", "new", "segments", "entrypoint"} -> "loading"
    [] phase = "running" -> "running"
    [] OTHER             -> "stopped"
MachineRegs == IF Running THEN Registers ELSE None
MachineMem  == [a \in Assigned |-> Cell(Data, a)]
OwnedSegments ==
  {vm.builtin_runners[i].base.seg :
     i \in {j \in 1..Len(vm.builtin_runners) : vm.builtin_runners[j].base # None}}

\* The run as a run of the Cairo machine.
Machine == INSTANCE CairoMachine WITH
  mode <- MachineMode, regs <- MachineRegs, mem <- MachineMem,
  hinted <- DOMAIN vm.hints, owned <- OwnedSegments

\* Every step of the vm executes the instruction at pc in the memory it
\* leaves: no cell is ever changed, the operands it deduced are there, and
\* they satisfy the instruction as far as the code promises it.
ImplementsCairoMachine == Machine!Spec

\* The trace and the final memory replay the run: each entry is followed by
\* the next, and the last by the current registers, when the instructions are
\* executed in the memory as it is now.  (An entry is missing for a step that
\* had an Int in a register.)
TraceReplays ==
  (vm.trace # None /\ (Running \/ Finished) /\ Len(vm.trace) = vm.current_step) =>
    \A k \in 1..Len(vm.trace) :
      Machine!Follows(vm.trace[k],
                      IF k < Len(vm.trace) THEN vm.trace[k + 1] ELSE Registers,
                      MachineMem)

\* A hash that the pedersen runner has handed out to an instruction is in its
\* cell by the end of the step: the runner does not look at that cell again.
\* (The final verification also deduces cells that stay unassigned.)
VerifiedHashesAreStored ==
  (Running \/ Finished) =>
    \A a \in vm.verified_addresses :
      LET x == Back(vm.memory, a, 2)
          y == Back(vm.memory, a, 1)
      IN  /\ IsInt(x) /\ IsInt(y)
          /\ Cell(Data, a) \in {IntValue(Pedersen(x.num, y.num))} \union
                               (IF Running THEN {} ELSE {None})

\* Once the auto deductions are verified, every instance of a builtin whose
\* inputs are integers has the results that belong to them, or none yet.
DeductionsHold ==
  phase \in {"verified", "relocated"} =>
    \A a \in Assigned : \A k \in RunnersOf(vm.builtin_runners, a.seg) :
      LET name == vm.builtin_runners[k].name
          deduced == DeduceBy(vm.builtin_runners[k], vm.memory, {}, a)
      IN  deduced.err = "ok" /\ deduced.val \in {None, Cell(Data, a)}

\* A complete instance of ec_op whose points are on the curve holds P + m*Q,
\* the sum of the curve's group, once the auto deductions are verified.
EcOpsAreSums ==
  phase \in {"verified", "relocated"} =>
    \A a \in Assigned : \A k \in RunnersOf(vm.builtin_runners, a.seg) :
      LET num(i) == Cell(Data, [a EXCEPT !.off = @ + i]).num
          P == <<num(0), num(1)>>
          Q == <<num(2), num(3)>>
      IN  (/\ vm.builtin_runners[k].name = "ec_op" /\ a.off % EcOpCells = 0
           /\ \A i \in 0..(EcOpCells - 1) : IsInt(Cell(Data, [a EXCEPT !.off = @ + i]))
           /\ PointOnCurve(P) /\ PointOnCurve(Q)) =>
          <<num(5), num(6)>> = GroupSum(P, Multiple(num(4), Q))

\* While the program runs and after, the assigned cells of the range check's
\* segment are in its range, whether they were deduced, asserted or loaded.
RangeChecksHold ==
  (Running \/ Finished) =>
    \A a \in Assigned : \A k \in RunnersOf(vm.builtin_runners, a.seg) :
      vm.builtin_runners[k].name = "range_check" => InRange(Cell(Data, a))

\* An address is never made up: the segment of every address in a register or
\* a cell exists, so that the relocation has a number for it.
AddressesExist ==
  \A v \in {vm.pc, vm.ap, vm.fp} \union {Cell(Data, a) : a \in Assigned} :
    (IsRel(v) /\ vm.num_segments > 0) => v.seg < vm.num_segments

Executed == Running /\ phase' = "running" /\ vm'.current_step = vm.current_step + 1

\* The instruction that a step has executed and its operands, in the memory
\* the step leaves.
ExecutedInstruction == Machine!InstructionIn(MachineMem', vm.pc)
ExecutedOperands ==
  Machine!OperandsIn(ExecutedInstruction, Registers, MachineMem')

\* The instruction of a compiled ret: jmp abs [fp - 1] with fp = [fp - 2].
IsRet(i) ==
  /\ i.opcode = "Ret" /\ i.pc_update = "Jump" /\ i.res = "Op1"
  /\ DstAddr(vm, i) = AddIntMod(vm.fp, -2)
  /\ Op1Addr(vm, i, None) = AddIntMod(vm.fp, -1)

\* The ret of main, the one that finds the entrypoint's fp in its register,
\* ends the run: it leaves main's caller's fp and the final pc.
MainReturnsToEnd ==
  [][(Executed /\ vm.fp = runner.initial_fp /\ IsRet(ExecutedInstruction)) =>
       /\ vm'.pc = runner.final_pc
       /\ vm'.fp = RelocatableValue(runner.final_pc.seg - 1, 0)]_vars

\* Where an address belongs in the final memory: after the cells of all the
\* segments before its own, and after the unused address 0.
Place(a) ==
  1 + Cardinality({b \in AddressesIn(Data) : b.seg < a.seg}) + a.off

ValueInPlace(v) == IF IsRel(v) THEN Place(v) ELSE IF v = None THEN None ELSE v.num

\* A relocation that succeeds is exact, whatever sizes it was computed from:
\* each cell is in its place, each address in a cell or in the trace is the
\* place of the cell it stood for, and nothing else is there.
RelocationExact ==
  phase = "relocated" =>
    /\ Len(runner.relocated_memory) = 1 + Cardinality(AddressesIn(Data))
    /\ \A a \in AddressesIn(Data) :
         runner.relocated_memory[Place(a) + 1] = ValueInPlace(Cell(Data, a))
    /\ vm.trace # None =>
         runner.relocated_trace =
           [k \in 1..Len(vm.trace) |-> [pc |-> Place(vm.trace[k].pc),
                                        ap |-> Place(vm.trace[k].ap),
                                        fp |-> Place(vm.trace[k].fp)]]

\* A finished run of a program that has an output prints the whole of it:
\* write_output, which looks for it in the first builtin only, called now,
\* finds a size for the output segment, and it is the segment's length.
OutputComplete ==
  (Finished /\ \E i \in 1..Len(program.builtins) : program.builtins[i] = "output") =>
    LET base  == vm.builtin_runners[1].base
        sizes == WithSizes(vm).segment_used_sizes
    IN  /\ HasOutput
        /\ base.seg < Len(sizes)
        /\ IntsOf(Data, base, sizes[base.seg + 1]) =
             IntsOf(Data, base, Len(Data[base.seg + 1]))

-----------------------------------------------------------------------------
(* What one would expect of a run, and the code does not ensure.           *)

\* An assert_eq of a product of integers leaves factors and a product.
ProductsHold ==
  [][(Executed /\ ExecutedInstruction.opcode = "AssertEq"
        /\ ExecutedInstruction.res = "Mul") =>
       Machine!Equation(ExecutedInstruction, ExecutedOperands)]_vars

\* An assert_eq fails when its two sides differ, addresses included.
AssertsCompare ==
  [][(Executed /\ ExecutedInstruction.opcode = "AssertEq"
        /\ ExecutedInstruction.res # "Mul") =>
       Machine!Equation(ExecutedInstruction, ExecutedOperands)]_vars
=============================================================================
