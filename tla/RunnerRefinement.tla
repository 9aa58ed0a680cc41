-------------------------- MODULE RunnerRefinement ---------------------------
(***************************************************************************)
(* What a run records is what happened: the relocated memory and trace     *)
(* that it ends with are exact.  And a run is a run of the Cairo machine.  *)
(***************************************************************************)
EXTENDS RunnerProofs, FiniteSetTheorems

-----------------------------------------------------------------------------
(* The set-up.                                                             *)

\* No assigned cell changes.
Keeps(v, w) ==
  \A b \in Relocatables :
    Cell(v.memory.data, b) # None => Cell(w.memory.data, b) = Cell(v.memory.data, b)

\* What the calls before the first step do to the vm.
Preparing(v, w) ==
  /\ Keeps(v, w)
  /\ v.num_segments <= w.num_segments
  /\ w.trace = v.trace /\ w.current_step = v.current_step

\* initialize_segments adds segments.
LEMMA SegmentsPrepare ==
  ASSUME RunInv, InitializeSegments
  PROVE  Preparing(vm, vm') /\ vm'.hints = vm.hints
<1> DEFINE N == Len(vm.builtin_runners)
           v == WithSegments(vm, 2 + N)
           r == [i \in 1..Len(v.builtin_runners) |->
                   [v.builtin_runners[i] EXCEPT
                      !.base = RelocatableValue(vm.num_segments + (i + 1), 0)]]
<1>1. phase = "new"
  BY DEF InitializeSegments, Call
<1>2. VmSound(vm) /\ vm \in Machines /\ vm.num_segments \in Nat
  BY DEF RunInv, VmSound, Machines
<1>3. N \in Nat
  BY <1>2, LenProperties DEF Machines, Runners
<1>4. 2 + N \in Nat
  BY <1>3
<1>5. vm' = [v EXCEPT !.builtin_runners = r]
  BY DEF InitializeSegments
<1> HIDE DEF r, v
<1>6. /\ VmSound(v) /\ v.num_segments = vm.num_segments + (2 + N)
      /\ \A b \in Relocatables : Cell(v.memory.data, b) = Cell(vm.memory.data, b)
      /\ v.trace = vm.trace /\ v.current_step = vm.current_step /\ v.hints = vm.hints
  BY <1>2, <1>4, WithSegmentsStep DEF v
<1>7. v \in Machines
  BY <1>6 DEF VmSound
<1>8. /\ vm'.memory = v.memory /\ vm'.num_segments = v.num_segments
      /\ vm'.trace = v.trace /\ vm'.current_step = v.current_step /\ vm'.hints = v.hints
  BY <1>5, <1>7 DEF Machines
<1>9. vm.num_segments <= vm'.num_segments
  BY <1>2, <1>3, <1>6, <1>8
<1> QED
  BY <1>6, <1>8, <1>9 DEF Preparing, Keeps

\* initialize_main_entrypoint loads the program and the stack, as far as it
\* gets.
LEMMA EntrypointPrepares ==
  ASSUME RunInv, InitializeMainEntrypoint
  PROVE  Preparing(vm, vm') /\ vm'.hints = vm.hints
<1>1. /\ VmSound(vm) /\ BasesKnown(vm) /\ vm.num_segments \in Nat
      /\ runner.program_base \in Relocatables /\ runner.execution_base \in Relocatables
      /\ program.data \in Seq(Naturals)
  <2>1. phase = "segments" /\ program \in Programs /\ runner \in RunnerStates
    BY EntrypointCases DEF RunInv, RunTypes, EntrypointLoaded, Call
  <2>2. VmSound(vm) /\ BasesKnown(vm)
        /\ runner.program_base # None /\ runner.execution_base # None
    BY <2>1 DEF RunInv, PhaseInv, Built
  <2> QED
    BY <2>1, <2>2, ProgramKnown DEF VmSound, Machines, RunnerStates, Maybe
<1>2. ASSUME NEW n \in Nat
      PROVE  /\ Preparing(vm, WithSegments(vm, n)) /\ WithSegments(vm, n).hints = vm.hints
             /\ WithSegments(vm, n).num_segments \in Nat
  BY <1>1, WithSegmentsStep DEF Preparing, Keeps
<1>3. CASE program.main = None
  <2>1. vm' = WithSegments(vm, 1)
    BY <1>3, EntrypointCases
  <2> QED
    BY <1>2, <2>1
<1>4. CASE program.main # None
  <2> DEFINE loaded == EntrypointOutcome
             v      == WithSegments(vm, 2)
  <2>1. vm' = loaded.vm
    BY <1>4, EntrypointCases DEF EntrypointLoaded
  <2>2. Loads(v, loaded.vm)
    BY <1>1, LoadedProgram DEF EntrypointOutcome, EntrypointStack
  <2> HIDE DEF loaded, v
  <2>3. Preparing(vm, v) /\ v.hints = vm.hints
    BY <1>2 DEF v
  <2>4. /\ Preparing(v, loaded.vm) /\ loaded.vm.hints = v.hints
        /\ loaded.vm.num_segments = v.num_segments
    <3>1. v.num_segments \in Nat
      BY <1>2 DEF v
    <3> QED
      BY <2>2, <3>1 DEF Loads, Preparing, Keeps, Extends
  <2>5. Preparing(vm, loaded.vm) /\ loaded.vm.hints = vm.hints
    BY <2>3, <2>4 DEF Preparing, Keeps
  <2> QED
    BY <2>1, <2>5
<1> QED
  BY <1>3, <1>4

\* What initialize_vm changes: the registers, the validation and the hints.
Beginning(v, w) ==
  /\ Preparing(v, w)
  /\ w.memory.data = v.memory.data /\ w.builtin_runners = v.builtin_runners
  /\ w.num_segments = v.num_segments

\* initialize_vm assigns no cell.
LEMMA VmPrepares ==
  ASSUME RunInv, InitializeVm
  PROVE  Beginning(vm, vm')
<1> DEFINE S      == RuledSegments(vm.builtin_runners)
           r      == ValidateExisting(WithRules(vm.memory, S))
<1>1. /\ phase = "entrypoint"
      /\ vm' = [vm EXCEPT !.pc = runner.initial_pc, !.ap = runner.initial_fp,
                          !.fp = runner.initial_fp, !.memory = r.memory,
                          !.hints = [pc \in {RelocatableValue(0, off) :
                                               off \in DOMAIN program.hints} |->
                                       program.hints[pc.off]]]
  BY DEF InitializeVm, Call, WithRules
<1>2. VmSound(vm) /\ BasesKnown(vm)
  BY <1>1 DEF RunInv, PhaseInv, Built
<1>3. vm \in Machines /\ vm.num_segments \in Nat /\ MachineMemory(vm.memory, vm.num_segments)
  BY <1>2 DEF VmSound, Machines
<1>4. S \in SUBSET Nat
  BY <1>2, RuledNatural
<1> HIDE DEF r, S
<1>5. r.memory.data = vm.memory.data
  <2>1. RulesHold(vm.memory, S, r, vm.num_segments)
    BY <1>3, <1>4, RulesAdded DEF r
  <2> QED
    BY <2>1 DEF RulesHold
<1>6. /\ vm'.memory = r.memory /\ vm'.num_segments = vm.num_segments
      /\ vm'.builtin_runners = vm.builtin_runners
      /\ vm'.trace = vm.trace /\ vm'.current_step = vm.current_step
  BY <1>1, <1>3 DEF Machines
<1> QED
  BY <1>3, <1>5, <1>6 DEF Beginning, Preparing, Keeps

-----------------------------------------------------------------------------
(* The trace.                                                              *)

SetUp == phase \in {"given", "new", "segments", "entrypoint"}

\* There is at most an entry for each step, and its addresses exist.
TraceKnown(v) ==
  v.trace # None =>
    /\ Len(v.trace) <= v.current_step
    /\ \A k \in 1..Len(v.trace) :
         \A a \in {v.trace[k].pc, v.trace[k].ap, v.trace[k].fp} : a.seg < v.num_segments

TraceInv ==
  /\ SetUp => vm.trace \in {None, << >>}
  /\ phase # "failed" => TraceKnown(vm)

\* The entry that a step adds, when the three registers are addresses.
Registered(v) == IsRel(v.pc) /\ IsRel(v.ap) /\ IsRel(v.fp)
EntryOf(v)    == [pc |-> v.pc, ap |-> v.ap, fp |-> v.fp]

\* A step adds its entry to the trace.
LEMMA StepTraces ==
  ASSUME NEW v, MachineInv(v), NEW h, NEW w, Stepped(v, h, w)
  PROVE  w.trace = IF v.trace # None /\ Registered(v)
                   THEN Append(v.trace, EntryOf(v)) ELSE v.trace
<1>1. /\ MachineInv(h) /\ h.pc = v.pc /\ h.ap = v.ap /\ h.fp = v.fp /\ h.trace = v.trace
  BY DEF Stepped, Hinted
<1>2. w.trace = Traced(h).trace
  BY DEF Stepped, RanInstruction
<1> QED
  BY <1>1, <1>2, TracedStep DEF Registered, EntryOf

\* A trace with an entry more.
LEMMA EntryAdded ==
  ASSUME NEW t \in Seq(TraceEntries), NEW e \in TraceEntries
  PROVE  /\ Append(t, e) \in Seq(TraceEntries) /\ Len(Append(t, e)) = Len(t) + 1
         /\ Len(t) \in Nat
         /\ \A k \in 1..Len(t) : Append(t, e)[k] = t[k]
         /\ Append(t, e)[Len(t) + 1] = e
  BY AppendProperties, LenProperties

\* The trace stays known.
LEMMA TraceKnownStep ==
  ASSUME NEW v, MachineInv(v), TraceKnown(v), NEW h, NEW w, Stepped(v, h, w), Stepping(v, w)
  PROVE  TraceKnown(w)
<1>1. /\ v.num_segments \in Nat /\ v.current_step \in Nat
      /\ v.trace \in Maybe(Seq(TraceEntries))
  BY DEF MachineInv, Machines
<1>2. /\ w.num_segments \in Nat /\ v.num_segments <= w.num_segments
      /\ w.current_step = v.current_step + 1
  BY DEF Stepping, Continues, MachineInv, Machines, Stepped
<1>3. w.trace = IF v.trace # None /\ Registered(v)
                THEN Append(v.trace, EntryOf(v)) ELSE v.trace
  BY StepTraces
<1>4. ASSUME v.trace # None
      PROVE  /\ Len(v.trace) <= v.current_step /\ Len(v.trace) \in Nat
             /\ \A k \in 1..Len(v.trace) :
                  \A a \in {v.trace[k].pc, v.trace[k].ap, v.trace[k].fp} :
                    a.seg < w.num_segments
  <2>1. v.trace \in Seq(TraceEntries)
    BY <1>1, <1>4 DEF Maybe
  <2>2. ASSUME NEW k \in 1..Len(v.trace),
               NEW a \in {v.trace[k].pc, v.trace[k].ap, v.trace[k].fp}
        PROVE  a.seg < w.num_segments
    <3>1. v.trace[k] \in TraceEntries
      BY <2>1, ElementOfSeq
    <3>2. a \in Relocatables
      BY <3>1 DEF TraceEntries
    <3>3. a.seg \in Nat /\ a.seg < v.num_segments
      BY <1>4, <3>2, RelocatableFields DEF TraceKnown
    <3> QED
      BY <1>1, <1>2, <3>3
  <2> QED
    BY <1>4, <2>1, <2>2, LenProperties DEF TraceKnown
<1>5. CASE v.trace # None /\ Registered(v)
  <2> DEFINE t == v.trace
             e == EntryOf(v)
             u == w.trace
  <2>1. v.pc \in Known(v.num_segments) /\ v.ap \in Known(v.num_segments)
        /\ v.fp \in Known(v.num_segments)
    BY DEF MachineInv
  <2>2. /\ e \in TraceEntries
        /\ \A a \in {e.pc, e.ap, e.fp} : a.seg < w.num_segments
    <3>1. /\ v.pc \in Relocatables /\ v.pc.seg \in Nat /\ v.pc.seg < v.num_segments
          /\ v.ap \in Relocatables /\ v.ap.seg \in Nat /\ v.ap.seg < v.num_segments
          /\ v.fp \in Relocatables /\ v.fp.seg \in Nat /\ v.fp.seg < v.num_segments
      BY <1>5, <2>1, KnownKinds DEF Registered
    <3>2. v.pc.seg < w.num_segments /\ v.ap.seg < w.num_segments
          /\ v.fp.seg < w.num_segments
      BY <1>1, <1>2, <3>1
    <3> QED
      BY <3>1, <3>2 DEF TraceEntries, EntryOf
  <2>3. t \in Seq(TraceEntries)
    BY <1>1, <1>5 DEF Maybe
  <2>4. u = Append(t, e)
    BY <1>3, <1>5
  <2> HIDE DEF t, e, u
  <2>5. /\ Len(u) = Len(t) + 1 /\ Len(t) \in Nat
        /\ \A k \in 1..Len(t) : u[k] = t[k]
        /\ u[Len(t) + 1] = e
    BY <2>2, <2>3, <2>4, EntryAdded
  <2>6. Len(u) <= w.current_step
    BY <1>1, <1>2, <1>4, <1>5, <2>5 DEF t
  <2>7. \A k \in 1..Len(u) : k \in 1..Len(t) \/ k = Len(t) + 1
    BY <2>5
  <2>8. \A k \in 1..Len(t) : \A a \in {u[k].pc, u[k].ap, u[k].fp} : a.seg < w.num_segments
    BY <1>4, <1>5, <2>5 DEF t
  <2>9. \A k \in 1..Len(u) : \A a \in {u[k].pc, u[k].ap, u[k].fp} : a.seg < w.num_segments
    BY <2>2, <2>5, <2>7, <2>8
  <2> QED
    BY <2>6, <2>9 DEF TraceKnown, u
<1>6. CASE ~(v.trace # None /\ Registered(v))
  <2>1. w.trace = v.trace
    BY <1>3, <1>6
  <2>2. ASSUME v.trace # None PROVE Len(v.trace) <= w.current_step
    BY <1>1, <1>2, <1>4, <2>2
  <2> QED
    BY <1>4, <2>1, <2>2 DEF TraceKnown
<1> QED
  BY <1>5, <1>6

\* A call that changes neither the trace nor anything it is about.
LEMMA TraceKept ==
  ASSUME NEW v, NEW w, TraceKnown(v), w.trace = v.trace, w.current_step = v.current_step,
         w.num_segments = v.num_segments
  PROVE  TraceKnown(w)
  BY DEF TraceKnown

\* A trace that is empty, if there is one.
LEMMA TraceEmpty ==
  ASSUME NEW w, w.trace \in {None, << >>}, w.current_step \in Nat
  PROVE  TraceKnown(w)
<1>1. Len(<< >>) = 0
  OBVIOUS
<1> QED
  BY <1>1 DEF TraceKnown

\* The trace of every reachable state is known.
LEMMA TraceInvariant == Spec => []TraceInv
<1>1. Init => TraceInv
  <2> SUFFICES ASSUME Init PROVE TraceInv
    OBVIOUS
  <2>1. vm.trace \in {None, << >>} /\ vm.current_step = 0
    BY DEF Init, NewVm
  <2>2. vm.current_step \in Nat
    BY <2>1
  <2> QED
    BY <2>1, <2>2, TraceEmpty DEF TraceInv
<1>2. RunInv /\ RunInv' /\ TraceInv /\ [Next]_vars => TraceInv'
  <2> SUFFICES ASSUME RunInv, RunInv', TraceInv, [Next]_vars PROVE TraceInv'
    OBVIOUS
  <2>0. vm'.current_step \in Nat
    BY DEF RunInv, VmSound, Machines
  <2>1. CASE New
    <3>1. vm'.trace \in {None, << >>}
      BY <2>1 DEF New, NewVm
    <3> QED
      BY <2>0, <3>1, TraceEmpty DEF TraceInv
  <2>2. CASE InitializeSegments \/ InitializeMainEntrypoint \/ InitializeVm
    <3>1. SetUp
      BY <2>2, EntrypointCases
         DEF InitializeSegments, InitializeVm, Call, SetUp, EntrypointLoaded
    <3>2. vm'.trace = vm.trace
      BY <2>2, SegmentsPrepare, EntrypointPrepares, VmPrepares DEF Preparing, Beginning
    <3>3. vm'.trace \in {None, << >>}
      BY <3>1, <3>2 DEF TraceInv
    <3> QED
      BY <2>0, <3>3, TraceEmpty DEF TraceInv
  <2>3. CASE Step
    <3>1. PICK answer : StepTaken(answer)
      BY <2>3, StepIsTaken
    <3>2. CASE StepOf(vm, answer).err # "ok"
      BY <3>1, <3>2 DEF StepTaken, Call, TraceInv, SetUp
    <3>3. CASE StepOf(vm, answer).err = "ok"
      <4>1. /\ Stepped(vm, ExecuteHints(vm, answer).vm, vm') /\ Stepping(vm, vm')
            /\ MachineInv(vm) /\ phase = "running" /\ phase' = "running"
        BY <3>1, <3>3 DEF StepTaken, Call
      <4>2. TraceKnown(vm)
        BY <4>1 DEF TraceInv
      <4>3. TraceKnown(vm')
        BY <4>1, <4>2, TraceKnownStep
      <4> QED
        BY <4>1, <4>3 DEF TraceInv, SetUp
    <3> QED
      BY <3>2, <3>3
  <2>4. CASE ReachFinalPc \/ VerifyRun \/ Relocate \/ WriteOutput \/ UNCHANGED vars
    <3>1. /\ vm'.trace = vm.trace /\ vm'.num_segments = vm.num_segments
          /\ vm'.current_step = vm.current_step
      <4>0. vm \in Machines
        BY DEF RunInv, VmSound
      <4>1. CASE ReachFinalPc \/ UNCHANGED vars
        BY <4>1 DEF ReachFinalPc, vars
      <4>2. CASE VerifyRun
        <5>1. vm' = VerifyAutoDeductions(vm).vm
          BY <4>2 DEF VerifyRun
        <5> QED
          BY <4>0, <5>1 DEF VerifyAutoDeductions, Verified, Result, Machines
      <4>3. CASE Relocate
        BY <4>0, <4>3 DEF Relocate, WithSizes, Machines
      <4>4. CASE WriteOutput
        <5>1. vm' = vm \/ vm' = WithSizes(vm)
          BY <4>4 DEF WriteOutput
        <5> QED
          BY <4>0, <5>1 DEF WithSizes, Machines
      <4> QED
        BY <2>4, <4>1, <4>2, <4>3, <4>4
    <3>2. (SetUp' => SetUp) /\ (phase = "failed" => phase' = "failed")
      BY <2>4 DEF ReachFinalPc, VerifyRun, Relocate, WriteOutput, vars, Call, SetUp
    <3>3. phase' # "failed" => TraceKnown(vm')
      BY <3>1, <3>2, TraceKept DEF TraceInv
    <3> QED
      BY <3>1, <3>2, <3>3 DEF TraceInv
  <2> QED
    BY <2>1, <2>2, <2>3, <2>4 DEF Next
<1> QED
  BY <1>1, <1>2, RunInvariant, PTL DEF Spec

-----------------------------------------------------------------------------
(* Where an address belongs.                                               *)

\* The addresses of the segments before s.
Below(data, s) == {b \in AddressesIn(data) : b.seg < s}

\* A segment has as many addresses as cells.
LEMMA SegmentCounted ==
  ASSUME NEW s \in Nat, NEW n \in Nat
  PROVE  LET S == {RelocatableValue(s, off) : off \in 0..(n - 1)}
         IN  IsFiniteSet(S) /\ Cardinality(S) = n
<1> DEFINE S == {RelocatableValue(s, off) : off \in 0..(n - 1)}
           f == [j \in 1..n |-> RelocatableValue(s, j - 1)]
<1>1. f \in [1..n -> S]
  OBVIOUS
<1>2. \A j, k \in 1..n : f[j] = f[k] => j = k
  BY DEF RelocatableValue
<1>3. \A x \in S : \E j \in 1..n : f[j] = x
  <2> SUFFICES ASSUME NEW off \in 0..(n - 1)
               PROVE  \E j \in 1..n : f[j] = RelocatableValue(s, off)
    OBVIOUS
  <2>1. off + 1 \in 1..n /\ (off + 1) - 1 = off
    OBVIOUS
  <2>2. f[off + 1] = RelocatableValue(s, off)
    BY <2>1
  <2> QED
    BY <2>1, <2>2
<1> HIDE DEF S, f
<1>4. f \in Bijection(1..n, S)
  BY <1>1, <1>2, <1>3 DEF Bijection, Injection, Surjection, IsInjective
<1>5. ExistsBijection(1..n, S)
  BY <1>4 DEF ExistsBijection
<1>6. IsFiniteSet(S) /\ Cardinality(S) = n
  BY <1>5, FS_NatBijection, FS_CountingElements
<1> QED
  BY <1>6 DEF S

\* One segment more: its cells are counted.
LEMMA CellsBelow ==
  ASSUME NEW data \in Seq(Seq(Elements)), NEW s \in Nat, s < Len(data),
         IsFiniteSet(Below(data, s))
  PROVE  /\ IsFiniteSet(Below(data, s + 1))
         /\ Cardinality(Below(data, s + 1)) = Cardinality(Below(data, s)) + Len(data[s + 1])
<1> DEFINE n == Len(data[s + 1])
           S == {RelocatableValue(s, off) : off \in 0..(n - 1)}
           B == Below(data, s)
           C == Below(data, s + 1)
<1>1. Len(data) \in Nat /\ s + 1 \in 1..Len(data)
  BY LenProperties
<1>2. n \in Nat
  BY <1>1, ElementOfSeq, LenProperties
<1>3. /\ AddressesIn(data) \subseteq Relocatables
      /\ \A b \in Relocatables :
           b \in AddressesIn(data) <=> b.seg < Len(data) /\ b.off < Len(data[b.seg + 1])
  BY AddressesInside
<1> HIDE DEF n
<1>4. S \subseteq Relocatables /\ \A b \in Relocatables : b \in S <=> b.seg = s /\ b.off < n
  <2>1. \A off \in 0..(n - 1) : RelocatableValue(s, off) \in Relocatables
          /\ RelocatableValue(s, off).seg = s /\ RelocatableValue(s, off).off = off /\ off < n
    BY <1>2 DEF RelocatableValue, Relocatables
  <2>2. ASSUME NEW b \in Relocatables, b.seg = s, b.off < n
        PROVE  b \in S
    <3>1. b.off \in 0..(n - 1) /\ b = RelocatableValue(s, b.off)
      BY <1>2, <2>2, RelocatableFields
    <3> QED
      BY <3>1
  <2> QED
    BY <2>1, <2>2
<1>5. IsFiniteSet(S) /\ Cardinality(S) = n
  BY <1>2, SegmentCounted
<1> HIDE DEF S
<1>6. C = B \union S
  <2>1. \A b \in Relocatables : b \in C <=> b \in B \/ b \in S
    <3> SUFFICES ASSUME NEW b \in Relocatables PROVE b \in C <=> b \in B \/ b \in S
      OBVIOUS
    <3>1. b.seg \in Nat /\ b.off \in Nat
      BY RelocatableFields
    <3>2. b.seg < s + 1 <=> b.seg < s \/ b.seg = s
      BY <3>1
    <3>3. b.seg = s => (b \in AddressesIn(data) <=> b.off < n)
      BY <1>3 DEF n
    <3> QED
      BY <1>4, <3>2, <3>3 DEF Below
  <2>2. C \subseteq Relocatables /\ B \subseteq Relocatables
    BY <1>3 DEF Below
  <2> QED
    BY <1>4, <2>1, <2>2
<1>7. B \intersect S = {}
  <2> SUFFICES ASSUME NEW b \in B, b \in S PROVE FALSE
    OBVIOUS
  <2>1. b \in Relocatables /\ b.seg < s /\ b.seg = s
    BY <1>3, <1>4 DEF Below
  <2> QED
    BY <2>1
<1> HIDE DEF B, C
<1>8. /\ IsFiniteSet(B \union S)
      /\ Cardinality(B \union S) = Cardinality(B) + Cardinality(S) - Cardinality(B \intersect S)
  BY <1>5, FS_Union DEF B
<1>9. Cardinality(B \intersect S) = 0 /\ Cardinality(B) \in Nat
  BY <1>7, FS_EmptySet, FS_CardinalityType DEF B
<1>10. Cardinality(C) = Cardinality(B) + n
  BY <1>2, <1>5, <1>6, <1>8, <1>9
<1> QED
  BY <1>6, <1>8, <1>10 DEF B, C, n

\* Where a segment starts in a relocated memory.
StartOf(s, m, data, table) == IF s = Len(data) THEN Len(m) ELSE table[s + 1]

\* A segment is copied after all the cells of the segments before it.
LEMMA PlacesCounted ==
  ASSUME NEW data \in Seq(Seq(Elements)), NEW table \in Seq(Nat), NEW m \in Seq(Relocated),
         SegmentsCopied(Len(data), m, data, table)
  PROVE  \A s \in 0..Len(data) :
           /\ IsFiniteSet(Below(data, s))
           /\ StartOf(s, m, data, table) = 1 + Cardinality(Below(data, s))
<1> DEFINE N == Len(data)
           start(s) == StartOf(s, m, data, table)
           good(s) == IsFiniteSet(Below(data, s)) /\ start(s) = 1 + Cardinality(Below(data, s))
           g == [s \in 0..N |-> IF good(s) THEN TRUE ELSE FALSE]
<1>1. /\ Len(m) = IF N = 0 THEN 1 ELSE table[N] + Len(data[N])
      /\ \A k \in 1..N : table[k] = IF k = 1 THEN 1 ELSE table[k - 1] + Len(data[k - 1])
      /\ N <= Len(table)
  BY DEF SegmentsCopied
<1>2. N \in Nat /\ Len(table) \in Nat
  BY LenProperties
<1>3. \A k \in 1..N : table[k] \in Nat /\ Len(data[k]) \in Nat
  <2> SUFFICES ASSUME NEW k \in 1..N PROVE table[k] \in Nat /\ Len(data[k]) \in Nat
    OBVIOUS
  <2>1. k \in 1..Len(table) /\ k \in 1..Len(data)
    BY <1>1, <1>2
  <2> QED
    BY <2>1, ElementOfSeq, LenProperties
<1>4. good(0)
  <2>1. Below(data, 0) = {}
    <3>1. \A b \in AddressesIn(data) : b.seg \in Nat
      BY AddressesInside, RelocatableFields
    <3> QED
      BY <3>1 DEF Below
  <2>2. start(0) = 1
    <3>1. CASE N = 0
      BY <1>1, <3>1 DEF StartOf
    <3>2. CASE N # 0
      <4>1. 1 \in 1..N /\ 0 + 1 = 1
        BY <1>2, <3>2
      <4>2. table[1] = 1
        BY <1>1, <4>1
      <4> QED
        BY <3>2, <4>1, <4>2 DEF StartOf
    <3> QED
      BY <3>1, <3>2
  <2>3. IsFiniteSet({}) /\ Cardinality({}) = 0
    BY FS_EmptySet
  <2>4. Cardinality(Below(data, 0)) = 0
    BY <2>1, <2>3
  <2> HIDE DEF start
  <2>5. start(0) = 1 + Cardinality(Below(data, 0))
    BY <2>2, <2>4
  <2> QED
    BY <2>1, <2>3, <2>5
<1>5. ASSUME NEW n \in 1..N, good(n - 1)
      PROVE  good(n)
  <2> DEFINE s == n - 1
             x == start(s)
             l == Len(data[n])
             B == Below(data, s)
  <2>1. s \in Nat /\ s < N /\ s + 1 = n
    BY <1>2
  <2>2. start(n) = x + l
    <3>1. x = table[n]
      BY <2>1 DEF StartOf
    <3>2. CASE n = N
      <4>1. start(n) = Len(m)
        BY <3>2 DEF StartOf
      <4>2. N # 0
        BY <1>2, <3>2
      <4> QED
        BY <1>1, <3>1, <3>2, <4>1, <4>2
    <3>3. CASE n # N
      <4>1. start(n) = table[n + 1]
        BY <3>3 DEF StartOf
      <4>2. n + 1 \in 1..N /\ n + 1 # 1 /\ (n + 1) - 1 = n
        BY <1>2, <3>3
      <4>3. table[n + 1] = table[n] + Len(data[n])
        BY <1>1, <4>2
      <4> QED
        BY <3>1, <4>1, <4>3
    <3> QED
      BY <3>2, <3>3
  <2>3. /\ IsFiniteSet(Below(data, n))
        /\ Cardinality(Below(data, n)) = Cardinality(B) + l
    <3>1. IsFiniteSet(B)
      BY <1>5
    <3> HIDE DEF B, s
    <3> USE DEF B
    <3>2. /\ IsFiniteSet(Below(data, s + 1))
          /\ Cardinality(Below(data, s + 1)) = Cardinality(Below(data, s)) + Len(data[s + 1])
      BY <2>1, <3>1, CellsBelow
    <3> QED
      BY <2>1, <3>2
  <2>4. Cardinality(B) \in Nat /\ x = 1 + Cardinality(B)
    BY <1>5, FS_CardinalityType
  <2>5. l \in Nat
    BY <1>3
  <2> DEFINE y == start(n)
             c == Cardinality(Below(data, n))
             d == Cardinality(B)
  <2> HIDE DEF x, l, B, y, c, d
  <2>6. y = x + l /\ c = d + l /\ d \in Nat /\ x = 1 + d
    BY <2>2, <2>3, <2>4 DEF y, c, d
  <2>7. y = 1 + c
    BY <2>5, <2>6
  <2> QED
    BY <2>3, <2>7 DEF y, c
<1> HIDE DEF good
<1>6. g[0] \in {TRUE}
  BY <1>2, <1>4
<1>7. ASSUME NEW n \in 1..N, g[n - 1] \in {TRUE}
      PROVE  g[n] \in {TRUE}
  <2>1. n - 1 \in 0..N /\ n \in 0..N
    BY <1>2
  <2>2. good(n - 1)
    BY <1>7, <2>1
  <2>3. good(n)
    BY <1>5, <2>2
  <2> QED
    BY <2>1, <2>3
<1> HIDE DEF g
<1>8. \A s \in 0..N : g[s] \in {TRUE}
  BY <1>2, <1>6, <1>7, RecursionStays
<1>9. \A s \in 0..N : good(s)
  BY <1>8 DEF g
<1> QED
  BY <1>9 DEF good, N

-----------------------------------------------------------------------------
(* The relocation.                                                         *)

\* Place and ValueInPlace, in a memory with these contents.
PlaceIn(data, a) == 1 + Cardinality(Below(data, a.seg)) + a.off
ValueIn(data, v) == IF IsRel(v) THEN PlaceIn(data, v) ELSE IF v = None THEN None ELSE v.num

\* The table has the places of the addresses whose segment exists.
TablePlaces(data, table) ==
  \A a \in Relocatables :
    a.seg < Len(data) =>
      a.seg < Len(table) /\ table[a.seg + 1] + a.off = PlaceIn(data, a)

\* A memory in which everything is where it belongs.
MemoryExact(data, m) ==
  /\ Len(m) = 1 + Cardinality(AddressesIn(data))
  /\ \A a \in AddressesIn(data) : m[PlaceIn(data, a) + 1] = ValueIn(data, Cell(data, a))

TraceExact(data, trace, relocated) ==
  trace # None =>
    relocated = [k \in 1..Len(trace) |-> [pc |-> PlaceIn(data, trace[k].pc),
                                          ap |-> PlaceIn(data, trace[k].ap),
                                          fp |-> PlaceIn(data, trace[k].fp)]]

\* A table that all the segments could be copied with has their places.
LEMMA TableExact ==
  ASSUME NEW data \in Seq(Seq(Elements)), NEW table \in Seq(Nat), NEW m \in Seq(Relocated),
         SegmentsCopied(Len(data), m, data, table)
  PROVE  TablePlaces(data, table)
<1> SUFFICES ASSUME NEW a \in Relocatables, a.seg < Len(data)
             PROVE  a.seg < Len(table) /\ table[a.seg + 1] + a.off = PlaceIn(data, a)
  BY DEF TablePlaces
<1> DEFINE s == a.seg
           c == Cardinality(Below(data, s))
<1>1. s \in Nat /\ a.off \in Nat /\ Len(data) \in Nat /\ Len(table) \in Nat
  BY RelocatableFields, LenProperties
<1>2. Len(data) <= Len(table)
  BY DEF SegmentsCopied
<1>3. s \in 0..Len(data) /\ s # Len(data) /\ s < Len(table)
  BY <1>1, <1>2
<1>4. table[s + 1] = 1 + c
  BY <1>3, PlacesCounted DEF StartOf
<1> QED
  BY <1>3, <1>4 DEF PlaceIn

\* Then the memory they are copied to is exact.
LEMMA CopiedExact ==
  ASSUME NEW data \in Seq(Seq(Elements)), NEW table \in Seq(Nat), NEW m \in Seq(Relocated),
         SegmentsCopied(Len(data), m, data, table), CellsKnown(data, Len(data))
  PROVE  MemoryExact(data, m)
<1> DEFINE N == Len(data)
<1>0. N \in Nat /\ TablePlaces(data, table)
  BY LenProperties, TableExact
<1>1. Len(m) = 1 + Cardinality(AddressesIn(data))
  <2>1. Below(data, N) = AddressesIn(data)
    BY AddressesInside DEF Below
  <2>2. N \in 0..N
    BY <1>0
  <2>3. StartOf(N, m, data, table) = 1 + Cardinality(Below(data, N))
    BY <2>2, PlacesCounted
  <2> QED
    BY <2>1, <2>3 DEF StartOf
<1>2. ASSUME NEW a \in AddressesIn(data)
      PROVE  m[PlaceIn(data, a) + 1] = ValueIn(data, Cell(data, a))
  <2> DEFINE k == a.seg + 1
             i == a.off + 1
             v == data[k][i]
             p == PlaceIn(data, a)
  <2>1. /\ a \in Relocatables /\ a.seg < N /\ a.off < Len(data[k])
        /\ a.seg \in Nat /\ a.off \in Nat
    BY AddressesInside, RelocatableFields
  <2>2. Cell(data, a) = v
    BY <2>1 DEF Cell
  <2>3. k \in 1..N
    BY <1>0, <2>1
  <2>4. Len(data[k]) \in Nat
    BY <2>3, ElementOfSeq, LenProperties
  <2>5. i \in 1..Len(data[k])
    BY <2>1, <2>4
  <2>6. m[table[k] + i] = RelocatedValue(v, table) /\ RelocatesTo(v, table)
    BY <2>3, <2>5 DEF SegmentsCopied
  <2>7. table[k] + a.off = p /\ table[k] \in Nat
    <3>1. a.seg < Len(table) /\ Len(table) \in Nat
      BY <1>0, <2>1, LenProperties DEF TablePlaces
    <3> DEFINE s == a.seg
               l == Len(table)
    <3>2. k \in 1..l
      <4>1. s \in Nat /\ l \in Nat /\ s < l
        BY <2>1, <3>1
      <4> HIDE DEF s, l
      <4>2. s + 1 \in 1..l
        BY <4>1
      <4> QED
        BY <4>2 DEF s
    <3> QED
      BY <1>0, <2>1, <3>2, ElementOfSeq DEF TablePlaces
  <2>8. table[k] + i = p + 1
    <3> DEFINE x == table[k]
               o == a.off
    <3>1. x + o = p /\ x \in Nat /\ o \in Nat /\ i = o + 1
      BY <2>1, <2>7
    <3> HIDE DEF x, o, p, i
    <3>2. x + i = p + 1
      BY <3>1
    <3> QED
      BY <3>2 DEF x
  <2>9. v \in Maybe(Known(N))
    BY <2>1, <2>2 DEF CellsKnown
  <2> HIDE DEF v, p, k, i
  <2>10. RelocatedValue(v, table) = ValueIn(data, v)
    <3>1. CASE v = None
      BY <3>1 DEF RelocatedValue, ValueIn, IsRel
    <3>2. CASE v # None /\ IsInt(v)
      BY <3>2 DEF RelocatedValue, RelocateValue, ValueIn, IsRel, IsInt, Ok
    <3>3. CASE v # None /\ ~IsInt(v)
      <4>1. v \in Relocatables /\ IsRel(v) /\ v.seg < N /\ v.seg \in Nat
        BY <2>9, <3>3, KnownKinds DEF Maybe
      <4>2. v.seg < Len(table) /\ table[v.seg + 1] + v.off = PlaceIn(data, v)
        BY <1>0, <4>1 DEF TablePlaces
      <4>3. ~(Len(table) <= v.seg)
        BY <4>1, <4>2, LenProperties
      <4> QED
        BY <3>3, <4>1, <4>2, <4>3 DEF RelocatedValue, RelocateValue, ValueIn, Ok
    <3> QED
      BY <3>1, <3>2, <3>3
  <2> QED
    BY <2>2, <2>6, <2>8, <2>10 DEF p
<1> QED
  BY <1>1, <1>2 DEF MemoryExact, N

\* And the trace is exact that is relocated with the table.
LEMMA TraceIsExact ==
  ASSUME NEW data, NEW table \in Seq(Nat), TablePlaces(data, table),
         NEW v, v.trace \in Maybe(Seq(TraceEntries)), TraceKnown(v),
         v.num_segments = Len(data),
         NEW t, t = (IF v.trace = None THEN Ok(None) ELSE RelocateTrace(v.trace, table)),
         t.err = "ok"
  PROVE  TraceExact(data, v.trace, t.val)
<1> SUFFICES ASSUME v.trace # None
             PROVE  t.val = [k \in 1..Len(v.trace) |->
                               [pc |-> PlaceIn(data, v.trace[k].pc),
                                ap |-> PlaceIn(data, v.trace[k].ap),
                                fp |-> PlaceIn(data, v.trace[k].fp)]]
  BY DEF TraceExact
<1> DEFINE trace == v.trace
           number(a) == table[a.seg + 1] + a.off
<1>1. trace \in Seq(TraceEntries)
  BY DEF Maybe
<1>2. t.val = [k \in 1..Len(trace) |-> [pc |-> number(trace[k].pc), ap |-> number(trace[k].ap),
                                        fp |-> number(trace[k].fp)]]
  <2>1. t = RelocateTrace(trace, table)
    OBVIOUS
  <2>2. RelocateTrace(trace, table).val =
          [k \in 1..Len(trace) |-> [pc |-> number(trace[k].pc), ap |-> number(trace[k].ap),
                                    fp |-> number(trace[k].fp)]]
    <3>1. RelocateTrace(trace, table).err = "ok"
      BY <2>1
    <3> HIDE DEF trace
    <3> QED
      BY <3>1 DEF RelocateTrace, Ok, Err
  <2> QED
    BY <2>1, <2>2
<1>3. ASSUME NEW k \in 1..Len(trace), NEW a \in {trace[k].pc, trace[k].ap, trace[k].fp}
      PROVE  number(a) = PlaceIn(data, a)
  <2>1. trace[k] \in TraceEntries
    BY <1>1, ElementOfSeq
  <2>2. a \in Relocatables
    BY <2>1 DEF TraceEntries
  <2>3. a.seg < Len(data)
    BY DEF TraceKnown
  <2> QED
    BY <2>2, <2>3 DEF TablePlaces
<1> HIDE DEF number, trace
<1>4. \A k \in 1..Len(trace) :
        /\ number(trace[k].pc) = PlaceIn(data, trace[k].pc)
        /\ number(trace[k].ap) = PlaceIn(data, trace[k].ap)
        /\ number(trace[k].fp) = PlaceIn(data, trace[k].fp)
  BY <1>3
<1> QED
  BY <1>2, <1>4 DEF trace

\* A relocation that succeeds is exact, for any program and with any sizes of
\* the segments, those that asking for the output has computed included.
THEOREM RunRelocationExact == Spec => []RelocationExact
<1> DEFINE Exact == phase = "relocated" =>
                      /\ MemoryExact(Data, runner.relocated_memory)
                      /\ TraceExact(Data, vm.trace, runner.relocated_trace)
<1>1. Exact => RelocationExact
  BY DEF RelocationExact, MemoryExact, TraceExact, Place, PlaceIn, ValueInPlace, ValueIn, Below
<1>2. Init => Exact
  BY DEF Init
<1>3. RunInv /\ TraceInv /\ Exact /\ [Next]_vars => Exact'
  <2> SUFFICES ASSUME RunInv, TraceInv, Exact, [Next]_vars, phase' = "relocated"
               PROVE  MemoryExact(Data', runner'.relocated_memory)
                        /\ TraceExact(Data', vm'.trace, runner'.relocated_trace)
    OBVIOUS
  <2>0. vm \in Machines /\ MachineMemory(vm.memory, vm.num_segments)
    BY DEF RunInv, VmSound
  <2>1. CASE Relocate
    <3> DEFINE sized == WithSizes(vm)
               table == RelocationTable(sized.segment_used_sizes)
               m     == RelocateMemory(runner.relocated_memory, vm.memory.data, table)
               t     == IF vm.trace = None THEN Ok(None) ELSE RelocateTrace(vm.trace, table)
               err   == IF m.err # "ok" THEN m.err ELSE t.err
    <3>1. /\ phase = "verified" /\ phase' = (IF err = "ok" THEN "relocated" ELSE "failed")
          /\ vm' = sized
          /\ runner' = [runner EXCEPT !.relocated_memory = m.memory,
                                      !.relocated_trace = IF m.err = "ok" THEN t.val ELSE @]
      BY <2>1 DEF Relocate, Call
    <3>2. m.err = "ok" /\ t.err = "ok"
      BY <3>1
    <3>3. /\ runner.relocated_memory = << >> /\ runner \in RunnerStates /\ VmSound(vm)
          /\ TraceKnown(vm)
      BY <3>1 DEF RunInv, RunTypes, PhaseInv, TraceInv
    <3>4. /\ sized.segment_used_sizes \in Seq(Nat) /\ sized.memory = vm.memory
          /\ sized.trace = vm.trace
      BY <3>3, WithSizesStep
    <3>5. table \in Seq(Nat)
      BY <3>4, TableKnown
    <3> HIDE DEF sized, table
    <3>6. Data \in Seq(Seq(Elements)) /\ Len(Data) = vm.num_segments
          /\ CellsKnown(Data, Len(Data))
      BY <2>0, SegmentsCounted DEF MachineMemory, Data
    <3>7. m.memory \in Seq(Relocated) /\ SegmentsCopied(Len(Data), m.memory, Data, table)
      <4>1. m = RelocateMemory(<< >>, Data, table)
        BY <3>3 DEF Data
      <4>2. WellRelocated(RelocateMemory(<< >>, Data, table), Data, table)
        BY <3>5, <3>6, RelocateMemoryStep
      <4> HIDE DEF m
      <4> QED
        BY <3>2, <4>1, <4>2 DEF WellRelocated, Relocations
    <3>8. runner'.relocated_memory = m.memory /\ runner'.relocated_trace = t.val
      BY <3>1, <3>2, <3>3 DEF RunnerStates
    <3>9. Data' = Data /\ vm'.trace = vm.trace
      BY <3>1, <3>4 DEF Data
    <3> HIDE DEF m, err
    <3>10. MemoryExact(Data, m.memory)
      BY <3>5, <3>6, <3>7, CopiedExact
    <3>11. TablePlaces(Data, table)
      BY <3>5, <3>6, <3>7, TableExact
    <3>12. vm.trace \in Maybe(Seq(TraceEntries)) /\ t.err = "ok"
           /\ t = (IF vm.trace = None THEN Ok(None) ELSE RelocateTrace(vm.trace, table))
      BY <2>0, <3>2 DEF Machines
    <3> HIDE DEF t
    <3>13. TraceExact(Data, vm.trace, t.val)
      BY <3>3, <3>5, <3>6, <3>11, <3>12, TraceIsExact
    <3> QED
      BY <3>8, <3>9, <3>10, <3>13
  <2>2. CASE WriteOutput
    <3>1. phase = "relocated" /\ runner' = runner
      BY <2>2 DEF WriteOutput
    <3>2. vm' = vm \/ vm' = WithSizes(vm)
      BY <2>2 DEF WriteOutput
    <3>3. vm'.memory = vm.memory /\ vm'.trace = vm.trace
      BY <2>0, <3>2 DEF WithSizes, Machines
    <3> QED
      BY <3>1, <3>3 DEF Data
  <2>3. CASE UNCHANGED vars
    BY <2>3 DEF vars, Data
  <2>4. CASE New \/ InitializeSegments \/ InitializeVm \/ Step \/ ReachFinalPc \/ VerifyRun
    BY <2>4 DEF New, InitializeSegments, InitializeVm, Step, ReachFinalPc, VerifyRun, Call
  <2>5. CASE InitializeMainEntrypoint
    BY <2>5, EntrypointCases DEF EntrypointLoaded, Call
  <2> QED
    BY <2>1, <2>2, <2>3, <2>4, <2>5 DEF Next
<1> HIDE DEF Exact
<1> QED
  BY <1>1, <1>2, <1>3, RunInvariant, TraceInvariant, PTL DEF Spec

-----------------------------------------------------------------------------
(* The machine computes with the operators of the vm.                      *)

\* The arithmetic of values.
LEMMA SameArithmetic ==
  /\ \A v : Machine!IsInt(v) = IsInt(v)
  /\ \A v : Machine!IsRel(v) = IsRel(v)
  /\ \A n : Machine!IntValue(n) = IntValue(n)
  /\ \A v : Machine!Ok(v) = Ok(v)
  /\ \A v : Machine!Err(v) = Err(v)
  /\ \A v, n : Machine!AddIntMod(v, n) = AddIntMod(v, n)
  /\ \A v, n : Machine!AddUsize(v, n) = AddUsize(v, n)
  /\ \A v, w : Machine!AddMod(v, w) = AddMod(v, w)
  /\ \A v, w : Machine!TruncMod(v, w) = TruncMod(v, w)
  /\ \A v, w : Machine!TruncDiv(v, w) = TruncDiv(v, w)
<1>1. \A x : Machine!IsInt(x) = IsInt(x) /\ Machine!IsRel(x) = IsRel(x)
  BY DEF Machine!IsInt, IsInt, Machine!IsRel, IsRel
<1>2. \A x : Machine!IntValue(x) = IntValue(x) /\ Machine!Ok(x) = Ok(x) /\ Machine!Err(x) = Err(x)
  BY DEF Machine!IntValue, IntValue, Machine!Ok, Ok, Machine!Err, Err
<1>3. \A x, y : Machine!WithOffset(x, y) = WithOffset(x, y)
  BY DEF Machine!WithOffset, WithOffset, Machine!Ok, Ok, Machine!Err, Err,
         Machine!RelocatableValue, RelocatableValue
<1>4. \A x : Machine!Usize(x) = Usize(x)
  BY DEF Machine!Usize, Usize, Machine!Ok, Ok, Machine!Err, Err
<1>5. ASSUME NEW v, NEW n PROVE Machine!AddIntMod(v, n) = AddIntMod(v, n)
  BY <1>1, <1>2, <1>3 DEF Machine!AddIntMod, AddIntMod
<1>6. ASSUME NEW v, NEW n PROVE Machine!AddUsize(v, n) = AddUsize(v, n)
  BY <1>1, <1>2, <1>4 DEF Machine!AddUsize, AddUsize, Machine!RelocatableValue, RelocatableValue
<1>7. ASSUME NEW v, NEW w PROVE Machine!AddMod(v, w) = AddMod(v, w)
  BY <1>1, <1>2, <1>3 DEF Machine!AddMod, AddMod
<1>8. \A v, w : Machine!TruncDiv(v, w) = TruncDiv(v, w)
  BY DEF Machine!TruncDiv, TruncDiv
<1>9. ASSUME NEW v, NEW w PROVE Machine!TruncMod(v, w) = TruncMod(v, w)
  BY <1>8 DEF Machine!TruncMod, TruncMod
<1> QED
  BY <1>1, <1>2, <1>5, <1>6, <1>7, <1>8, <1>9

\* The decoding of words.
LEMMA SameDecoding ==
  ASSUME NEW word, NEW imm
  PROVE  /\ Machine!WordMax = WordMax
         /\ Machine!DecodeError(word, imm) = DecodeError(word, imm)
         /\ Machine!Instruction(word, imm) = Instruction(word, imm)
<1>1. Machine!WordMax = WordMax
  BY DEF Machine!WordMax, WordMax
<1>2. \A off, width : Machine!Flags(word, off, width) = Flags(word, off, width)
  BY DEF Machine!Flags, Flags
<1>3. \A i : Machine!DecodeOffset(word, i) = DecodeOffset(word, i)
  BY DEF Machine!DecodeOffset, DecodeOffset
<1>4. /\ Machine!Op1Src(word) = Op1Src(word) /\ Machine!ResLogic(word) = ResLogic(word)
      /\ Machine!PcFlag(word) = PcFlag(word) /\ Machine!ApFlag(word) = ApFlag(word)
      /\ Machine!OpcodeOf(word) = OpcodeOf(word)
  BY <1>2 DEF Machine!Op1Src, Op1Src, Machine!ResLogic, ResLogic, Machine!PcFlag, PcFlag,
              Machine!ApFlag, ApFlag, Machine!OpcodeOf, OpcodeOf
<1>5. Machine!DecodeError(word, imm) = DecodeError(word, imm)
  BY <1>4 DEF Machine!DecodeError, DecodeError
<1>6. \A bit : Machine!Register(bit) = Register(bit)
  BY DEF Machine!Register, Register
<1>7. Machine!Instruction(word, imm) = Instruction(word, imm)
  BY <1>2, <1>3, <1>4, <1>6 DEF Machine!Instruction, Instruction
<1> QED
  BY <1>1, <1>5, <1>7

\* The size of an instruction.
LEMMA SameSize ==
  ASSUME NEW i
  PROVE  Machine!Size(i) = Size(i)
  BY DEF Machine!Size, Size


-----------------------------------------------------------------------------
(* The memory of the machine.                                              *)

\* The assigned cells of a vm, and its registers.
Mem(v) ==
  [a \in {b \in AddressesIn(v.memory.data) : Cell(v.memory.data, b) # None} |->
     Cell(v.memory.data, a)]

\* A cell of the machine is one that the vm has assigned.
LEMMA MemKnown ==
  ASSUME NEW v, v.memory.data \in Seq(Seq(Elements))
  PROVE  /\ DOMAIN Mem(v) \subseteq Relocatables
         /\ \A a \in Relocatables : a \in DOMAIN Mem(v) <=> Cell(v.memory.data, a) # None
         /\ \A a \in DOMAIN Mem(v) : Mem(v)[a] = Cell(v.memory.data, a)
         /\ \A a \in DOMAIN Mem(v) : Mem(v)[a] # None
<1> DEFINE data == v.memory.data
           A    == {b \in AddressesIn(data) : Cell(data, b) # None}
<1>1. DOMAIN Mem(v) = A /\ \A a \in A : Mem(v)[a] = Cell(data, a)
  BY DEF Mem
<1>2. /\ AddressesIn(data) \subseteq Relocatables
      /\ \A b \in Relocatables :
           b \in AddressesIn(data) <=> b.seg < Len(data) /\ b.off < Len(data[b.seg + 1])
  BY AddressesInside
<1>3. \A b \in Relocatables : Cell(data, b) # None => b \in AddressesIn(data)
  BY <1>2 DEF Cell
<1> HIDE DEF data
<1> QED
  BY <1>1, <1>2, <1>3 DEF data

\* It grows when no assigned cell changes.
LEMMA MemGrows ==
  ASSUME NEW v, NEW w, v.memory.data \in Seq(Seq(Elements)),
         w.memory.data \in Seq(Seq(Elements)), Keeps(v, w)
  PROVE  Machine!Grows(Mem(v), Mem(w))
<1>1. ASSUME NEW a \in DOMAIN Mem(v)
      PROVE  a \in DOMAIN Mem(w) /\ Mem(w)[a] = Mem(v)[a]
  <2>1. a \in Relocatables /\ Mem(v)[a] = Cell(v.memory.data, a)
        /\ Cell(v.memory.data, a) # None
    BY MemKnown
  <2>2. Cell(w.memory.data, a) = Cell(v.memory.data, a)
    BY <2>1 DEF Keeps
  <2> QED
    BY <2>1, <2>2, MemKnown
<1> QED
  BY <1>1 DEF Machine!Grows

\* Only an instruction with an immediate has one.
LEMMA ImmediateIgnored ==
  ASSUME NEW word, Op1Src(word) \in {0, 2, 4}, NEW x, NEW y
  PROVE  Instruction(word, x) = Instruction(word, y)
<1> DEFINE op1_addr == CASE Op1Src(word) = 0 -> "Op0" [] Op1Src(word) = 1 -> "Imm"
                         [] Op1Src(word) = 2 -> "FP"  [] Op1Src(word) = 4 -> "AP"
<1>1. op1_addr # "Imm"
  <2>1. CASE Op1Src(word) = 0
    BY <2>1
  <2>2. CASE Op1Src(word) = 2
    BY <2>2
  <2>3. CASE Op1Src(word) = 4
    BY <2>3
  <2> QED
    BY <2>1, <2>2, <2>3
<1>2. (IF op1_addr = "Imm" THEN x ELSE None) = (IF op1_addr = "Imm" THEN y ELSE None)
  BY <1>1
<1> QED
  BY <1>2, Zenon DEF Instruction

\* What decodes is the same instruction when the memory has grown: an
\* immediate was there.
LEMMA DecodesStays ==
  ASSUME NEW m, NEW n, Machine!Grows(m, n), NEW pc, Machine!Decodes(m, pc)
  PROVE  /\ Machine!Decodes(n, pc)
         /\ Machine!InstructionIn(n, pc) = Machine!InstructionIn(m, pc)
<1> DEFINE next == AddUsize(pc, 1).val
           x    == Machine!Immediate(m, pc)
           y    == Machine!Immediate(n, pc)
           word == m[pc].num
<1>1. /\ pc \in DOMAIN m /\ IsInt(m[pc]) /\ word <= WordMax
      /\ DecodeError(word, x) = "ok"
  BY SameArithmetic, SameDecoding
     DEF Machine!Decodes, Machine!HoldsInt, Machine!Holds
<1>2. pc \in DOMAIN n /\ n[pc] = m[pc]
  BY <1>1 DEF Machine!Grows
<1>3. /\ x = IF next \in DOMAIN m /\ IsInt(m[next]) THEN m[next].num ELSE None
      /\ y = IF next \in DOMAIN n /\ IsInt(n[next]) THEN n[next].num ELSE None
  BY SameArithmetic DEF Machine!Immediate, Machine!HoldsInt, Machine!Holds
<1> HIDE DEF next, x, y
<1>4. DecodeError(word, y) = "ok" /\ Instruction(word, y) = Instruction(word, x)
  <2>1. CASE Op1Src(word) = 1
    <3>1. x # None
      BY <1>1, <2>1 DEF DecodeError
    <3>2. y = x
      BY <1>3, <3>1 DEF Machine!Grows
    <3> QED
      BY <1>1, <3>2
  <2>2. CASE Op1Src(word) # 1
    <3>1. Op1Src(word) \in {0, 2, 4}
      BY <1>1, <2>2 DEF DecodeError
    <3>2. DecodeError(word, y) = DecodeError(word, x)
      BY <2>2 DEF DecodeError
    <3>3. Instruction(word, y) = Instruction(word, x)
      BY <3>1, ImmediateIgnored
    <3> QED
      BY <1>1, <3>2, <3>3
  <2> QED
    BY <2>1, <2>2
<1>5. Machine!Decodes(n, pc)
  BY <1>1, <1>2, <1>4, SameArithmetic, SameDecoding
     DEF Machine!Decodes, Machine!HoldsInt, Machine!Holds, x, y
<1>6. Machine!InstructionIn(n, pc) = Machine!InstructionIn(m, pc)
  BY <1>2, <1>4, SameDecoding DEF Machine!InstructionIn, x, y
<1> QED
  BY <1>5, <1>6

\* The machine decodes what the vm decodes.
LEMMA DecodesAt ==
  ASSUME NEW v, MachineInv(v), DecodeErrorAt(v.memory.data, v.pc) = "ok"
  PROVE  /\ Machine!Decodes(Mem(v), v.pc)
         /\ Machine!InstructionIn(Mem(v), v.pc) = InstructionAt(v.memory.data, v.pc)
         /\ v.pc \in Relocatables /\ IsRel(v.pc)
<1> DEFINE data == v.memory.data
           pc   == v.pc
           next == AddUsize(pc, 1).val
           m    == Mem(v)
<1>1. /\ data \in Seq(Seq(Elements)) /\ pc \in Known(v.num_segments)
      /\ CellsKnown(data, v.num_segments)
  BY SegmentsCounted DEF MachineInv, MachineMemory
<1>2. /\ IsInt(WordAt(data, pc)) /\ AddUsize(pc, 1).err = "ok"
      /\ WordAt(data, pc).num <= WordMax
      /\ DecodeError(WordAt(data, pc).num, ImmediateAt(data, pc)) = "ok"
  <2>1. DecodeErrorAt(data, pc) = "ok"
    OBVIOUS
  <2> HIDE DEF data, pc
  <2>2. IsInt(WordAt(data, pc)) /\ AddUsize(pc, 1).err = "ok"
    BY <2>1 DEF DecodeErrorAt
  <2>3. WordAt(data, pc).num <= WordMax
    <3>1. WordAt(data, pc) \in Maybe(Known(v.num_segments))
      BY <1>1, KnownKinds DEF WordAt, Maybe, CellsKnown, data
    <3>2. WordAt(data, pc).num \in Nat
      BY <2>2, <3>1, KnownKinds DEF Maybe, IsInt
    <3>3. WordMax \in Int
      BY OffsetAssumption DEF WordMax
    <3>4. ~(WordAt(data, pc).num > WordMax)
      BY <2>1, <2>2 DEF DecodeErrorAt
    <3> QED
      BY <3>2, <3>3, <3>4
  <2>4. DecodeError(WordAt(data, pc).num, ImmediateAt(data, pc)) = "ok"
    BY <2>1, <2>2, <2>3 DEF DecodeErrorAt
  <2> QED
    BY <2>2, <2>3, <2>4
<1>3. IsRel(pc) /\ WordAt(data, pc) = Cell(data, pc)
  BY <1>2 DEF WordAt, IsInt
<1>4. pc \in Relocatables /\ next \in Relocatables
  BY <1>1, <1>2, <1>3, KnownKinds, AddUsizeKnown
<1>5. /\ \A a \in Relocatables : a \in DOMAIN m <=> Cell(data, a) # None
      /\ \A a \in DOMAIN m : m[a] = Cell(data, a)
  BY <1>1, MemKnown
<1> HIDE DEF data, pc, next, m
<1>6. pc \in DOMAIN m /\ m[pc] = Cell(data, pc)
  BY <1>2, <1>3, <1>4, <1>5 DEF IsInt
<1>7. Machine!Immediate(m, pc) = ImmediateAt(data, pc)
  <2>1. Machine!Immediate(m, pc) = IF next \in DOMAIN m /\ IsInt(m[next]) THEN m[next].num ELSE None
    BY SameArithmetic DEF Machine!Immediate, Machine!HoldsInt, Machine!Holds, next
  <2>2. ImmediateAt(data, pc) = IF IsInt(Cell(data, next)) THEN Cell(data, next).num ELSE None
    BY DEF ImmediateAt, next
  <2>3. (next \in DOMAIN m /\ IsInt(m[next])) <=> IsInt(Cell(data, next))
    BY <1>4, <1>5 DEF IsInt
  <2> QED
    BY <1>5, <2>1, <2>2, <2>3
<1>8. Machine!Decodes(m, pc)
  BY <1>2, <1>3, <1>6, <1>7, SameArithmetic, SameDecoding
     DEF Machine!Decodes, Machine!HoldsInt, Machine!Holds
<1>9. Machine!InstructionIn(m, pc) = InstructionAt(data, pc)
  BY <1>3, <1>6, <1>7, SameDecoding DEF Machine!InstructionIn, InstructionAt
<1> QED
  BY <1>3, <1>4, <1>8, <1>9 DEF data, pc, m


-----------------------------------------------------------------------------
(* The operands and their promise.                                         *)

\* A missing operand that the instruction finds from dst and the other one.
SolvedFor(i, dst, op, val) ==
  \/ i.res = "Add" /\ Sub(dst, op).err = "ok" /\ val = Sub(dst, op).val
  \/ /\ i.res = "Mul" /\ IsInt(dst) /\ IsInt(op) /\ op.num # 0
     /\ val = IntValue(TruncMod(TruncDiv(dst.num, op.num), Prime))

\* Where the result comes from: the operands, or dst from which one of them
\* was found.
ResultFrom(i, o, dstFree) ==
  \/ ComputeRes(i, o.op0, o.op1).err = "ok" /\ o.res = ComputeRes(i, o.op0, o.op1).val
  \/ /\ i.opcode = "AssertEq" /\ ~dstFree /\ o.res = o.dst
     /\ \/ SolvedFor(i, o.dst, o.op1, o.op0)
        \/ SolvedFor(i, o.dst, o.op0, o.op1)
        \/ i.res = "Op1" /\ o.op1 = o.dst

\* The operands that were missing, and the result.
Made(v, i, f, o) ==
  /\ ResultFrom(i, o, f.dst.val = None)
  /\ f.dst.val = None =>
       \/ /\ i.opcode = "AssertEq" /\ o.dst = o.res
          /\ ComputeRes(i, o.op0, o.op1).err = "ok" /\ o.res = ComputeRes(i, o.op0, o.op1).val
       \/ i.opcode = "Call" /\ o.dst = v.fp
  /\ (/\ i.opcode = "Call" /\ f.op0.val = None
      /\ RunnersOf(v.builtin_runners, f.op0.addr.seg) = {}) =>
       o.op0 = AddUsize(v.pc, Size(i)).val

\* A deduction that gives the result has solved the instruction.
LEMMA TermSolved ==
  ASSUME NEW i, NEW dst, NEW op, NEW d, d = DeduceTerm(i, dst, op),
         d.err = "ok", d.res # None
  PROVE  /\ i.opcode = "AssertEq" /\ dst # None /\ op # None /\ d.res = dst
         /\ SolvedFor(i, dst, op, d.val)
<1>1. i.opcode = "AssertEq" /\ dst # None /\ op # None
  BY DEF DeduceTerm, NoDeduction, Deduction
<1>2. CASE i.res = "Add"
  <2>1. d = DeductionFrom(Sub(dst, op), dst)
    BY <1>1, <1>2 DEF DeduceTerm
  <2> QED
    BY <1>1, <1>2, <2>1 DEF DeductionFrom, SolvedFor
<1>3. CASE i.res = "Mul"
  <2>1. d = DeduceFactor(dst, op)
    BY <1>1, <1>3 DEF DeduceTerm
  <2>2. /\ IsInt(dst) /\ IsInt(op) /\ op.num # 0
        /\ d = Deduction(IntValue(TruncMod(TruncDiv(dst.num, op.num), Prime)), dst)
    BY <2>1 DEF DeduceFactor, NoDeduction, Deduction
  <2> QED
    BY <1>1, <1>3, <2>2 DEF Deduction, SolvedFor
<1>4. CASE i.res \notin {"Add", "Mul"}
  BY <1>1, <1>4 DEF DeduceTerm, NoDeduction, Deduction
<1> QED
  BY <1>2, <1>3, <1>4

\* The operands are made this way.
LEMMA OperandsFound ==
  ASSUME NEW v, MachineInv(v), NEW n, n = v.num_segments,
         NEW i, IsInstruction(i), NEW f, Fetched(v, f),
         NEW o, o = Operands(v, i, f), o.err = "ok"
  PROVE  Made(v, i, f, o)
<1> DEFINE d0  == DeduceOp0(v, i, f.dst.val, f.op1.val)
           c0  == FirstOperand(v, i, f)
           d1  == DeduceOp1(i, f.dst.val, c0.val)
           c1  == SecondOperand(v, i, f)
           res == ResultOf(v, i, f)
           dst == CompleteDst(v, i, f.dst, res.val)
<1>1. /\ o.op0 = c0.val /\ o.op1 = c1.val /\ o.res = res.val /\ o.dst = dst.val
      /\ c0.err = "ok" /\ c1.err = "ok" /\ res.err = "ok" /\ dst.err = "ok"
  BY OperandsMade
<1>2. /\ f.dst.val \in Maybe(Known(n)) /\ f.op0.val \in Maybe(Known(n))
      /\ f.op1.val \in Maybe(Known(n))
      /\ IsOperand(f.op0, v.memory.data, n) /\ IsOperand(f.op1, v.memory.data, n)
  BY DEF Fetched, IsOperand
<1>3. c0 = Complete(v, v.verified_addresses, f.op0, d0)
  BY DEF FirstOperand
<1>4. c1 = Complete(v, c0.verified, f.op1, d1)
  BY DEF SecondOperand
<1>5. DeductionKnown(d0, n)
  BY <1>2, DeduceKnown
<1>6. res = CompleteRes(i, c0, c1)
  BY DEF ResultOf
<1>7. dst = CompleteDst(v, i, f.dst, res.val)
  OBVIOUS
<1>8. /\ o.op0 \in Maybe(Known(n)) /\ o.op1 \in Maybe(Known(n))
      /\ f.dst.val # None => o.dst = f.dst.val
      /\ f.op0.val # None => o.op0 = f.op0.val
      /\ f.op1.val # None => o.op1 = f.op1.val
  BY OperandsKnown
<1> HIDE DEF c0, c1, res, dst, d0
<1>9. /\ c0.res # None => /\ f.op0.val = None /\ d0.err = "ok"
                          /\ c0.val = d0.val /\ c0.res = d0.res
      /\ (f.op0.val = None /\ RunnersOf(v.builtin_runners, f.op0.addr.seg) = {}) =>
           c0.val = d0.val
  <2>1. Completes(c0, v, v.verified_addresses, f.op0, d0)
    BY <1>1, <1>2, <1>3, <1>5, CompleteKnown
  <2> QED
    BY <2>1 DEF Completes
<1>10. DeductionKnown(d1, n)
  BY <1>1, <1>2, <1>8, DeduceKnown
<1> HIDE DEF d1
<1>11. c1.res # None => /\ f.op1.val = None /\ d1.err = "ok"
                        /\ c1.val = d1.val /\ c1.res = d1.res
  <2>1. Completes(c1, v, c0.verified, f.op1, d1)
    BY <1>1, <1>2, <1>4, <1>10, CompleteKnown
  <2> QED
    BY <2>1 DEF Completes
\* From the first operand.
<1>12. c0.res # None =>
         /\ i.opcode = "AssertEq" /\ f.dst.val # None /\ o.res = o.dst
         /\ SolvedFor(i, o.dst, o.op1, o.op0)
  <2> SUFFICES ASSUME c0.res # None
               PROVE  /\ i.opcode = "AssertEq" /\ f.dst.val # None /\ o.res = o.dst
                      /\ SolvedFor(i, o.dst, o.op1, o.op0)
    OBVIOUS
  <2>1. i.opcode # "Call"
    BY <1>9 DEF d0, DeduceOp0, DeductionFrom
  <2>2. d0 = DeduceTerm(i, f.dst.val, f.op1.val)
    BY <2>1 DEF d0, DeduceOp0
  <2>3. /\ i.opcode = "AssertEq" /\ f.dst.val # None /\ f.op1.val # None
        /\ d0.res = f.dst.val /\ SolvedFor(i, f.dst.val, f.op1.val, d0.val)
    BY <1>9, <2>2, TermSolved
  <2>4. o.res = f.dst.val
    BY <1>1, <1>6, <1>9, <2>3 DEF CompleteRes, Ok
  <2> QED
    BY <1>1, <1>8, <1>9, <2>3, <2>4
\* From the second one.
<1>13. (c0.res = None /\ c1.res # None) =>
         /\ i.opcode = "AssertEq" /\ f.dst.val # None /\ o.res = o.dst
         /\ SolvedFor(i, o.dst, o.op0, o.op1) \/ (i.res = "Op1" /\ o.op1 = o.dst)
  <2> SUFFICES ASSUME c0.res = None, c1.res # None
               PROVE  /\ i.opcode = "AssertEq" /\ f.dst.val # None /\ o.res = o.dst
                      /\ SolvedFor(i, o.dst, o.op0, o.op1) \/ (i.res = "Op1" /\ o.op1 = o.dst)
    OBVIOUS
  <2>1. o.res = c1.res
    BY <1>1, <1>6 DEF CompleteRes, Ok
  <2>2. CASE i.opcode = "AssertEq" /\ i.res = "Op1" /\ f.dst.val # None
    <3>1. d1 = Deduction(f.dst.val, f.dst.val)
      BY <2>2 DEF d1, DeduceOp1
    <3> QED
      BY <1>1, <1>8, <1>11, <2>1, <2>2, <3>1 DEF Deduction
  <2>3. CASE ~(i.opcode = "AssertEq" /\ i.res = "Op1" /\ f.dst.val # None)
    <3>1. d1 = DeduceTerm(i, f.dst.val, c0.val)
      BY <2>3 DEF d1, DeduceOp1
    <3>2. /\ i.opcode = "AssertEq" /\ f.dst.val # None
          /\ d1.res = f.dst.val /\ SolvedFor(i, f.dst.val, c0.val, d1.val)
      BY <1>11, <3>1, TermSolved
    <3> QED
      BY <1>1, <1>8, <1>11, <2>1, <3>2
  <2> QED
    BY <2>2, <2>3
<1>14. (c0.res = None /\ c1.res = None) =>
         ComputeRes(i, o.op0, o.op1).err = "ok" /\ o.res = ComputeRes(i, o.op0, o.op1).val
  <2> SUFFICES ASSUME c0.res = None, c1.res = None
               PROVE  /\ ComputeRes(i, o.op0, o.op1).err = "ok"
                      /\ o.res = ComputeRes(i, o.op0, o.op1).val
    OBVIOUS
  <2>1. res = IF c0.val = None \/ c1.val = None THEN Err("InvalidInstructionEncoding")
              ELSE ComputeRes(i, c0.val, c1.val)
    BY <1>6 DEF CompleteRes
  <2>2. res = ComputeRes(i, c0.val, c1.val)
    BY <1>1, <2>1 DEF Err
  <2> QED
    BY <1>1, <2>2
<1>15. f.dst.val = None =>
         \/ /\ i.opcode = "AssertEq" /\ o.dst = o.res
            /\ ComputeRes(i, o.op0, o.op1).err = "ok"
            /\ o.res = ComputeRes(i, o.op0, o.op1).val
         \/ i.opcode = "Call" /\ o.dst = v.fp
  <2> SUFFICES ASSUME f.dst.val = None
               PROVE  \/ /\ i.opcode = "AssertEq" /\ o.dst = o.res
                         /\ ComputeRes(i, o.op0, o.op1).err = "ok"
                         /\ o.res = ComputeRes(i, o.op0, o.op1).val
                      \/ i.opcode = "Call" /\ o.dst = v.fp
    OBVIOUS
  <2>1. dst = DeduceDst(v, i, res.val)
    BY <1>7 DEF CompleteDst
  <2>2. \/ i.opcode = "AssertEq" /\ res.val # None /\ dst = Ok(res.val)
        \/ i.opcode = "Call" /\ dst = Ok(v.fp)
    BY <1>1, <2>1 DEF DeduceDst, Err
  <2>3. c0.res = None /\ c1.res = None
    BY <1>12, <1>13
  <2> QED
    BY <1>1, <1>14, <2>2, <2>3 DEF Ok
<1>16. (/\ i.opcode = "Call" /\ f.op0.val = None
        /\ RunnersOf(v.builtin_runners, f.op0.addr.seg) = {}) =>
         o.op0 = AddUsize(v.pc, Size(i)).val
  BY <1>1, <1>9 DEF d0, DeduceOp0, DeductionFrom
<1>17. ResultFrom(i, o, f.dst.val = None)
  BY <1>12, <1>13, <1>14 DEF ResultFrom
<1> QED
  BY <1>15, <1>16, <1>17 DEF Made


\* The machine computes what the vm computes, of values of a machine.
LEMMA ComputedSame ==
  ASSUME NEW n, NEW i, NEW o, o.op0 \in Known(n), o.op1 \in Known(n),
         ComputeRes(i, o.op0, o.op1).err = "ok",
         i.res \in {"Add", "Mul", "Op1", "Unconstrained"},
         NEW p, p.op0 = o.op0, p.op1 = o.op1
  PROVE  Machine!Computed(i, p) = ComputeRes(i, o.op0, o.op1)
<1>1. CASE i.res = "Op1"
  BY <1>1, SameArithmetic DEF Machine!Computed, ComputeRes
<1>2. CASE i.res = "Add"
  BY <1>2, SameArithmetic DEF Machine!Computed, ComputeRes
<1>3. CASE i.res = "Unconstrained"
  BY <1>3, SameArithmetic DEF Machine!Computed, ComputeRes
<1>4. CASE i.res = "Mul"
  <2> DEFINE a == o.op0.num
             b == o.op1.num
  <2>1. IsInt(o.op0) /\ IsInt(o.op1)
    BY <1>4 DEF ComputeRes, Err
  <2>2. a \in Nat /\ b \in Nat
    BY <2>1, KnownKinds
  <2>3. a * b \in Nat
    BY <2>2
  <2>4. TruncMod(a * b, Prime) = (a * b) % Prime
    BY <2>3, FieldAssumption, TruncNatural
  <2>5. ComputeRes(i, o.op0, o.op1) = Ok(IntValue(TruncMod(a * b, Prime)))
    BY <1>4, <2>1 DEF ComputeRes
  <2>6. Machine!Computed(i, p) = Ok(IntValue((a * b) % Prime))
    BY <1>4, <2>1, SameArithmetic DEF Machine!Computed
  <2> QED
    BY <2>4, <2>5, <2>6
<1> QED
  BY <1>1, <1>2, <1>3, <1>4

\* The registers and the operands of an instruction.
Regs(v) == [pc |-> v.pc, ap |-> v.ap, fp |-> v.fp]
OperandsOf(o) == [dst |-> o.dst, op0 |-> o.op0, op1 |-> o.op1]

\* The machine finds the operands where the vm does.
LEMMA OperandsThere ==
  ASSUME NEW v, MachineInv(v), NEW i, IsInstruction(i), NEW w, MachineInv(w),
         NEW f, f = Fetch(v, i), FetchError(f) = "ok",
         NEW o, o = Operands(v, i, f), o.err = "ok", HoldsAll(v, w, f, o)
  PROVE  /\ Machine!DstAddress(i, Regs(v)) = f.dst.addr
         /\ Machine!Op0Address(i, Regs(v)) = f.op0.addr
         /\ Machine!Op1Address(i, Regs(v), Mem(w)) = f.op1.addr
         /\ Machine!HoldsOperands(i, Regs(v), Mem(w))
         /\ Machine!OperandsIn(i, Regs(v), Mem(w)) = OperandsOf(o)
<1> DEFINE n == v.num_segments
           m == Mem(w)
           r == Regs(v)
<1>1. /\ IsOperand(f.dst, v.memory.data, n) /\ IsOperand(f.op0, v.memory.data, n)
      /\ IsOperand(f.op1, v.memory.data, n)
      /\ f.dst.addr = DstAddr(v, i).val
      /\ f.op0.addr = Op0Addr(v, i).val
      /\ Op1Addr(v, i, f.op0.val).err = "ok"
      /\ f.op1.addr = Op1Addr(v, i, f.op0.val).val
  BY FetchKnown
<1>2. /\ f.dst.addr \in Relocatables /\ f.op0.addr \in Relocatables
      /\ f.op1.addr \in Relocatables
  BY <1>1 DEF IsOperand
<1>3. Fetched(v, f)
  BY <1>1 DEF Fetched
<1>4. /\ f.op0.val # None => o.op0 = f.op0.val
      /\ o.dst \in Known(n) /\ o.op0 \in Known(n) /\ o.op1 \in Known(n)
  BY <1>3, OperandsKnown DEF HoldsAll
<1>5. /\ \A a \in Relocatables : a \in DOMAIN m <=> Cell(w.memory.data, a) # None
      /\ \A a \in DOMAIN m : m[a] = Cell(w.memory.data, a)
  BY SegmentsCounted, MemKnown DEF MachineInv, MachineMemory
<1>6. o.dst # None /\ o.op0 # None /\ o.op1 # None
  BY <1>4, KnownKinds
<1>7. /\ f.dst.addr \in DOMAIN m /\ m[f.dst.addr] = o.dst
      /\ f.op0.addr \in DOMAIN m /\ m[f.op0.addr] = o.op0
      /\ f.op1.addr \in DOMAIN m /\ m[f.op1.addr] = o.op1
  BY <1>2, <1>5, <1>6 DEF HoldsAll
<1> HIDE DEF m, n
<1>8. r.pc = v.pc /\ r.ap = v.ap /\ r.fp = v.fp
  BY DEF Regs
<1>9. Machine!DstAddress(i, r) = f.dst.addr /\ Machine!Op0Address(i, r) = f.op0.addr
  BY <1>1, <1>8, SameArithmetic
     DEF Machine!DstAddress, Machine!Op0Address, Machine!RegisterIn, DstAddr, Op0Addr, RegisterOf
<1> HIDE DEF r
<1>10. Machine!Op1Address(i, r, m) = f.op1.addr
  <2>1. CASE i.op1_addr = "Imm"
    <3>1. i.off2 = 1 /\ Op1Addr(v, i, f.op0.val) = AddIntMod(v.pc, 1)
      BY <1>1, <2>1 DEF Op1Addr, Err
    <3> QED
      BY <1>1, <1>8, <2>1, <3>1, SameArithmetic DEF Machine!Op1Address
  <2>2. CASE i.op1_addr = "Op0"
    <3>1. f.op0.val # None /\ Op1Addr(v, i, f.op0.val) = AddIntMod(f.op0.val, i.off2)
      BY <1>1, <2>2 DEF Op1Addr, Err
    <3>2. m[Machine!Op0Address(i, r)] = f.op0.val
      BY <1>4, <1>7, <1>9, <3>1
    <3> QED
      BY <1>1, <2>2, <3>1, <3>2, SameArithmetic DEF Machine!Op1Address
  <2>3. CASE i.op1_addr \in {"AP", "FP"}
    <3>1. Op1Addr(v, i, f.op0.val) = AddIntMod(RegisterOf(v, i.op1_addr), i.off2)
      BY <2>3 DEF Op1Addr
    <3>2. Machine!RegisterIn(r, i.op1_addr) = RegisterOf(v, i.op1_addr)
      BY <1>8 DEF Machine!RegisterIn, RegisterOf
    <3> QED
      BY <1>1, <2>3, <3>1, <3>2, SameArithmetic DEF Machine!Op1Address
  <2> QED
    BY <2>1, <2>2, <2>3 DEF IsInstruction
<1>11. Machine!HoldsOperands(i, r, m)
  BY <1>7, <1>9, <1>10 DEF Machine!HoldsOperands, Machine!Holds
<1>12. Machine!OperandsIn(i, r, m) = OperandsOf(o)
  BY <1>7, <1>9, <1>10 DEF Machine!OperandsIn, OperandsOf
<1> QED
  BY <1>9, <1>10, <1>11, <1>12 DEF r, m

\* The registers of the machine move as those of the vm.
LEMMA RegistersFollow ==
  ASSUME NEW v, MachineInv(v), IsRel(v.pc), NEW i, IsInstruction(i), NEW w,
         NEW o, o.dst \in Known(v.num_segments),
         NewFp(v, i, o).err = "ok", w.fp = NewFp(v, i, o).val,
         NewAp(v, i, o).err = "ok", w.ap = NewAp(v, i, o).val,
         NewPc(v, i, o).err = "ok", w.pc = NewPc(v, i, o).val
  PROVE  Regs(w) = [pc |-> Machine!NextPc(i, Regs(v), OperandsOf(o), o.res),
                    ap |-> Machine!NextAp(i, Regs(v), o.res),
                    fp |-> Machine!NextFp(i, Regs(v), OperandsOf(o))]
<1> DEFINE r == Regs(v)
           p == OperandsOf(o)
<1>1. r.pc = v.pc /\ r.ap = v.ap /\ r.fp = v.fp /\ p.dst = o.dst /\ p.op1 = o.op1
  BY DEF Regs, OperandsOf
<1> HIDE DEF r, p
<1>2. Machine!NextFp(i, r, p) = w.fp
  BY <1>1, SameArithmetic DEF IsInstruction, Machine!NextFp, NewFp, Ok
<1>3. Machine!NextAp(i, r, o.res) = w.ap
  BY <1>1, SameArithmetic DEF IsInstruction, Machine!NextAp, NewAp, Ok, Err
<1>4. Machine!NextPc(i, r, p, o.res) = w.pc
  <2>1. CASE i.pc_update = "Regular"
    <3>1. ~IsInt(v.pc)
      BY DEF IsRel, IsInt
    <3>2. AddUsizeMod(v.pc, Size(i)) = AddUsize(v.pc, Size(i))
      BY <3>1 DEF AddUsizeMod
    <3> QED
      BY <1>1, <2>1, <3>2, SameArithmetic, SameSize DEF Machine!NextPc, NewPc
  <2>2. CASE i.pc_update = "Jump"
    BY <1>1, <2>2 DEF Machine!NextPc, NewPc, Ok, Err
  <2>3. CASE i.pc_update = "JumpRel"
    BY <1>1, <2>3, SameArithmetic DEF Machine!NextPc, NewPc, Ok, Err
  <2>4. CASE i.pc_update = "Jnz"
    <3>1. ~IsRel(o.dst)
      BY <2>4 DEF NewPc, Err
    <3>2. IsInt(o.dst) /\ o.dst = IntValue(o.dst.num)
      BY <3>1, KnownKinds
    <3>3. o.dst = IntValue(0) <=> o.dst.num = 0
      BY <3>2 DEF IntValue
    <3>4. NewPc(v, i, o) = IF o.dst.num = 0 THEN AddUsize(v.pc, Size(i)) ELSE AddMod(v.pc, o.op1)
      BY <2>4, <3>1 DEF NewPc
    <3>5. Machine!NextPc(i, r, p, o.res) =
            IF o.dst = IntValue(0) THEN AddUsize(v.pc, Size(i)).val ELSE AddMod(v.pc, o.op1).val
      BY <1>1, <2>4, SameArithmetic, SameSize DEF Machine!NextPc
    <3> QED
      BY <3>3, <3>4, <3>5
  <2> QED
    BY <2>1, <2>2, <2>3, <2>4 DEF IsInstruction
<1>5. Regs(w) = [pc |-> w.pc, ap |-> w.ap, fp |-> w.fp]
  BY DEF Regs
<1> QED
  BY <1>2, <1>3, <1>4, <1>5 DEF r, p


-----------------------------------------------------------------------------
(* Differences and sums modulo the prime.                                  *)

\* Numbers that differ by a multiple of p and are residues are the same.
LEMMA ResidueUnique ==
  ASSUME NEW p \in Nat, p > 0, NEW d \in Int, NEW e \in Int,
         NEW r \in 0..(p - 1), NEW s \in 0..(p - 1), p * d + r = p * e + s
  PROVE  r = s
<1>1. p * (d - e) = s - r
  OBVIOUS
<1>2. CASE d - e >= 1
  <2>1. p * (d - e) >= p
    BY <1>2
  <2> QED
    BY <1>1, <2>1
<1>3. CASE d - e <= -1
  <2>1. p * (d - e) <= -p
    BY <1>3
  <2> QED
    BY <1>1, <2>1
<1>4. CASE d = e
  BY <1>4
<1> QED
  BY <1>2, <1>3, <1>4

\* A multiple of p changes nothing modulo p.
LEMMA ResidueShifted ==
  ASSUME NEW a \in Int, NEW q \in Int, NEW p \in Nat, p > 0
  PROVE  (a - p * q) % p = a % p
<1> DEFINE d == a \div p
           e == (a - p * q) \div p
           r == a % p
           s == (a - p * q) % p
<1>1. a - p * q \in Int
  OBVIOUS
<1>2. a = p * d + r /\ r \in 0..(p - 1) /\ d \in Int
  OBVIOUS
<1>3. a - p * q = p * e + s /\ s \in 0..(p - 1) /\ e \in Int
  BY <1>1
<1> HIDE DEF d, e, r, s
<1>4. p * e + p * q = p * (e + q) /\ e + q \in Int
  BY <1>3
<1>5. p * d \in Int /\ p * e \in Int /\ p * q \in Int
  BY <1>2, <1>3
<1>6. p * d + r = p * (e + q) + s
  BY <1>2, <1>3, <1>4, <1>5
<1>7. r = s
  BY <1>2, <1>3, <1>4, <1>6, ResidueUnique
<1> QED
  BY <1>7 DEF r, s

\* What is subtracted modulo p and added again.
SumBack(a, b, p) == (((a - b) % p) + b) % p

\* It is the number it was, modulo p.
LEMMA DifferenceSum ==
  ASSUME NEW a \in Int, NEW b \in Int, NEW p \in Nat, p > 0
  PROVE  SumBack(a, b, p) % p = a % p /\ SumBack(a, b, p) \in Int
<1> DEFINE q == (a - b) \div p
           x == (a - b) % p
<1>1. a - b = p * q + x /\ x \in 0..(p - 1) /\ q \in Int
  OBVIOUS
<1>2. a % p \in 0..(p - 1)
  OBVIOUS
<1>3. SumBack(a, b, p) = (x + b) % p
  BY DEF SumBack
<1> HIDE DEF q, x
<1>4. p * q \in Int
  BY <1>1
<1>5. x + b = a - p * q
  BY <1>1, <1>4
<1>6. (a - p * q) % p = a % p
  BY <1>1, ResidueShifted
<1>7. (a % p) % p = a % p
  BY <1>2
<1> QED
  BY <1>2, <1>3, <1>5, <1>6, <1>7

-----------------------------------------------------------------------------
(* The step of the machine.                                                *)

\* An integer is not None.
LEMMA IntValueIsInt ==
  /\ \A k : IntValue(k).num = k
  /\ \A k : IntValue(k) # None => IsInt(IntValue(k))
  /\ \A k \in Int : IsInt(IntValue(k))
  BY NoneAssumption DEF IntValue, IsInt, Values, Ints

\* A product or a sum that was solved is what the machine promises of it.
LEMMA SolvedPromise ==
  ASSUME NEW n, NEW i, NEW o, o.dst \in Known(n), o.op0 \in Known(n), o.op1 \in Known(n),
         \/ SolvedFor(i, o.dst, o.op1, o.op0)
         \/ SolvedFor(i, o.dst, o.op0, o.op1)
         \/ i.res = "Op1" /\ o.op1 = o.dst,
         NEW p, p = OperandsOf(o)
  PROVE  \/ Machine!Equation(i, p)
         \/ Machine!SolvedFactor(i, p, FALSE)
         \/ Machine!NotCompared(i, p, FALSE)
<1> DEFINE a == o.dst.num
           x == o.op0.num
           y == o.op1.num
<1>1. p.dst = o.dst /\ p.op0 = o.op0 /\ p.op1 = o.op1
  BY DEF OperandsOf
<1>2. CASE i.res = "Op1" /\ o.op1 = o.dst
  <2>1. Machine!Computed(i, p) = Ok(o.dst)
    BY <1>1, <1>2, SameArithmetic DEF Machine!Computed
  <2> QED
    BY <1>1, <2>1 DEF Machine!Equation, Machine!Same, Ok
<1>3. CASE i.res = "Mul" /\ (SolvedFor(i, o.dst, o.op1, o.op0) \/ SolvedFor(i, o.dst, o.op0, o.op1))
  <2>1. \/ /\ IsInt(o.dst) /\ IsInt(o.op1) /\ y # 0
           /\ o.op0 = IntValue(TruncMod(TruncDiv(a, y), Prime))
        \/ /\ IsInt(o.dst) /\ IsInt(o.op0) /\ x # 0
           /\ o.op1 = IntValue(TruncMod(TruncDiv(a, x), Prime))
    BY <1>3 DEF SolvedFor
  <2>2. o.op0 # None /\ o.op1 # None
    BY KnownKinds
  <2>3. Machine!SolvedFactor(i, p, FALSE)
    BY <1>1, <1>3, <2>1, <2>2, IntValueIsInt, SameArithmetic DEF Machine!SolvedFactor
  <2> QED
    BY <2>3
<1>4. CASE i.res = "Add" /\ (SolvedFor(i, o.dst, o.op1, o.op0) \/ SolvedFor(i, o.dst, o.op0, o.op1))
  <2>1. Machine!Computed(i, p) = AddMod(o.op0, o.op1)
    BY <1>1, <1>4, SameArithmetic DEF Machine!Computed
  <2>2. CASE ~IsInt(o.dst)
    BY <1>1, <2>2, SameArithmetic DEF Machine!NotCompared
  <2>3. CASE IsInt(o.dst)
    <3>1. a \in Nat /\ Prime \in Nat /\ Prime > 0
      BY <2>3, KnownKinds, FieldAssumption
    <3>2. CASE SolvedFor(i, o.dst, o.op1, o.op0)
      <4>1. Sub(o.dst, o.op1).err = "ok" /\ o.op0 = Sub(o.dst, o.op1).val
        BY <1>4, <3>2 DEF SolvedFor
      <4>2. ~IsRel(o.dst)
        BY <2>3 DEF IsInt, IsRel
      <4>3. IsInt(o.op1) /\ o.op0 = IntValue((a - y) % Prime)
        BY <2>3, <4>1, <4>2 DEF Sub, Err, Ok
      <4>4. y \in Nat
        BY <4>3, KnownKinds
      <4>5. IsInt(o.op0) /\ x = (a - y) % Prime
        BY <4>3, KnownKinds, IntValueIsInt
      <4> DEFINE z == SumBack(a, y, Prime)
      <4>10. a \in Int /\ y \in Int
        BY <3>1, <4>4
      <4>6. AddMod(o.op0, o.op1) = Ok(IntValue(z))
        BY <3>1, <4>3, <4>4, <4>5 DEF AddMod, SumBack
      <4>7. z % Prime = a % Prime /\ z \in Int
        BY <3>1, <4>10, DifferenceSum, Zenon
      <4>8. Machine!Computed(i, p) = Ok(IntValue(z))
        BY <2>1, <4>6
      <4> HIDE DEF z, a
      <4>9. Machine!Same(IntValue(z), o.dst)
        BY <2>3, <4>7, SameArithmetic, IntValueIsInt DEF Machine!Same, a
      <4>11. Machine!Computed(i, p).err = "ok" /\ Machine!Computed(i, p).val = IntValue(z)
        BY <4>8 DEF Ok
      <4>12. Machine!Equation(i, p)
        BY <1>1, <4>9, <4>11 DEF Machine!Equation
      <4> QED
        BY <4>12
    <3>3. CASE SolvedFor(i, o.dst, o.op0, o.op1)
      <4>1. Sub(o.dst, o.op0).err = "ok" /\ o.op1 = Sub(o.dst, o.op0).val
        BY <1>4, <3>3 DEF SolvedFor
      <4>2. ~IsRel(o.dst)
        BY <2>3 DEF IsInt, IsRel
      <4>3. IsInt(o.op0) /\ o.op1 = IntValue((a - x) % Prime)
        BY <2>3, <4>1, <4>2 DEF Sub, Err, Ok
      <4>4. x \in Nat
        BY <4>3, KnownKinds
      <4>5. IsInt(o.op1) /\ y = (a - x) % Prime
        BY <4>3, KnownKinds, IntValueIsInt
      <4> DEFINE z == SumBack(a, x, Prime)
      <4>10. a \in Int /\ x \in Int
        BY <3>1, <4>4
      <4>6. AddMod(o.op0, o.op1) = Ok(IntValue(z))
        BY <3>1, <4>3, <4>4, <4>5 DEF AddMod, SumBack
      <4>7. z % Prime = a % Prime /\ z \in Int
        BY <3>1, <4>10, DifferenceSum, Zenon
      <4>8. Machine!Computed(i, p) = Ok(IntValue(z))
        BY <2>1, <4>6
      <4> HIDE DEF z, a
      <4>9. Machine!Same(IntValue(z), o.dst)
        BY <2>3, <4>7, SameArithmetic, IntValueIsInt DEF Machine!Same, a
      <4>11. Machine!Computed(i, p).err = "ok" /\ Machine!Computed(i, p).val = IntValue(z)
        BY <4>8 DEF Ok
      <4>12. Machine!Equation(i, p)
        BY <1>1, <4>9, <4>11 DEF Machine!Equation
      <4> QED
        BY <4>12
    <3> QED
      BY <1>4, <3>2, <3>3
  <2> QED
    BY <2>2, <2>3
<1> QED
  BY <1>2, <1>3, <1>4 DEF SolvedFor


\* What the machine promises of the operands.
LEMMA PromiseKept ==
  ASSUME NEW n, NEW v, NEW i, IsInstruction(i), NEW f, NEW o,
         o.dst \in Known(n), o.op0 \in Known(n), o.op1 \in Known(n),
         Made(v, i, f, o), OpcodeAssertion(v, i, o) = "ok",
         i.opcode = "AssertEq",
         NEW p, p = OperandsOf(o), NEW dstFree, dstFree = (f.dst.val = None)
  PROVE  \/ Machine!Equation(i, p)
         \/ Machine!SolvedFactor(i, p, dstFree)
         \/ Machine!NotCompared(i, p, dstFree)
<1>1. p.dst = o.dst /\ p.op0 = o.op0 /\ p.op1 = o.op1
  BY DEF OperandsOf
<1>2. ComputeRes(i, o.op0, o.op1).err = "ok" =>
        Machine!Computed(i, p) = ComputeRes(i, o.op0, o.op1)
  BY <1>1, ComputedSame DEF IsInstruction
<1>3. CASE f.dst.val = None
  <2>1. /\ o.dst = o.res
        /\ ComputeRes(i, o.op0, o.op1).err = "ok" /\ o.res = ComputeRes(i, o.op0, o.op1).val
    BY <1>3 DEF Made
  <2>2. Machine!Computed(i, p).err = "ok" /\ Machine!Computed(i, p).val = o.dst
    BY <1>2, <2>1
  <2>3. Machine!Same(o.dst, o.dst)
    BY DEF Machine!Same
  <2>4. Machine!Equation(i, p)
    BY <1>1, <2>2, <2>3 DEF Machine!Equation
  <2> QED
    BY <2>4
<1>4. CASE f.dst.val # None
  <2>1. dstFree = FALSE
    BY <1>4
  <2>2. CASE ComputeRes(i, o.op0, o.op1).err = "ok" /\ o.res = ComputeRes(i, o.op0, o.op1).val
    <3>1. Machine!Computed(i, p).err = "ok" /\ Machine!Computed(i, p).val = o.res
      BY <1>2, <2>2
    <3>2. ~(IsInt(o.res) /\ IsInt(o.dst) /\ o.res.num # o.dst.num)
      BY DEF OpcodeAssertion
    <3>3. CASE IsInt(o.res) /\ IsInt(o.dst)
      <4>1. Machine!Same(o.res, o.dst)
        BY <3>2, <3>3, SameArithmetic DEF Machine!Same
      <4>2. Machine!Equation(i, p)
        BY <1>1, <3>1, <4>1 DEF Machine!Equation
      <4> QED
        BY <4>2
    <3>4. CASE ~(IsInt(o.res) /\ IsInt(o.dst))
      <4>1. Machine!NotCompared(i, p, FALSE)
        BY <1>1, <3>1, <3>4, SameArithmetic DEF Machine!NotCompared
      <4> QED
        BY <2>1, <4>1
    <3> QED
      BY <3>3, <3>4
  <2>3. CASE ~(ComputeRes(i, o.op0, o.op1).err = "ok" /\ o.res = ComputeRes(i, o.op0, o.op1).val)
    <3>1. \/ SolvedFor(i, o.dst, o.op1, o.op0)
          \/ SolvedFor(i, o.dst, o.op0, o.op1)
          \/ i.res = "Op1" /\ o.op1 = o.dst
      BY <2>3 DEF Made, ResultFrom
    <3> QED
      BY <2>1, <3>1, SolvedPromise
  <2> QED
    BY <2>2, <2>3
<1> QED
  BY <1>3, <1>4

\* The segments of the builtins of a vm.
OwnedBy(v) ==
  {v.builtin_runners[k].base.seg :
     k \in {j \in 1..Len(v.builtin_runners) : v.builtin_runners[j].base # None}}

\* The step of a vm as one of the machine, from the memory that the hints
\* leave.
MachineStep(v, h, w) ==
  LET i == Machine!InstructionIn(Mem(w), v.pc)
      r == Regs(v)
      m == Mem(w)
      p == Machine!OperandsIn(i, r, m)
      free == DOMAIN m \ DOMAIN Mem(h)
      dstFree == Machine!DstAddress(i, r) \in free
  IN  /\ Machine!Follows(r, Regs(w), m)
      /\ i.opcode = "AssertEq" =>
           \/ Machine!Equation(i, p)
           \/ Machine!SolvedFactor(i, p, dstFree)
           \/ Machine!NotCompared(i, p, dstFree)
      /\ i.opcode = "Call" =>
           /\ dstFree => p.dst = r.fp
           /\ (/\ Machine!Op0Address(i, r) \in free
               /\ Machine!Op0Address(i, r).seg \notin OwnedBy(v)) =>
                p.op0 = Machine!ReturnPc(i, r)

\* Nothing that is assigned changes while an instruction is executed.
LEMMA ExecutedKeeps ==
  ASSUME NEW v, NEW w, NEW f, NEW o, Fetched(v, f), HoldsAll(v, w, f, o)
  PROVE  Keeps(v, w)
<1>1. /\ f.dst.val = Cell(v.memory.data, f.dst.addr)
      /\ f.op0.val = Cell(v.memory.data, f.op0.addr)
      /\ f.op1.val = Cell(v.memory.data, f.op1.addr)
  BY DEF Fetched, IsOperand
<1> QED
  BY <1>1 DEF HoldsAll, Keeps

\* A step of the vm is one of the machine.
LEMMA StepExecutes ==
  ASSUME NEW v, MachineInv(v), NEW h, NEW w, Stepped(v, h, w), Stepping(v, w)
  PROVE  MachineStep(v, h, w)
<1> DEFINE i == InstructionAt(h.memory.data, v.pc)
           f == Fetch(h, i)
           o == Operands(h, i, f)
           n == h.num_segments
           m == Mem(w)
           r == Regs(v)
           p == OperandsOf(o)
           free == DOMAIN m \ DOMAIN Mem(h)
<1>1. /\ MachineInv(h) /\ MachineInv(w)
      /\ h.pc = v.pc /\ h.ap = v.ap /\ h.fp = v.fp /\ h.builtin_runners = v.builtin_runners
  BY DEF Stepped, Hinted, Continues, Stepping
<1>2. /\ DecodeErrorAt(h.memory.data, v.pc) = "ok" /\ IsInstruction(i)
      /\ FetchError(f) = "ok" /\ o.err = "ok"
      /\ HoldsAll(h, w, f, o)
      /\ OpcodeAssertion(h, i, o) = "ok"
      /\ NewFp(h, i, o).err = "ok" /\ w.fp = NewFp(h, i, o).val
      /\ NewAp(h, i, o).err = "ok" /\ w.ap = NewAp(h, i, o).val
      /\ NewPc(h, i, o).err = "ok" /\ w.pc = NewPc(h, i, o).val
  BY DEF Stepped, RanInstruction
<1>3. Regs(h) = r
  BY <1>1 DEF Regs
<1>4. /\ Machine!Decodes(Mem(h), v.pc) /\ Machine!InstructionIn(Mem(h), v.pc) = i
      /\ IsRel(h.pc)
  BY <1>1, <1>2, DecodesAt
<1> HIDE DEF i, f, o, n
<1>5. Fetched(h, f)
  BY <1>1, <1>2, FetchKnown DEF f, Fetched
<1>6. Made(h, i, f, o)
  BY <1>1, <1>2, <1>5, OperandsFound DEF o
<1>7. o.dst \in Known(n) /\ o.op0 \in Known(n) /\ o.op1 \in Known(n)
  BY <1>2 DEF HoldsAll, n
<1>8. /\ Machine!DstAddress(i, r) = f.dst.addr
      /\ Machine!Op0Address(i, r) = f.op0.addr
      /\ Machine!HoldsOperands(i, r, m)
      /\ Machine!OperandsIn(i, r, m) = p
  BY <1>1, <1>2, <1>3, OperandsThere DEF f, o
<1>9. h.memory.data \in Seq(Seq(Elements)) /\ w.memory.data \in Seq(Seq(Elements))
  BY <1>1, SegmentsCounted DEF MachineInv, MachineMemory
<1>10. Machine!Grows(Mem(h), m)
  BY <1>2, <1>5, <1>9, ExecutedKeeps, MemGrows
<1>11. Machine!Decodes(m, v.pc) /\ Machine!InstructionIn(m, v.pc) = i
  BY <1>4, <1>10, DecodesStays
<1> HIDE DEF m, r, p
<1>12. Regs(w) = [pc |-> Machine!NextPc(i, r, p, o.res), ap |-> Machine!NextAp(i, r, o.res),
                  fp |-> Machine!NextFp(i, r, p)]
  BY <1>1, <1>2, <1>3, <1>4, <1>7, RegistersFollow DEF p, n
<1>13. r.pc = v.pc /\ r.fp = v.fp /\ p.dst = o.dst /\ p.op0 = o.op0 /\ p.op1 = o.op1
  BY DEF r, p, Regs, OperandsOf
<1>14. o.res \in Machine!Results(i, p)
  <2>1. CASE ComputeRes(i, o.op0, o.op1).err = "ok" /\ o.res = ComputeRes(i, o.op0, o.op1).val
    <3>1. Machine!Computed(i, p) = ComputeRes(i, o.op0, o.op1)
      BY <1>2, <1>7, <1>13, <2>1, ComputedSame DEF IsInstruction
    <3> QED
      BY <2>1, <3>1 DEF Machine!Results
  <2>2. CASE i.opcode = "AssertEq" /\ o.res = o.dst
    BY <1>13, <2>2 DEF Machine!Results
  <2> QED
    BY <1>6, <2>1, <2>2 DEF Made, ResultFrom
<1>15. Machine!Follows(r, Regs(w), m)
  BY <1>8, <1>11, <1>12, <1>13, <1>14 DEF Machine!Follows
<1>16. /\ f.dst.addr \in Relocatables /\ f.dst.val = Cell(h.memory.data, f.dst.addr)
       /\ f.op0.addr \in Relocatables /\ f.op0.val = Cell(h.memory.data, f.op0.addr)
  BY <1>5 DEF Fetched, IsOperand
<1>17. /\ f.dst.addr \in free <=> f.dst.val = None
       /\ f.op0.addr \in free <=> f.op0.val = None
  <2>1. f.dst.addr \in DOMAIN m /\ f.op0.addr \in DOMAIN m
    BY <1>8 DEF Machine!HoldsOperands, Machine!Holds
  <2> QED
    BY <1>9, <1>16, <2>1, MemKnown
<1> HIDE DEF free
<1>18. i.opcode = "AssertEq" =>
         \/ Machine!Equation(i, p)
         \/ Machine!SolvedFactor(i, p, f.dst.addr \in free)
         \/ Machine!NotCompared(i, p, f.dst.addr \in free)
  <2>1. (f.dst.addr \in free) = (f.dst.val = None)
    BY <1>17
  <2> QED
    BY <1>2, <1>6, <1>7, <2>1, PromiseKept DEF p
<1>19. i.opcode = "Call" =>
         /\ f.dst.addr \in free => p.dst = r.fp
         /\ (f.op0.addr \in free /\ f.op0.addr.seg \notin OwnedBy(v)) =>
              p.op0 = Machine!ReturnPc(i, r)
  <2> SUFFICES ASSUME i.opcode = "Call"
               PROVE  /\ f.dst.addr \in free => p.dst = r.fp
                      /\ (f.op0.addr \in free /\ f.op0.addr.seg \notin OwnedBy(v)) =>
                           p.op0 = Machine!ReturnPc(i, r)
    OBVIOUS
  <2>1. f.dst.addr \in free => p.dst = r.fp
    BY <1>1, <1>6, <1>13, <1>17 DEF Made
  <2>2. ASSUME f.op0.addr \in free, f.op0.addr.seg \notin OwnedBy(v)
        PROVE  p.op0 = Machine!ReturnPc(i, r)
    <3>1. RunnersOf(h.builtin_runners, f.op0.addr.seg) = {}
      BY <1>1, <2>2 DEF RunnersOf, OwnedBy
    <3>2. o.op0 = AddUsize(v.pc, Size(i)).val
      BY <1>1, <1>6, <1>17, <2>2, <3>1 DEF Made
    <3> QED
      BY <1>13, <3>2, SameArithmetic, SameSize DEF Machine!ReturnPc
  <2> QED
    BY <2>1, <2>2
<1> QED
  BY <1>8, <1>11, <1>15, <1>18, <1>19, <1>13 DEF MachineStep, m, r, free


-----------------------------------------------------------------------------
(* The refinement.                                                         *)

\* What the machine sees of a run.
ModeAt(at) ==
  CASE at \in {"given", "new", "segments", "entrypoint"} -> "loading"
    [] at = "running" -> "running"
    [] OTHER          -> "stopped"
RegsAt(at, v) == IF at = "running" THEN Regs(v) ELSE None

\* These are the variables of the machine, before and after a step.
LEMMA Mapped ==
  /\ MachineMem = Mem(vm) /\ MachineMem' = Mem(vm')
  /\ MachineRegs = RegsAt(phase, vm) /\ MachineRegs' = RegsAt(phase', vm')
  /\ MachineMode = ModeAt(phase) /\ MachineMode' = ModeAt(phase')
  /\ OwnedSegments = OwnedBy(vm) /\ OwnedSegments' = OwnedBy(vm')
<1>1. MachineMem = Mem(vm) /\ MachineMem' = Mem(vm')
  BY DEF MachineMem, Assigned, Data, Mem
<1>2. MachineRegs = RegsAt(phase, vm) /\ MachineRegs' = RegsAt(phase', vm')
  BY DEF MachineRegs, Running, Registers, RegsAt, Regs
<1>3. MachineMode = ModeAt(phase) /\ MachineMode' = ModeAt(phase')
  BY DEF MachineMode, ModeAt
<1>4. OwnedSegments = OwnedBy(vm) /\ OwnedSegments' = OwnedBy(vm')
  BY DEF OwnedSegments, OwnedBy
<1> QED
  BY <1>1, <1>2, <1>3, <1>4

\* Loading.
LEMMA LoadMapped ==
  ASSUME ModeAt(phase) = "loading", ModeAt(phase') = "loading",
         Machine!Grows(Mem(vm), Mem(vm')), DOMAIN vm'.hints = DOMAIN vm.hints
  PROVE  Machine!Load
<1>1. RegsAt(phase, vm) = None /\ RegsAt(phase', vm') = None
  BY DEF ModeAt, RegsAt
<1> QED
  BY <1>1, Mapped DEF Machine!Load

\* The start.
LEMMA StartMapped ==
  ASSUME ModeAt(phase) = "loading", phase' = "running", Mem(vm') = Mem(vm),
         vm'.builtin_runners = vm.builtin_runners,
         {vm'.pc, vm'.ap, vm'.fp} \subseteq Values
  PROVE  Machine!Start
<1>1. ModeAt(phase') = "running" /\ OwnedBy(vm') = OwnedBy(vm)
  BY DEF ModeAt, OwnedBy
<1>2. Machine!Values = Values
  BY DEF Machine!Values, Values, Machine!Ints, Ints, Machine!Relocatables, Relocatables
<1>3. RegsAt(phase', vm') \in [pc : Values, ap : Values, fp : Values]
  BY DEF RegsAt, Regs
<1> QED
  BY <1>1, <1>2, <1>3, Mapped DEF Machine!Start

\* The end.
LEMMA StopMapped ==
  ASSUME ModeAt(phase') = "stopped", Machine!Grows(Mem(vm), Mem(vm')),
         ModeAt(phase) = "stopped" => Mem(vm') = Mem(vm)
  PROVE  Machine!Stop
<1>1. RegsAt(phase', vm') = None
  BY DEF ModeAt, RegsAt
<1> QED
  BY <1>1, Mapped DEF Machine!Stop

\* Nothing that the machine sees.
LEMMA SameMapped ==
  ASSUME phase' = phase, vm'.memory.data = vm.memory.data,
         vm'.pc = vm.pc, vm'.ap = vm.ap, vm'.fp = vm.fp, vm'.hints = vm.hints,
         vm'.builtin_runners = vm.builtin_runners
  PROVE  UNCHANGED Machine!vars
<1>1. /\ Mem(vm') = Mem(vm) /\ OwnedBy(vm') = OwnedBy(vm)
      /\ RegsAt(phase', vm') = RegsAt(phase, vm) /\ ModeAt(phase') = ModeAt(phase)
  BY DEF Mem, OwnedBy, RegsAt, Regs, ModeAt
<1> QED
  BY <1>1, Mapped DEF Machine!vars

\* One instruction.
LEMMA ExecuteMapped ==
  ASSUME phase = "running", phase' = "running", MachineInv(vm), MachineInv(vm'),
         NEW h, Stepped(vm, h, vm'), Stepping(vm, vm')
  PROVE  Machine!Execute
<1> DEFINE m == Mem(vm)
           n == Mem(vm')
           r == Regs(vm)
           k == Mem(h)
           byHints == DOMAIN k \ DOMAIN m
           assigned == DOMAIN n \ DOMAIN m
           i == Machine!InstructionIn(n, vm.pc)
<1>1. MachineStep(vm, h, vm')
  BY StepExecutes
<1>2. /\ MachineInv(h) /\ h.pc = vm.pc /\ h.ap = vm.ap /\ h.fp = vm.fp
      /\ vm'.builtin_runners = vm.builtin_runners /\ vm'.hints = vm.hints
      /\ vm.pc \notin DOMAIN vm.hints => h = vm
      /\ \A b \in Relocatables :
           b = vm.ap \/ Cell(h.memory.data, b) = Cell(vm.memory.data, b)
      /\ Extends(vm.memory, h.memory) /\ Extends(vm.memory, vm'.memory)
  BY DEF Stepped, Hinted, Continues, Stepping
<1>3. /\ h.memory.data \in Seq(Seq(Elements)) /\ vm.memory.data \in Seq(Seq(Elements))
      /\ vm'.memory.data \in Seq(Seq(Elements))
  BY <1>2, SegmentsCounted DEF MachineInv, MachineMemory
<1>4. Keeps(vm, h) /\ Keeps(vm, vm') /\ Keeps(h, vm')
  <2>1. Keeps(vm, h) /\ Keeps(vm, vm')
    BY <1>2 DEF Extends, Keeps
  <2> DEFINE e == InstructionAt(h.memory.data, vm.pc)
             f == Fetch(h, e)
  <2>2. IsInstruction(e) /\ FetchError(f) = "ok" /\ HoldsAll(h, vm', f, Operands(h, e, f))
    BY DEF Stepped, RanInstruction
  <2>3. Fetched(h, f)
    BY <1>2, <2>2, FetchKnown DEF Fetched
  <2> QED
    BY <2>1, <2>2, <2>3, ExecutedKeeps
<1>5. Machine!Grows(m, n) /\ Machine!Grows(k, n)
  BY <1>3, <1>4, MemGrows
<1>6. DOMAIN k \subseteq DOMAIN n /\ DOMAIN m \subseteq DOMAIN k
  <2>1. Machine!Grows(m, k)
    BY <1>3, <1>4, MemGrows
  <2> QED
    BY <1>5, <2>1 DEF Machine!Grows
<1>7. byHints \subseteq {vm.ap} /\ (vm.pc \notin DOMAIN vm.hints => byHints = {})
  <2>1. ASSUME NEW b \in byHints PROVE b = vm.ap
    <3>1. b \in Relocatables /\ Cell(h.memory.data, b) # Cell(vm.memory.data, b)
      BY <1>3, MemKnown
    <3> QED
      BY <1>2, <3>1
  <2> QED
    BY <1>2, <2>1
<1>8. r.pc = vm.pc /\ r.ap = vm.ap /\ r.fp = vm.fp
  BY DEF Regs
<1>9. byHints \in SUBSET (assigned \intersect (IF r.pc \in DOMAIN vm.hints THEN {r.ap} ELSE {}))
  BY <1>6, <1>7, <1>8
<1>10. assigned \ byHints = DOMAIN n \ DOMAIN k
  BY <1>6
<1>11. Machine!Promised(i, r, n, DOMAIN n \ DOMAIN k)
  <2> DEFINE free == DOMAIN n \ DOMAIN k
             p == Machine!OperandsIn(i, r, n)
  <2>1. /\ i.opcode = "AssertEq" =>
             \/ Machine!Equation(i, p)
             \/ Machine!SolvedFactor(i, p, Machine!DstAddress(i, r) \in free)
             \/ Machine!NotCompared(i, p, Machine!DstAddress(i, r) \in free)
        /\ i.opcode = "Call" =>
             /\ Machine!DstAddress(i, r) \in free => p.dst = r.fp
             /\ (/\ Machine!Op0Address(i, r) \in free
                 /\ Machine!Op0Address(i, r).seg \notin OwnedBy(vm)) =>
                  p.op0 = Machine!ReturnPc(i, r)
    BY <1>1 DEF MachineStep
  <2> HIDE DEF free, p, i, r, n
  <2>5. Machine!Promised(i, r, n, free)
    BY <2>1, Mapped DEF Machine!Promised, p
  <2> QED
    BY <2>5 DEF free
<1>12. Machine!Follows(r, Regs(vm'), n)
  BY <1>1 DEF MachineStep
<1>13. /\ RegsAt(phase, vm) = r /\ RegsAt(phase', vm') = Regs(vm')
       /\ ModeAt(phase) = "running" /\ ModeAt(phase') = "running"
       /\ OwnedBy(vm') = OwnedBy(vm)
  BY <1>2 DEF RegsAt, ModeAt, OwnedBy
<1>14. \E x \in SUBSET (assigned \intersect (IF r.pc \in DOMAIN vm.hints THEN {r.ap} ELSE {})) :
         Machine!Promised(Machine!InstructionIn(n, r.pc), r, n, assigned \ x)
  BY <1>8, <1>9, <1>10, <1>11
<1> HIDE DEF m, n, r, k, byHints, i
<1> QED
  BY <1>2, <1>5, <1>12, <1>13, <1>14, Mapped DEF Machine!Execute, m, n


\* The run starts as the machine does.
LEMMA InitMapped == Init => Machine!Init
<1> SUFFICES ASSUME Init PROVE Machine!Init
  OBVIOUS
<1>1. /\ phase = "given" /\ vm.memory.data = << >> /\ vm.hints = << >>
      /\ Len(vm.builtin_runners) = 0
  BY DEF Init, NewVm, EmptyMemory
<1>2. ModeAt(phase) = "loading" /\ RegsAt(phase, vm) = None
  BY <1>1 DEF ModeAt, RegsAt
<1>3. OwnedBy(vm) = {}
  BY <1>1 DEF OwnedBy
<1>4. Mem(vm) = << >>
  <2>1. AddressesIn(<< >>) = {}
    BY DEF AddressesIn, Allocated
  <2> QED
    BY <1>1, <2>1 DEF Mem
<1>5. DOMAIN vm.hints = {}
  BY <1>1
<1> QED
  BY <1>2, <1>3, <1>4, <1>5, Mapped DEF Machine!Init

\* The memory of a sound vm grows when nothing that is assigned changes.
LEMMA SoundGrows ==
  ASSUME NEW v, VmSound(v), NEW w, VmSound(w), Keeps(v, w)
  PROVE  Machine!Grows(Mem(v), Mem(w))
<1>1. v.memory.data \in Seq(Seq(Elements)) /\ w.memory.data \in Seq(Seq(Elements))
  BY SegmentsCounted DEF VmSound, MachineMemory
<1> QED
  BY <1>1, MemGrows

\* What the calls after the run leave alone.
LEMMA ResultsKeep ==
  ASSUME RunInv, ReachFinalPc \/ VerifyRun \/ Relocate \/ WriteOutput \/ UNCHANGED vars
  PROVE  /\ vm'.memory = vm.memory
         /\ vm'.pc = vm.pc /\ vm'.ap = vm.ap /\ vm'.fp = vm.fp /\ vm'.hints = vm.hints
         /\ vm'.builtin_runners = vm.builtin_runners
         /\ vm'.trace = vm.trace /\ vm'.current_step = vm.current_step
<1>1. vm \in Machines
  BY DEF RunInv, VmSound
<1>2. CASE ReachFinalPc \/ UNCHANGED vars
  BY <1>2 DEF ReachFinalPc, vars
<1>3. CASE VerifyRun
  <2>1. vm' = VerifyAutoDeductions(vm).vm
    BY <1>3 DEF VerifyRun
  <2> QED
    BY <1>1, <2>1 DEF VerifyAutoDeductions, Verified, Result, Machines
<1>4. CASE Relocate
  BY <1>1, <1>4 DEF Relocate, WithSizes, Machines
<1>5. CASE WriteOutput
  <2>1. vm' = vm \/ vm' = WithSizes(vm)
    BY <1>5 DEF WriteOutput
  <2> QED
    BY <1>1, <2>1 DEF WithSizes, Machines
<1> QED
  BY <1>2, <1>3, <1>4, <1>5

\* A call of the set-up loads, or stops, the machine.
LEMMA PrepareMapped ==
  ASSUME RunInv, RunInv', Keeps(vm, vm'), DOMAIN vm'.hints = DOMAIN vm.hints,
         ModeAt(phase) = "loading", ModeAt(phase') \in {"loading", "stopped"}
  PROVE  Machine!Next
<1>1. Machine!Grows(Mem(vm), Mem(vm'))
  <2>1. VmSound(vm) /\ VmSound(vm')
    BY DEF RunInv
  <2> QED
    BY <2>1, SoundGrows
<1> QED
  BY <1>1, LoadMapped, StopMapped DEF Machine!Next

\* Every call of a run is a step of the machine, or nothing it sees.
LEMMA NextMapped ==
  RunInv /\ RunInv' /\ [Next]_vars => [Machine!Next]_(Machine!vars)
<1> SUFFICES ASSUME RunInv, RunInv', [Next]_vars
             PROVE  Machine!Next \/ UNCHANGED Machine!vars
  OBVIOUS
<1>0. VmSound(vm) /\ VmSound(vm')
  BY DEF RunInv
<1>1. CASE New
  <2>1. phase = "given" /\ phase' \in {"new", "failed"} /\ vm'.hints = << >>
    BY <1>1 DEF New, Call, NewVm
  <2>2. vm.memory.data = << >> /\ vm.hints = << >>
    BY <2>1 DEF RunInv, PhaseInv, Blank
  <2>3. Keeps(vm, vm')
    <3>1. ASSUME NEW b \in Relocatables PROVE Cell(<< >>, b) = None
      <4>1. Len(<< >>) = 0 /\ b.seg \in Nat
        BY RelocatableFields
      <4>2. ~(b.seg < Len(<< >>))
        BY <4>1
      <4> QED
        BY <4>2 DEF Cell
    <3> QED
      BY <2>2, <3>1 DEF Keeps
  <2>4. ModeAt(phase) = "loading" /\ ModeAt(phase') \in {"loading", "stopped"}
    BY <2>1 DEF ModeAt
  <2> QED
    BY <2>1, <2>2, <2>3, <2>4, PrepareMapped
<1>2. CASE InitializeSegments \/ InitializeMainEntrypoint
  <2>1. /\ phase \in {"new", "segments"}
        /\ phase' \in {"segments", "entrypoint", "failed"}
    BY <1>2, EntrypointCases DEF InitializeSegments, Call, EntrypointLoaded
  <2>2. Preparing(vm, vm') /\ vm'.hints = vm.hints
    BY <1>2, SegmentsPrepare, EntrypointPrepares
  <2>3. ModeAt(phase) = "loading" /\ ModeAt(phase') \in {"loading", "stopped"}
    BY <2>1 DEF ModeAt
  <2> QED
    BY <2>2, <2>3, PrepareMapped DEF Preparing
<1>3. CASE InitializeVm
  <2>1. phase = "entrypoint" /\ phase' \in {"running", "failed"}
    BY <1>3 DEF InitializeVm, Call
  <2>2. vm'.memory.data = vm.memory.data /\ vm'.builtin_runners = vm.builtin_runners
    BY <1>3, VmPrepares DEF Beginning
  <2>3. Mem(vm') = Mem(vm)
    BY <2>2 DEF Mem
  <2>4. ModeAt(phase) = "loading" /\ (phase' = "failed" => ModeAt(phase') = "stopped")
    BY <2>1 DEF ModeAt
  <2>5. {vm'.pc, vm'.ap, vm'.fp} \subseteq Values
    BY <1>0 DEF VmSound, Machines, Values
  <2>6. CASE phase' = "running"
    BY <2>2, <2>3, <2>4, <2>5, <2>6, StartMapped DEF Machine!Next
  <2>7. CASE phase' = "failed"
    <3>1. Machine!Grows(Mem(vm), Mem(vm'))
      BY <2>3 DEF Machine!Grows
    <3> QED
      BY <2>3, <2>4, <2>7, <3>1, StopMapped DEF Machine!Next
  <2> QED
    BY <2>1, <2>6, <2>7
<1>4. CASE Step
  <2>1. PICK answer : StepTaken(answer)
    BY <1>4, StepIsTaken
  <2>2. /\ MachineInv(vm) /\ Stepping(vm, vm') /\ phase = "running"
        /\ MachineInv(vm')
    BY <2>1 DEF StepTaken, Call, Stepping
  <2>3. CASE StepOf(vm, answer).err # "ok"
    <3>1. phase' = "failed"
      BY <2>1, <2>3 DEF StepTaken, Call
    <3>2. ModeAt(phase') = "stopped" /\ ModeAt(phase) = "running"
      BY <2>2, <3>1 DEF ModeAt
    <3>3. Keeps(vm, vm')
      BY <2>2 DEF Stepping, Continues, Extends, Keeps
    <3>4. Machine!Grows(Mem(vm), Mem(vm'))
      BY <1>0, <3>3, SoundGrows
    <3> QED
      BY <3>2, <3>4, StopMapped DEF Machine!Next
  <2>4. CASE StepOf(vm, answer).err = "ok"
    <3>1. phase' = "running" /\ Stepped(vm, ExecuteHints(vm, answer).vm, vm')
      BY <2>1, <2>4 DEF StepTaken, Call
    <3> QED
      BY <2>2, <3>1, ExecuteMapped DEF Machine!Next
  <2> QED
    BY <2>3, <2>4
<1>5. CASE ReachFinalPc \/ VerifyRun \/ Relocate \/ WriteOutput \/ UNCHANGED vars
  <2>1. /\ vm'.memory = vm.memory
        /\ vm'.pc = vm.pc /\ vm'.ap = vm.ap /\ vm'.fp = vm.fp /\ vm'.hints = vm.hints
        /\ vm'.builtin_runners = vm.builtin_runners
    BY <1>5, ResultsKeep
  <2>2. phase' = phase \/ phase' \in {"halted", "verified", "relocated", "failed"}
    BY <1>5 DEF ReachFinalPc, VerifyRun, Relocate, WriteOutput, Call, vars
  <2>3. CASE phase' = phase
    BY <2>1, <2>3, SameMapped
  <2>4. CASE phase' \in {"halted", "verified", "relocated", "failed"}
    <3>1. ModeAt(phase') = "stopped" /\ Mem(vm') = Mem(vm)
      BY <2>1, <2>4 DEF ModeAt, Mem
    <3>2. Machine!Grows(Mem(vm), Mem(vm'))
      BY <3>1 DEF Machine!Grows
    <3> QED
      BY <3>1, <3>2, StopMapped DEF Machine!Next
  <2> QED
    BY <2>2, <2>3, <2>4
<1> QED
  BY <1>1, <1>2, <1>3, <1>4, <1>5 DEF Next

\* Every run of the runner, whatever the program, is a run of the Cairo
\* machine (vm_core.rs, cairo_runner.rs): nothing that is assigned ever
\* changes, and each step executes the instruction at pc in the memory it
\* leaves, with the operands that it promises.
THEOREM RunImplementsCairoMachine == Spec => ImplementsCairoMachine
  BY InitMapped, NextMapped, RunInvariant, PTL DEF Spec, ImplementsCairoMachine, Machine!Spec

-----------------------------------------------------------------------------
(* The replay of the trace.                                                *)

\* What follows an instruction still follows it when the memory has grown:
\* the instruction and its operands were there.
LEMMA FollowsStays ==
  ASSUME NEW m, NEW n, Machine!Grows(m, n), NEW r, NEW s, Machine!Follows(r, s, m)
  PROVE  Machine!Follows(r, s, n)
<1> DEFINE i == Machine!InstructionIn(m, r.pc)
           o == Machine!OperandsIn(i, r, m)
<1>1. /\ Machine!Decodes(m, r.pc) /\ Machine!HoldsOperands(i, r, m)
      /\ \E res \in Machine!Results(i, o) :
           s = [pc |-> Machine!NextPc(i, r, o, res), ap |-> Machine!NextAp(i, r, res),
                fp |-> Machine!NextFp(i, r, o)]
  BY DEF Machine!Follows
<1>2. Machine!Decodes(n, r.pc) /\ Machine!InstructionIn(n, r.pc) = i
  BY <1>1, DecodesStays
<1> HIDE DEF i
<1>3. /\ Machine!DstAddress(i, r) \in DOMAIN m /\ Machine!Op0Address(i, r) \in DOMAIN m
      /\ Machine!Op1Address(i, r, m) \in DOMAIN m
  BY <1>1 DEF Machine!HoldsOperands, Machine!Holds
<1>4. \A a \in DOMAIN m : a \in DOMAIN n /\ n[a] = m[a]
  BY DEF Machine!Grows
<1>5. n[Machine!Op0Address(i, r)] = m[Machine!Op0Address(i, r)]
  BY <1>3, <1>4
<1>6. Machine!Op1Address(i, r, n) = Machine!Op1Address(i, r, m)
  BY <1>5 DEF Machine!Op1Address
<1>7. Machine!HoldsOperands(i, r, n)
  BY <1>3, <1>4, <1>6 DEF Machine!HoldsOperands, Machine!Holds
<1>8. Machine!OperandsIn(i, r, n) = o
  BY <1>3, <1>4, <1>6 DEF Machine!OperandsIn
<1> HIDE DEF o
<1> QED
  BY <1>1, <1>2, <1>7, <1>8 DEF Machine!Follows

\* The trace replays the run, if it has an entry for each step.
Replayed(v) ==
  (v.trace # None /\ Len(v.trace) = v.current_step) =>
    \A k \in 1..Len(v.trace) :
      Machine!Follows(v.trace[k], IF k < Len(v.trace) THEN v.trace[k + 1] ELSE Regs(v),
                      Mem(v))

\* A step adds what was missing: its own registers, which the next follow.
LEMMA ReplayedStep ==
  ASSUME NEW v, MachineInv(v), TraceKnown(v), Replayed(v),
         NEW h, NEW w, Stepped(v, h, w), Stepping(v, w),
         Machine!Grows(Mem(v), Mem(w)), Machine!Follows(Regs(v), Regs(w), Mem(w))
  PROVE  Replayed(w)
<1> SUFFICES ASSUME w.trace # None, Len(w.trace) = w.current_step, NEW k \in 1..Len(w.trace)
             PROVE  Machine!Follows(w.trace[k],
                                    IF k < Len(w.trace) THEN w.trace[k + 1] ELSE Regs(w),
                                    Mem(w))
  BY DEF Replayed
<1> DEFINE t == v.trace
           e == EntryOf(v)
           u == w.trace
           m == Mem(w)
<1>1. /\ v.current_step \in Nat /\ w.current_step = v.current_step + 1
      /\ v.trace \in Maybe(Seq(TraceEntries))
  BY DEF MachineInv, Machines, Stepping, Continues, Stepped
<1>2. w.trace = IF v.trace # None /\ Registered(v)
                THEN Append(v.trace, EntryOf(v)) ELSE v.trace
  BY StepTraces
<1>3. v.trace # None
  BY <1>2
<1>4. t \in Seq(TraceEntries) /\ Len(t) \in Nat /\ Len(t) <= v.current_step
  BY <1>1, <1>3, LenProperties DEF Maybe, TraceKnown
<1>5. Registered(v)
  <2>1. ASSUME ~Registered(v) PROVE FALSE
    <3>1. Len(t) = v.current_step + 1
      BY <1>1, <1>2, <2>1
    <3> QED
      BY <1>1, <1>4, <3>1
  <2> QED
    BY <2>1
<1>6. e \in TraceEntries /\ e = Regs(v)
  <2>1. e = Regs(v)
    BY DEF EntryOf, Regs
  <2>2. v.pc \in Known(v.num_segments) /\ v.ap \in Known(v.num_segments)
        /\ v.fp \in Known(v.num_segments)
    BY DEF MachineInv
  <2>3. v.pc \in Relocatables /\ v.ap \in Relocatables /\ v.fp \in Relocatables
    BY <1>5, <2>2, KnownKinds DEF Registered
  <2> QED
    BY <2>1, <2>3 DEF TraceEntries, EntryOf
<1>7. u = Append(t, e)
  BY <1>2, <1>3, <1>5
<1>8. Replayed(v) /\ Machine!Grows(Mem(v), m) /\ Machine!Follows(e, Regs(w), m)
  BY <1>6
<1>9. Len(u) = w.current_step /\ k \in 1..Len(u) /\ t # None
  BY <1>3
<1>10. (Len(t) = v.current_step) =>
         \A j \in 1..Len(t) :
           Machine!Follows(t[j], IF j < Len(t) THEN t[j + 1] ELSE Regs(v), Mem(v))
  BY <1>8, <1>9 DEF Replayed
<1>11. e = Regs(v)
  BY <1>6
<1> SUFFICES Machine!Follows(u[k], IF k < Len(u) THEN u[k + 1] ELSE Regs(w), m)
  OBVIOUS
<1> HIDE DEF t, e, u, m
<1>12. /\ Len(u) = Len(t) + 1
       /\ \A j \in 1..Len(t) : u[j] = t[j]
       /\ u[Len(t) + 1] = e
  BY <1>4, <1>6, <1>7, EntryAdded
<1> DEFINE l == Len(t)
<1>13. l \in Nat /\ Len(u) = l + 1 /\ l = v.current_step
  BY <1>1, <1>4, <1>9, <1>12
<1>14. CASE k = l + 1
  <2>1. u[k] = e /\ ~(k < Len(u))
    BY <1>12, <1>13, <1>14
  <2> QED
    BY <1>8, <2>1
<1>15. CASE k # l + 1
  <2> DEFINE s == IF k < l THEN t[k + 1] ELSE e
  <2>1. k \in 1..l /\ k < Len(u)
    BY <1>9, <1>13, <1>15
  <2>2. u[k] = t[k]
    BY <1>12, <2>1
  <2>3. u[k + 1] = s
    <3>1. CASE k < l
      <4>1. k + 1 \in 1..l
        BY <1>13, <2>1, <3>1
      <4> QED
        BY <1>12, <3>1, <4>1
    <3>2. CASE ~(k < l)
      <4>1. k = l
        BY <1>13, <2>1, <3>2
      <4> QED
        BY <1>12, <3>2, <4>1
    <3> QED
      BY <3>1, <3>2
  <2>4. Machine!Follows(t[k], s, Mem(v))
    BY <1>10, <1>11, <1>13, <2>1
  <2> HIDE DEF s
  <2>5. Machine!Follows(t[k], s, m)
    BY <1>8, <2>4, FollowsStays
  <2> QED
    BY <2>1, <2>2, <2>3, <2>5
<1> QED
  BY <1>14, <1>15

\* A call that changes nothing that the replay looks at.
LEMMA ReplayedKept ==
  ASSUME NEW v, NEW w, Replayed(v), w.trace = v.trace, w.current_step = v.current_step,
         w.memory = v.memory, w.pc = v.pc, w.ap = v.ap, w.fp = v.fp
  PROVE  Replayed(w)
<1>1. Mem(w) = Mem(v) /\ Regs(w) = Regs(v)
  BY DEF Mem, Regs
<1> QED
  BY <1>1 DEF Replayed

\* A recorded trace replays the run in the final memory (vm_core.rs,
\* run_instruction): each entry follows from the one before it, and the last
\* registers from the last entry, by the instruction that is at its pc now.
THEOREM RunTraceReplays == Spec => []TraceReplays
<1> DEFINE Ended == phase \in {"running", "halted", "verified", "relocated"}
           Replays == Ended => Replayed(vm)
<1>1. Replays => TraceReplays
  <2>1. Running \/ Finished => Ended
    BY DEF Running, Finished
  <2>2. MachineMem = Mem(vm) /\ Registers = Regs(vm)
    BY Mapped DEF Registers, Regs
  <2> QED
    BY <2>1, <2>2 DEF TraceReplays, Replayed
<1>2. Init => Replays
  BY DEF Init
<1>3. RunInv /\ RunInv' /\ TraceInv /\ Replays /\ [Next]_vars => Replays'
  <2> SUFFICES ASSUME RunInv, RunInv', TraceInv, Replays, [Next]_vars,
                      phase' \in {"running", "halted", "verified", "relocated"}
               PROVE  Replayed(vm')
    OBVIOUS
  <2>1. CASE New \/ InitializeSegments \/ InitializeMainEntrypoint
    BY <2>1, EntrypointCases DEF New, InitializeSegments, Call, EntrypointLoaded
  <2>2. CASE InitializeVm
    <3>1. SetUp
      BY <2>2 DEF InitializeVm, Call, SetUp
    <3>2. vm.trace \in {None, << >>} /\ vm'.trace = vm.trace
      BY <2>2, <3>1, VmPrepares DEF TraceInv, Beginning, Preparing
    <3>3. vm'.trace = None \/ Len(vm'.trace) = 0
      BY <3>2
    <3> QED
      BY <3>3 DEF Replayed
  <2>3. CASE Step
    <3>1. PICK answer : StepTaken(answer)
      BY <2>3, StepIsTaken
    <3>2. StepOf(vm, answer).err = "ok"
      BY <3>1 DEF StepTaken, Call
    <3>3. /\ Stepped(vm, ExecuteHints(vm, answer).vm, vm') /\ Stepping(vm, vm')
          /\ MachineInv(vm) /\ phase = "running"
      BY <3>1, <3>2 DEF StepTaken, Call
    <3>4. MachineStep(vm, ExecuteHints(vm, answer).vm, vm')
      BY <3>3, StepExecutes
    <3>5. Machine!Follows(Regs(vm), Regs(vm'), Mem(vm'))
      BY <3>4 DEF MachineStep
    <3>6. Machine!Grows(Mem(vm), Mem(vm'))
      <4>1. VmSound(vm) /\ VmSound(vm')
        BY DEF RunInv
      <4>2. Keeps(vm, vm')
        BY <3>3 DEF Stepping, Continues, Extends, Keeps
      <4> QED
        BY <4>1, <4>2, SoundGrows
    <3>7. TraceKnown(vm) /\ Replayed(vm)
      BY <3>3 DEF TraceInv
    <3> QED
      BY <3>3, <3>5, <3>6, <3>7, ReplayedStep
  <2>4. CASE ReachFinalPc \/ VerifyRun \/ Relocate \/ WriteOutput \/ UNCHANGED vars
    <3>1. /\ vm'.memory = vm.memory
          /\ vm'.pc = vm.pc /\ vm'.ap = vm.ap /\ vm'.fp = vm.fp
          /\ vm'.trace = vm.trace /\ vm'.current_step = vm.current_step
      BY <2>4, ResultsKeep
    <3>2. Ended
      BY <2>4 DEF ReachFinalPc, VerifyRun, Relocate, WriteOutput, Call, vars
    <3> QED
      BY <3>1, <3>2, ReplayedKept
  <2> QED
    BY <2>1, <2>2, <2>3, <2>4 DEF Next
<1> HIDE DEF Replays
<1> QED
  BY <1>1, <1>2, <1>3, RunInvariant, TraceInvariant, PTL DEF Spec

-----------------------------------------------------------------------------
(* The ret of main.                                                        *)

\* What initialize_main_entrypoint leaves under main's fp: its caller's fp and
\* the final pc, the bases of the two segments that it has added.
Entered(v, r) ==
  /\ r.initial_fp \in Relocatables /\ r.initial_fp.off \in 2..UsizeMax
  /\ r.final_pc \in Relocatables /\ r.final_pc.seg - 1 \in Nat
  /\ Cell(v.memory.data, RelocatableValue(r.initial_fp.seg, r.initial_fp.off - 2))
       = RelocatableValue(r.final_pc.seg - 1, 0)
  /\ Cell(v.memory.data, RelocatableValue(r.initial_fp.seg, r.initial_fp.off - 1))
       = r.final_pc

MainInv ==
  /\ phase = "segments" => runner.execution_base.off = 0
  /\ phase \in {"entrypoint", "running"} => Entered(vm, runner)

\* The stack of main fits in its segment.
LEMMA StackFits ==
  ASSUME RunInv, phase \notin {"given", "failed"}
  PROVE  Len(vm.builtin_runners) \in Nat /\ Len(vm.builtin_runners) + 2 <= UsizeMax
<1> DEFINE names == program.builtins
           N == Len(vm.builtin_runners)
           k == Len(names)
           l == Len(WithRunner(names))
<1>1. program \in Programs /\ NamesKept(vm, program.builtins)
  BY DEF RunInv, RunTypes, PhaseInv
<1>2. names \in Seq(STRING) /\ Len(names) + 2 <= UsizeMax
  BY <1>1, ProgramAssumption
<1>3. /\ WithRunner(names) \in Seq(STRING)
      /\ l <= k
  BY <1>2, WithRunnerStep
<1>4. k \in Nat /\ l \in Nat /\ UsizeMax \in Nat /\ k + 2 <= UsizeMax
  BY <1>2, <1>3, LenProperties, FieldAssumption
<1>5. N = l
  BY <1>1 DEF NamesKept
<1> HIDE DEF k, l, N
<1>6. N \in Nat /\ N + 2 <= UsizeMax
  BY <1>3, <1>4, <1>5
<1> QED
  BY <1>6 DEF N

\* What an instruction finds one or two cells under an fp.
LEMMA UnderFp ==
  ASSUME NEW fp \in Relocatables, fp.off \in 2..UsizeMax
  PROVE  /\ AddIntMod(fp, -2) = Ok(RelocatableValue(fp.seg, fp.off - 2))
         /\ AddIntMod(fp, -1) = Ok(RelocatableValue(fp.seg, fp.off - 1))
<1> DEFINE off == fp.off
<1>1. ~IsInt(fp) /\ off \in Nat
  BY RelocatableFields DEF IsInt, Relocatables
<1>2. UsizeMax \in Nat /\ Prime \in Nat /\ Prime > UsizeMax + 1
  BY FieldAssumption
<1>3. /\ off + -2 = off - 2 /\ ~(off + -2 < 0) /\ off - 2 \in 0..UsizeMax /\ off - 2 < Prime
      /\ off + -1 = off - 1 /\ ~(off + -1 < 0) /\ off - 1 \in 0..UsizeMax /\ off - 1 < Prime
  BY <1>1, <1>2
<1>4. ASSUME NEW n \in Nat, n < Prime PROVE n % Prime = n
  BY <1>2, <1>4
<1>5. (off + -2) % Prime = off - 2 /\ (off + -1) % Prime = off - 1
  <2>1. off - 2 \in Nat /\ off - 1 \in Nat
    BY <1>2, <1>3
  <2>2. (off - 2) % Prime = off - 2 /\ (off - 1) % Prime = off - 1
    BY <1>3, <1>4, <2>1
  <2> QED
    BY <1>3, <2>2
<1> HIDE DEF off
<1>6. ASSUME NEW n, ~(off + n < 0)
      PROVE  AddIntMod(fp, n) = WithOffset(fp, (off + n) % Prime)
  BY <1>1, <1>6 DEF AddIntMod, off
<1> QED
  BY <1>3, <1>5, <1>6 DEF WithOffset, off

\* initialize_main_entrypoint leaves them there.
LEMMA EntrypointEntered ==
  ASSUME RunInv, MainInv, InitializeMainEntrypoint, phase' = "entrypoint"
  PROVE  Entered(vm', runner')
<1> DEFINE loaded == EntrypointOutcome
           stack  == EntrypointStack
           N      == Len(vm.builtin_runners)
           n      == vm.num_segments
           base   == runner.execution_base
           end    == RelocatableValue(n + 1, 0)
           fp     == RelocatableValue(base.seg, N + 2)
<1>1. EntrypointLoaded(loaded, EntrypointRunner)
  BY EntrypointCases DEF Call
<1>2. /\ phase = "segments" /\ loaded.err = "ok" /\ vm' = loaded.vm
      /\ runner' = [EntrypointRunner EXCEPT !.final_pc = end]
  BY <1>1 DEF EntrypointLoaded, Call
<1>3. /\ VmSound(vm) /\ BasesKnown(vm) /\ n \in Nat
      /\ runner \in RunnerStates /\ program \in Programs
      /\ runner.program_base # None /\ base # None /\ base.off = 0
  BY <1>2 DEF RunInv, RunTypes, PhaseInv, Built, MainInv, VmSound, Machines
<1>4. /\ runner.program_base \in Relocatables /\ base \in Relocatables
      /\ program.data \in Seq(Naturals)
  BY <1>3, ProgramKnown DEF RunnerStates, Maybe
<1>5. N \in Nat /\ N + 2 <= UsizeMax
  BY <1>2, StackFits
<1>6. /\ Len(stack) = N + 2
      /\ Cell(loaded.vm.memory.data, RelocatableValue(base.seg, base.off + N))
           = RelocatableValue(n, 0)
      /\ Cell(loaded.vm.memory.data, RelocatableValue(base.seg, base.off + N + 1)) = end
  <2>1. stack = InitialStack(Bases(vm), RelocatableValue(vm.num_segments, 0),
                             RelocatableValue(vm.num_segments + 1, 0))
    BY DEF EntrypointStack
  <2>2. loaded = LoadInto(LoadInto(Result(WithSegments(vm, 2), "ok"), runner.program_base,
                                   program.data), base, stack)
    BY DEF EntrypointOutcome
  <2> HIDE DEF loaded, stack
  <2> QED
    BY <1>2, <1>3, <1>4, <2>1, <2>2, LoadedProgram
<1>7. base.seg \in Nat
  BY <1>4, RelocatableFields
<1>8. /\ runner'.initial_fp = fp /\ runner'.final_pc = end
  <2>1. EntrypointRunner =
          [runner EXCEPT !.initial_fp = [base EXCEPT !.off = @ + Len(stack)],
                         !.initial_pc = [runner.program_base EXCEPT !.off = @ + program.main]]
    BY DEF EntrypointRunner
  <2>2. [base EXCEPT !.off = @ + Len(stack)] = RelocatableValue(base.seg, base.off + (N + 2))
    <3> DEFINE k == Len(stack)
    <3>1. k = N + 2 /\ k \in Nat
      BY <1>5, <1>6
    <3> HIDE DEF k, base, N
    <3>2. [base EXCEPT !.off = @ + k] = RelocatableValue(base.seg, base.off + k)
      BY <1>4, <3>1, AddressMoved
    <3> QED
      BY <3>1, <3>2 DEF k
  <2>3. base.off + (N + 2) = N + 2
    BY <1>3, <1>5
  <2> HIDE DEF end, stack, base
  <2> QED
    BY <1>2, <1>3, <2>1, <2>2, <2>3 DEF RunnerStates
<1>9. /\ fp \in Relocatables /\ fp.seg = base.seg /\ fp.off = N + 2
      /\ end \in Relocatables /\ end.seg = n + 1
  BY <1>3, <1>5, <1>7 DEF RelocatableValue, Relocatables
<1> HIDE DEF loaded, stack, fp, end, N, n, base
<1>10. /\ base.off + N = (N + 2) - 2 /\ base.off + N + 1 = (N + 2) - 1
       /\ (n + 1) - 1 = n /\ N + 2 \in 2..UsizeMax
  BY <1>3, <1>5, FieldAssumption
<1> QED
  BY <1>2, <1>3, <1>6, <1>8, <1>9, <1>10 DEF Entered

\* They stay there.
LEMMA EnteredKept ==
  ASSUME NEW v, NEW w, NEW r, Entered(v, r), Keeps(v, w)
  PROVE  Entered(w, r)
<1> DEFINE fp == r.initial_fp
           end == r.final_pc
           a == RelocatableValue(fp.seg, fp.off - 2)
           b == RelocatableValue(fp.seg, fp.off - 1)
<1>1. /\ fp \in Relocatables /\ fp.off \in 2..UsizeMax
      /\ end \in Relocatables /\ end.seg - 1 \in Nat
  BY DEF Entered
<1>2. a \in Relocatables /\ b \in Relocatables
  <2>1. fp.seg \in Nat /\ fp.off - 2 \in Nat /\ fp.off - 1 \in Nat
    BY <1>1, RelocatableFields, FieldAssumption
  <2> QED
    BY <2>1 DEF Relocatables, RelocatableValue
<1>3. end # None /\ RelocatableValue(end.seg - 1, 0) # None
  <2>1. RelocatableValue(end.seg - 1, 0) \in Relocatables
    BY <1>1 DEF Relocatables, RelocatableValue
  <2> QED
    BY <1>1, <2>1, NoneAssumption DEF Values
<1> HIDE DEF a, b
<1>4. Cell(v.memory.data, a) = RelocatableValue(end.seg - 1, 0)
      /\ Cell(v.memory.data, b) = end
  BY DEF Entered, a, b
<1>5. Cell(w.memory.data, a) = Cell(v.memory.data, a)
      /\ Cell(w.memory.data, b) = Cell(v.memory.data, b)
  BY <1>2, <1>3, <1>4 DEF Keeps
<1> QED
  BY <1>1, <1>4, <1>5 DEF Entered, a, b

\* Every reachable state has main's frame, once it is entered.
LEMMA MainInvariant == Spec => []MainInv
<1>1. Init => MainInv
  BY DEF Init, MainInv
<1>2. RunInv /\ MainInv /\ [Next]_vars => MainInv'
  <2> SUFFICES ASSUME RunInv, MainInv, [Next]_vars PROVE MainInv'
    OBVIOUS
  <2>1. CASE InitializeSegments
    <3>1. phase' = "segments" /\ runner \in RunnerStates
      BY <2>1 DEF InitializeSegments, Call, RunInv, RunTypes
    <3>2. runner' = [runner EXCEPT !.program_base = RelocatableValue(vm.num_segments + 0, 0),
                                   !.execution_base = RelocatableValue(vm.num_segments + 1, 0)]
      BY <2>1 DEF InitializeSegments
    <3>3. runner'.execution_base = RelocatableValue(vm.num_segments + 1, 0)
      BY <3>1, <3>2 DEF RunnerStates
    <3>4. runner'.execution_base.off = 0
      BY <3>3 DEF RelocatableValue
    <3> QED
      BY <3>1, <3>4 DEF MainInv
  <2>2. CASE InitializeMainEntrypoint
    <3>1. phase' \in {"entrypoint", "failed"}
      BY <2>2, EntrypointCases DEF EntrypointLoaded, Call
    <3> QED
      BY <2>2, <3>1, EntrypointEntered DEF MainInv
  <2>3. CASE InitializeVm
    <3>1. phase = "entrypoint" /\ runner' = runner /\ phase' \in {"running", "failed"}
      BY <2>3 DEF InitializeVm, Call
    <3>2. Keeps(vm, vm')
      BY <2>3, VmPrepares DEF Beginning, Preparing
    <3>3. Entered(vm', runner)
      BY <3>1, <3>2, EnteredKept DEF MainInv
    <3> QED
      BY <3>1, <3>3 DEF MainInv
  <2>4. CASE Step
    <3>1. PICK answer : StepTaken(answer)
      BY <2>4, StepIsTaken
    <3>2. phase = "running" /\ runner' = runner /\ phase' \in {"running", "failed"}
          /\ Stepping(vm, vm')
      BY <2>4, <3>1 DEF Step, StepTaken, Call, Stepping
    <3>3. Keeps(vm, vm')
      BY <3>2 DEF Stepping, Continues, Extends, Keeps
    <3>4. Entered(vm', runner)
      BY <3>2, <3>3, EnteredKept DEF MainInv
    <3> QED
      BY <3>2, <3>4 DEF MainInv
  <2>5. CASE New \/ ReachFinalPc \/ VerifyRun \/ Relocate
    BY <2>5 DEF New, ReachFinalPc, VerifyRun, Relocate, Call, MainInv
  <2>6. CASE WriteOutput \/ UNCHANGED vars
    <3>1. phase' \in {phase, "failed"} /\ runner' = runner
      BY <2>6 DEF WriteOutput, vars
    <3>2. vm'.memory = vm.memory
      BY <2>6, ResultsKeep
    <3>3. Keeps(vm, vm')
      BY <3>2 DEF Keeps
    <3>4. Entered(vm, runner) => Entered(vm', runner)
      BY <3>3, EnteredKept
    <3> QED
      BY <3>1, <3>4 DEF MainInv
  <2> QED
    BY <2>1, <2>2, <2>3, <2>4, <2>5, <2>6 DEF Next
<1> QED
  BY <1>1, <1>2, RunInvariant, PTL DEF Spec

\* Where the ret goes: the registers it leaves are its operands.
LEMMA RetFollows ==
  ASSUME NEW m, NEW r, NEW s, Machine!Follows(r, s, m),
         NEW i, i = Machine!InstructionIn(m, r.pc),
         i.opcode = "Ret", i.pc_update = "Jump", i.res = "Op1"
  PROVE  /\ IsInstruction(i)
         /\ s.pc = m[Machine!Op1Address(i, r, m)]
         /\ s.fp = m[Machine!DstAddress(i, r)]
         /\ Machine!Op1Address(i, r, m) \in DOMAIN m
         /\ Machine!DstAddress(i, r) \in DOMAIN m
<1> DEFINE o == Machine!OperandsIn(i, r, m)
<1>1. /\ Machine!HoldsOperands(i, r, m)
      /\ \E res \in Machine!Results(i, o) :
           s = [pc |-> Machine!NextPc(i, r, o, res), ap |-> Machine!NextAp(i, r, res),
                fp |-> Machine!NextFp(i, r, o)]
  BY DEF Machine!Follows
<1>2. /\ o.op1 = m[Machine!Op1Address(i, r, m)] /\ o.dst = m[Machine!DstAddress(i, r)]
  BY DEF Machine!OperandsIn
<1> HIDE DEF o
<1>3. Machine!Results(i, o) = {o.op1}
  <2>1. Machine!Computed(i, o) = Ok(o.op1)
    BY SameArithmetic DEF Machine!Computed
  <2> QED
    BY <2>1 DEF Machine!Results, Ok
<1>4. s = [pc |-> Machine!NextPc(i, r, o, o.op1), ap |-> Machine!NextAp(i, r, o.op1),
           fp |-> Machine!NextFp(i, r, o)]
  BY <1>1, <1>3
<1>5. Machine!NextPc(i, r, o, o.op1) = o.op1 /\ Machine!NextFp(i, r, o) = o.dst
  BY DEF Machine!NextPc, Machine!NextFp
<1>6. IsInstruction(i)
  <2>1. Machine!Decodes(m, r.pc)
    BY DEF Machine!Follows
  <2>2. DecodeError(m[r.pc].num, Machine!Immediate(m, r.pc)) = "ok"
    BY <2>1, SameDecoding DEF Machine!Decodes
  <2>3. i = Instruction(m[r.pc].num, Machine!Immediate(m, r.pc))
    BY SameDecoding DEF Machine!InstructionIn
  <2> QED
    BY <2>2, <2>3, DecodedInstruction
<1> QED
  BY <1>1, <1>2, <1>4, <1>5, <1>6 DEF Machine!HoldsOperands, Machine!Holds

\* The operands of the compiled ret, for the machine.
LEMMA RetOperands ==
  ASSUME NEW i, IsInstruction(i), IsRet(i), NEW m, AddIntMod(vm.fp, -1).err = "ok"
  PROVE  /\ Machine!Op1Address(i, Regs(vm), m) = AddIntMod(vm.fp, -1).val
         /\ Machine!DstAddress(i, Regs(vm)) = AddIntMod(vm.fp, -2).val
<1> DEFINE r == Regs(vm)
<1>1. r.pc = vm.pc /\ r.ap = vm.ap /\ r.fp = vm.fp
  BY DEF Regs
<1>2. \A name : Machine!RegisterIn(r, name) = RegisterOf(vm, name)
  BY <1>1 DEF Machine!RegisterIn, RegisterOf
<1> HIDE DEF r
<1>3. Machine!DstAddress(i, r) = AddIntMod(vm.fp, -2).val
  BY <1>2, SameArithmetic DEF Machine!DstAddress, DstAddr, IsRet
<1>4. Op1Addr(vm, i, None) = AddIntMod(vm.fp, -1) /\ Op1Addr(vm, i, None).err = "ok"
  BY DEF IsRet
<1>5. Machine!Op1Address(i, r, m) = Op1Addr(vm, i, None).val
  <2>1. CASE i.op1_addr = "AP" \/ i.op1_addr = "FP"
    BY <1>2, <2>1, SameArithmetic DEF Machine!Op1Address, Op1Addr
  <2>2. CASE i.op1_addr = "Imm"
    <3>1. i.off2 = 1
      BY <1>4, <2>2 DEF Op1Addr, Err
    <3> QED
      BY <1>1, <2>2, <3>1, SameArithmetic DEF Machine!Op1Address, Op1Addr
  <2>3. CASE i.op1_addr = "Op0"
    BY <1>4, <2>3 DEF Op1Addr, Err
  <2> QED
    BY <2>1, <2>2, <2>3 DEF IsInstruction
<1> QED
  BY <1>3, <1>4, <1>5 DEF r

\* The ret of main ends the run (cairo_runner.rs, initialize_main_entrypoint;
\* vm_core.rs, update_registers): it finds the final pc and main's caller's fp
\* where the runner has left them, whatever the program has written since.
THEOREM RunMainReturns == Spec => MainReturnsToEnd
<1> DEFINE Returned == vm'.pc = runner.final_pc
                         /\ vm'.fp = RelocatableValue(runner.final_pc.seg - 1, 0)
           Returning == Executed /\ vm.fp = runner.initial_fp /\ IsRet(ExecutedInstruction)
<1>1. RunInv /\ RunInv' /\ MainInv /\ MainInv' /\ [Next]_vars => [Returning => Returned]_vars
  <2> SUFFICES ASSUME RunInv, RunInv', MainInv, MainInv', Next, Returning PROVE Returned
    BY DEF vars
  <2> DEFINE i  == ExecutedInstruction
             m  == Mem(vm')
             r  == Regs(vm)
             fp == vm.fp
  <2>1. phase = "running" /\ phase' = "running" /\ vm'.current_step = vm.current_step + 1
        /\ fp = runner.initial_fp /\ IsRet(i)
    BY DEF Executed, Running
  <2>2. vm.current_step \in Nat
    BY DEF RunInv, VmSound, Machines
  <2>3. CASE Step
    <3>1. PICK answer : StepTaken(answer)
      BY <2>3, StepIsTaken
    <3>2. /\ Stepped(vm, ExecuteHints(vm, answer).vm, vm') /\ Stepping(vm, vm')
          /\ MachineInv(vm)
      BY <2>1, <3>1 DEF StepTaken, Call
    <3>3. MachineStep(vm, ExecuteHints(vm, answer).vm, vm')
      BY <3>2, StepExecutes
    <3>4. Machine!Follows(r, Regs(vm'), m)
      BY <3>3 DEF MachineStep
    <3>5. i = Machine!InstructionIn(m, r.pc)
      BY Mapped DEF ExecutedInstruction, Regs
    <3>6. i.opcode = "Ret" /\ i.pc_update = "Jump" /\ i.res = "Op1"
      BY <2>1 DEF IsRet
    <3>7. Entered(vm', runner)
      <4>1. runner' = runner
        BY <2>3 DEF Step
      <4> QED
        BY <2>1, <4>1 DEF MainInv
    <3>8. /\ fp \in Relocatables /\ fp.off \in 2..UsizeMax
          /\ Cell(vm'.memory.data, RelocatableValue(fp.seg, fp.off - 2))
               = RelocatableValue(runner.final_pc.seg - 1, 0)
          /\ Cell(vm'.memory.data, RelocatableValue(fp.seg, fp.off - 1)) = runner.final_pc
      BY <2>1, <3>7 DEF Entered
    <3> HIDE DEF i, m, r
    <3>9. /\ IsInstruction(i)
          /\ Regs(vm').pc = m[Machine!Op1Address(i, r, m)]
          /\ Regs(vm').fp = m[Machine!DstAddress(i, r)]
          /\ Machine!Op1Address(i, r, m) \in DOMAIN m
          /\ Machine!DstAddress(i, r) \in DOMAIN m
      BY <3>4, <3>5, <3>6, RetFollows
    <3>10. /\ Machine!Op1Address(i, r, m) = RelocatableValue(fp.seg, fp.off - 1)
           /\ Machine!DstAddress(i, r) = RelocatableValue(fp.seg, fp.off - 2)
      <4> DEFINE a == RelocatableValue(fp.seg, fp.off - 1)
                 b == RelocatableValue(fp.seg, fp.off - 2)
      <4>1. AddIntMod(fp, -1) = Ok(a) /\ AddIntMod(fp, -2) = Ok(b)
        BY <3>8, UnderFp
      <4> HIDE DEF a, b
      <4>2. AddIntMod(fp, -1).err = "ok" /\ AddIntMod(fp, -1).val = a
            /\ AddIntMod(fp, -2).val = b
        BY <4>1 DEF Ok
      <4> QED
        BY <2>1, <3>9, <4>2, RetOperands DEF r, a, b
    <3>11. vm'.memory.data \in Seq(Seq(Elements))
      BY SegmentsCounted DEF RunInv, VmSound, MachineMemory
    <3>12. \A a \in DOMAIN m : m[a] = Cell(vm'.memory.data, a)
      BY <3>11, MemKnown DEF m
    <3>13. Regs(vm').pc = vm'.pc /\ Regs(vm').fp = vm'.fp
      BY DEF Regs
    <3> QED
      BY <3>8, <3>9, <3>10, <3>12, <3>13
  <2>4. CASE ReachFinalPc \/ VerifyRun \/ Relocate \/ WriteOutput
    <3>1. vm'.current_step = vm.current_step
      BY <2>4, ResultsKeep
    <3> QED
      BY <2>1, <2>2, <3>1
  <2>5. CASE New \/ InitializeSegments \/ InitializeMainEntrypoint \/ InitializeVm
    BY <2>1, <2>5, EntrypointCases
       DEF New, InitializeSegments, InitializeVm, Call, EntrypointLoaded
  <2> QED
    BY <2>3, <2>4, <2>5 DEF Next
<1> QED
  BY <1>1, RunInvariant, MainInvariant, PTL DEF Spec, MainReturnsToEnd
=============================================================================
