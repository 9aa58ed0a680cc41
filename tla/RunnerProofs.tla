---------------------------- MODULE RunnerProofs -----------------------------
(***************************************************************************)
(* The properties of a run, for every program, field and bound: the        *)
(* invariant of CairoRunner that implies them, and that every call keeps.  *)
(***************************************************************************)
EXTENDS CairoRunner, MachineProofs

-----------------------------------------------------------------------------
(* The invariant.                                                          *)

Phases == {"given", "new", "segments", "entrypoint", "running", "halted", "verified",
           "relocated", "failed"}

\* The segments exist, and the run has not failed.
Built == phase \in {"segments", "entrypoint", "running", "halted", "verified", "relocated"}

RelocatedEntries == [pc : Int, ap : Int, fp : Int]

RunnerStates ==
  [program_base : Maybe(Relocatables), execution_base : Maybe(Relocatables),
   initial_pc : Maybe(Relocatables), initial_fp : Maybe(Relocatables),
   final_pc : Maybe(Relocatables),
   relocated_memory : Seq(Int \union {None}),
   relocated_trace : Maybe(Seq(RelocatedEntries))]

RunTypes ==
  /\ phase \in Phases
  /\ (error # "ok") = (phase = "failed")
  /\ program \in Programs
  /\ runner \in RunnerStates
  /\ output \in Seq(Int)

\* The vm, whose registers point to the first cell until they are set.
VmSound(v) ==
  /\ v \in Machines
  /\ MachineMemory(v.memory, v.num_segments)
  /\ IF v.num_segments > 0 THEN MachineInv(v)
     ELSE \A a \in {v.pc, v.ap, v.fp} : a = RelocatableValue(0, 0)
  /\ v.current_step <= MaxSteps

\* A vm without segments.
Blank(v) ==
  /\ v.num_segments = 0 /\ v.memory.data = << >> /\ v.verified_addresses = {}
  /\ v.current_step = 0 /\ v.hints = << >>
  /\ \A i \in 1..Len(v.builtin_runners) : v.builtin_runners[i].base = None

\* Each builtin has a segment to itself.
BasesKnown(v) ==
  /\ v.num_segments > 0
  /\ \A i \in 1..Len(v.builtin_runners) :
       /\ v.builtin_runners[i].base \in Relocatables
       /\ v.builtin_runners[i].base.seg < v.num_segments
  /\ \A i, j \in 1..Len(v.builtin_runners) :
       v.builtin_runners[i].base.seg = v.builtin_runners[j].base.seg => i = j

\* The runners of the builtins, in their order.
NamesKept(v, builtins) ==
  /\ NewError(builtins) = "ok"
  /\ Len(v.builtin_runners) = Len(WithRunner(builtins))
  /\ \A i \in 1..Len(v.builtin_runners) :
       v.builtin_runners[i].name = WithRunner(builtins)[i]

\* What is assigned in a segment with a rule is validated, and the segments of
\* the range checks have one.
Checked(v) ==
  /\ RuledSegments(v.builtin_runners) \subseteq v.memory.validation_rules
  /\ \A a \in Relocatables :
       (Cell(v.memory.data, a) # None /\ a.seg \in v.memory.validation_rules) =>
         a \in v.memory.validated_addresses

\* The pedersen runner's answers, once the final check has also deduced cells
\* that are unassigned.
HashesHold(v) ==
  \A a \in v.verified_addresses :
    HasInputs(v.memory, a) /\ Cell(v.memory.data, a) \in {HashOf(v.memory, a), None}

\* The sizes are those of the memory as it is, if they are known.
SizesKept(v) == v.segment_used_sizes \in {None, EffectiveSizes(v.memory.data)}

PhaseInv ==
  /\ phase \in {"given", "new"} => Blank(vm)
  /\ phase = "given" => vm.builtin_runners = << >>
  /\ Built => BasesKnown(vm)
  /\ phase \notin {"given", "failed"} => NamesKept(vm, program.builtins)
  /\ phase = "segments" =>
       /\ runner.program_base # None /\ runner.program_base.seg < vm.num_segments
       /\ runner.execution_base # None /\ runner.execution_base.seg < vm.num_segments
  /\ phase = "entrypoint" =>
       /\ runner.initial_pc # None /\ runner.initial_pc.seg < vm.num_segments
       /\ runner.initial_fp # None /\ runner.initial_fp.seg < vm.num_segments
  /\ phase \in {"segments", "entrypoint"} =>
       vm.verified_addresses = {} /\ vm.current_step = 0 /\ vm.hints = << >>
  /\ (Running \/ Finished) => Checked(vm)
  /\ phase \in {"running", "halted"} => HashesStored(vm)
  /\ phase \in {"verified", "relocated"} => HashesHold(vm)
  /\ DeductionsHold
  /\ phase \notin {"relocated", "failed"} => runner.relocated_memory = << >>
  /\ ~EarlyOutput =>
       /\ phase \notin {"relocated", "failed"} => vm.segment_used_sizes = None
       /\ phase = "relocated" => SizesKept(vm)

RunInv == RunTypes /\ VmSound(vm) /\ PhaseInv

-----------------------------------------------------------------------------
(* The calls on the vm.                                                    *)

\* Computing the sizes changes nothing else.
LEMMA WithSizesStep ==
  ASSUME NEW v, VmSound(v)
  PROVE  LET w == WithSizes(v)
         IN  /\ VmSound(w)
             /\ w.segment_used_sizes = IF v.segment_used_sizes = None
                                       THEN EffectiveSizes(v.memory.data)
                                       ELSE v.segment_used_sizes
             /\ w.segment_used_sizes \in Seq(Nat)
             /\ w.pc = v.pc /\ w.ap = v.ap /\ w.fp = v.fp /\ w.memory = v.memory
             /\ w.num_segments = v.num_segments /\ w.builtin_runners = v.builtin_runners
             /\ w.verified_addresses = v.verified_addresses /\ w.hints = v.hints
             /\ w.trace = v.trace /\ w.current_step = v.current_step
<1> DEFINE sizes == IF v.segment_used_sizes = None THEN EffectiveSizes(v.memory.data)
                    ELSE v.segment_used_sizes
           w == WithSizes(v)
<1>1. v \in Machines /\ MachineMemory(v.memory, v.num_segments)
  BY DEF VmSound
<1>2. sizes \in Seq(Nat)
  <2>1. v.segment_used_sizes \in Maybe(Seq(Nat))
    BY <1>1 DEF Machines
  <2>2. v.memory.data \in Seq(Seq(Elements))
    BY <1>1, SegmentsCounted DEF MachineMemory
  <2>3. EffectiveSizes(v.memory.data) \in Seq(Nat)
    BY <2>2 DEF EffectiveSizes
  <2> QED
    BY <2>1, <2>3 DEF Maybe
<1>3. w = [v EXCEPT !.segment_used_sizes = sizes]
  BY DEF WithSizes
<1> HIDE DEF sizes, w
<1>4. w \in Machines
  BY <1>1, <1>2, <1>3 DEF Machines, Maybe
<1>5. /\ w.segment_used_sizes = sizes
      /\ w.pc = v.pc /\ w.ap = v.ap /\ w.fp = v.fp /\ w.memory = v.memory
      /\ w.num_segments = v.num_segments /\ w.builtin_runners = v.builtin_runners
      /\ w.verified_addresses = v.verified_addresses /\ w.hints = v.hints
      /\ w.trace = v.trace /\ w.current_step = v.current_step
  BY <1>1, <1>3 DEF Machines
<1>6. VmSound(w)
  BY <1>4, <1>5 DEF VmSound, MachineInv
<1> QED
  BY <1>2, <1>5, <1>6 DEF sizes, w

\* Empty segments.
Empty(n) == [i \in 1..n |-> << >>]

\* When they are added, the cells are the same.
LEMMA SegmentsAdded ==
  ASSUME NEW data \in Seq(Seq(Elements)), NEW n \in Nat
  PROVE  LET d == data \o Empty(n)
         IN  /\ d \in Seq(Seq(Elements))
             /\ Len(d) = Len(data) + n
             /\ \A b \in Relocatables : Cell(d, b) = Cell(data, b)
             /\ AddressesIn(d) \subseteq Relocatables
<1> DEFINE empty == Empty(n)
           d     == data \o empty
<1>1. empty \in Seq(Seq(Elements)) /\ Len(empty) = n
  <2>1. empty \in [1..n -> Seq(Elements)]
    BY EmptySeq DEF Empty
  <2> QED
    BY <2>1, SeqDef, LenProperties
<1>2. \A i \in 1..n : empty[i] = << >>
  BY DEF Empty
<1> HIDE DEF empty
<1>3. /\ d \in Seq(Seq(Elements)) /\ Len(d) = Len(data) + n
      /\ \A i \in 1..Len(d) : d[i] = IF i <= Len(data) THEN data[i] ELSE empty[i - Len(data)]
  BY <1>1, ConcatProperties
<1> HIDE DEF d
<1>4. ASSUME NEW b \in Relocatables
      PROVE  Cell(d, b) = Cell(data, b)
  <2>1. b.seg \in Nat /\ b.off \in Nat /\ Len(data) \in Nat
    BY RelocatableFields, LenProperties
  <2> DEFINE i == b.seg + 1
  <2>2. CASE b.seg < Len(data)
    <3>1. i \in 1..Len(d) /\ i <= Len(data) /\ b.seg < Len(d)
      BY <1>3, <2>1, <2>2
    <3>2. d[i] = data[i]
      <4> HIDE DEF i
      <4> QED
        BY <1>3, <3>1
    <3> QED
      BY <2>2, <3>1, <3>2 DEF Cell
  <2>3. CASE ~(b.seg < Len(data)) /\ b.seg < Len(d)
    <3>1. i \in 1..Len(d) /\ i - Len(data) \in 1..n /\ ~(i <= Len(data))
      <4> DEFINE l == Len(data)
                 s == b.seg
      <4>1. l \in Nat /\ s \in Nat /\ ~(s < l) /\ s < l + n
        BY <1>3, <2>1, <2>3
      <4>2. Len(d) = l + n
        BY <1>3
      <4> HIDE DEF l, s
      <4>3. s + 1 \in 1..(l + n) /\ (s + 1) - l \in 1..n /\ ~(s + 1 <= l)
        BY <4>1
      <4> QED
        BY <4>2, <4>3 DEF l, s
    <3>2. d[i] = << >>
      <4> HIDE DEF i
      <4>1. d[i] = empty[i - Len(data)]
        BY <1>3, <3>1
      <4> QED
        BY <1>2, <3>1, <4>1
    <3>3. ~(b.off < Len(<< >>))
      BY <2>1, EmptySeq
    <3> QED
      BY <2>3, <3>2, <3>3 DEF Cell
  <2>4. CASE ~(b.seg < Len(data)) /\ ~(b.seg < Len(d))
    BY <2>4 DEF Cell
  <2> QED
    BY <2>2, <2>3, <2>4
<1> QED
  BY <1>3, <1>4, AddressesInside DEF d, empty

\* Segments are added: the memory of a machine stays one.
LEMMA WithSegmentsStep ==
  ASSUME NEW v, VmSound(v), NEW n \in Nat
  PROVE  LET w == WithSegments(v, n)
         IN  /\ VmSound(w)
             /\ w.num_segments = v.num_segments + n
             /\ Extends(v.memory, w.memory)
             /\ \A b \in Relocatables : Cell(w.memory.data, b) = Cell(v.memory.data, b)
             /\ w.memory.validation_rules = v.memory.validation_rules
             /\ w.memory.validated_addresses = v.memory.validated_addresses
             /\ w.pc = v.pc /\ w.ap = v.ap /\ w.fp = v.fp
             /\ w.segment_used_sizes = v.segment_used_sizes
             /\ w.builtin_runners = v.builtin_runners
             /\ w.verified_addresses = v.verified_addresses /\ w.hints = v.hints
             /\ w.trace = v.trace /\ w.current_step = v.current_step
<1> DEFINE d == v.memory.data \o Empty(n)
           k == v.num_segments + n
           m == [v.memory EXCEPT !.data = d]
           w == WithSegments(v, n)
<1>1. v \in Machines /\ MachineMemory(v.memory, v.num_segments)
      /\ v.memory.data \in Seq(Seq(Elements)) /\ v.num_segments \in Nat
  BY SegmentsCounted DEF VmSound, MachineMemory, Machines
<1>2. /\ d \in Seq(Seq(Elements)) /\ Len(d) = k /\ k \in Nat
      /\ \A b \in Relocatables : Cell(d, b) = Cell(v.memory.data, b)
      /\ AddressesIn(d) \subseteq Relocatables
  <2>1. Len(v.memory.data) = v.num_segments /\ k \in Nat
    BY <1>1 DEF MachineMemory
  <2> HIDE DEF k
  <2>2. /\ d \in Seq(Seq(Elements)) /\ Len(d) = Len(v.memory.data) + n
        /\ \A b \in Relocatables : Cell(d, b) = Cell(v.memory.data, b)
        /\ AddressesIn(d) \subseteq Relocatables
    BY <1>1, SegmentsAdded
  <2> QED
    BY <2>1, <2>2 DEF k
<1>3. w = [v EXCEPT !.num_segments = k, !.memory.data = d]
  BY DEF WithSegments, Empty
<1> HIDE DEF d, k, m, w
<1>4. v.memory \in Memories(Relocatables) /\ MemoryInv(v.memory, Relocatables)
  BY <1>1 DEF MachineMemory, MemoryInv
<1>5. m \in Memories(Relocatables) /\ m.data = d
      /\ m.validated_addresses = v.memory.validated_addresses
      /\ m.validation_rules = v.memory.validation_rules
  BY <1>2, <1>4 DEF Memories, m
<1>6. w = [v EXCEPT !.num_segments = k, !.memory = m]
  BY <1>1, <1>3 DEF m, Machines
<1>7. w \in Machines
  BY <1>1, <1>2, <1>5, <1>6 DEF Machines
<1>8. /\ w.memory = m /\ w.num_segments = k
      /\ w.pc = v.pc /\ w.ap = v.ap /\ w.fp = v.fp
      /\ w.segment_used_sizes = v.segment_used_sizes
      /\ w.builtin_runners = v.builtin_runners
      /\ w.verified_addresses = v.verified_addresses /\ w.hints = v.hints
      /\ w.trace = v.trace /\ w.current_step = v.current_step
  BY <1>1, <1>6 DEF Machines
<1>9. \A a \in m.validated_addresses : a \in Relocatables /\ Cell(d, a) = Cell(v.memory.data, a)
  BY <1>2, <1>4, <1>5 DEF Memories
<1>10. MemoryInv(m, Relocatables)
  BY <1>2, <1>4, <1>5, <1>9 DEF MemoryInv
<1>11. v.num_segments <= k
  BY <1>1, <1>2 DEF k
<1>12. Known(v.num_segments) \subseteq Known(k)
  BY <1>1, <1>2, <1>11, KnownGrows
<1>13. CellsKnown(m.data, k)
  BY <1>1, <1>2, <1>5, <1>12 DEF MachineMemory, CellsKnown, Maybe
<1>14. MachineMemory(m, k)
  BY <1>2, <1>5, <1>10, <1>13 DEF MachineMemory
<1>15. Extends(v.memory, m)
  BY <1>1, <1>2, <1>5, <1>11 DEF Extends, MachineMemory
<1>16. v.current_step <= MaxSteps
  BY DEF VmSound
<1>17. ASSUME w.num_segments > 0
       PROVE  MachineInv(w)
  <2>1. CASE v.num_segments > 0
    <3>1. MachineInv(v)
      BY <2>1 DEF VmSound
    <3> QED
      BY <3>1, <1>7, <1>8, <1>12, <1>14 DEF MachineInv
  <2>2. CASE ~(v.num_segments > 0)
    <3>1. \A a \in {v.pc, v.ap, v.fp} : a = RelocatableValue(0, 0)
      BY <2>2 DEF VmSound
    <3>2. RelocatableValue(0, 0) \in Known(k)
      BY <1>2, <1>8, <1>17, KnownMade
    <3> QED
      BY <3>1, <3>2, <1>7, <1>8, <1>14 DEF MachineInv
  <2> QED
    BY <2>1, <2>2
<1>18. ASSUME ~(w.num_segments > 0)
       PROVE  \A a \in {w.pc, w.ap, w.fp} : a = RelocatableValue(0, 0)
  <2>1. ~(v.num_segments > 0)
    BY <1>1, <1>2, <1>8, <1>11, <1>18
  <2> QED
    BY <2>1, <1>8 DEF VmSound
<1> QED
  BY <1>2, <1>5, <1>7, <1>8, <1>14, <1>15, <1>16, <1>17, <1>18 DEF VmSound, w, k

\* A vm as it is made.
LEMMA NewVmStep ==
  ASSUME NEW names \in Seq(STRING), NEW traced \in BOOLEAN
  PROVE  LET v == NewVm(names, traced)
         IN  /\ VmSound(v) /\ Blank(v)
             /\ v.segment_used_sizes = None /\ v.memory = EmptyMemory
             /\ Len(v.builtin_runners) = Len(names)
             /\ \A i \in 1..Len(names) : v.builtin_runners[i].name = names[i]
<1> DEFINE runners == [i \in 1..Len(names) |-> [name |-> names[i], base |-> None]]
           trace   == IF traced THEN << >> ELSE None
           v       == NewVm(names, traced)
           zero    == RelocatableValue(0, 0)
<1>1. Len(names) \in Nat /\ \A i \in 1..Len(names) : names[i] \in STRING
  BY LenProperties, ElementOfSeq
<1>2. runners \in Runners
  <2>1. runners \in [1..Len(names) -> [name : STRING, base : Maybe(Relocatables)]]
    BY <1>1 DEF Maybe
  <2> QED
    BY <1>1, <2>1, SeqDef DEF Runners
<1>3. Len(runners) = Len(names) /\ \A i \in 1..Len(names) :
        runners[i].name = names[i] /\ runners[i].base = None
  BY <1>1
<1>4. trace \in Maybe(Seq(TraceEntries))
  BY EmptySeq DEF Maybe
<1>5. zero \in Relocatables /\ zero \in Values
  BY DEF Relocatables, RelocatableValue, Values
<1>6. << >> \in Seq(Seq(Elements)) /\ Len(<< >>) = 0
  BY EmptySeq
<1>7. AddressesIn(<< >>) \in SUBSET Relocatables
  BY <1>6, AddressesInside
<1>8. \A b \in Relocatables : Cell(<< >>, b) = None
  <2> SUFFICES ASSUME NEW b \in Relocatables PROVE Cell(<< >>, b) = None
    OBVIOUS
  <2>1. ~(b.seg < Len(<< >>))
    BY <1>6, RelocatableFields
  <2> QED
    BY <2>1 DEF Cell
<1>9. /\ v.pc = zero /\ v.ap = zero /\ v.fp = zero /\ v.memory = EmptyMemory
      /\ v.num_segments = 0 /\ v.segment_used_sizes = None /\ v.builtin_runners = runners
      /\ v.verified_addresses = {} /\ v.hints = << >> /\ v.trace = trace
      /\ v.current_step = 0
  BY DEF NewVm
<1>10. MachineMemory(EmptyMemory, 0)
  <2>1. EmptyMemory.data = << >> /\ EmptyMemory.validated_addresses = {}
    BY DEF EmptyMemory
  <2>2. EmptyMemory \in Memories(Relocatables)
    BY <1>6 DEF EmptyMemory, Memories
  <2>3. MemoryInv(EmptyMemory, Relocatables)
    BY <1>7, <2>1, <2>2 DEF MemoryInv
  <2>4. CellsKnown(<< >>, 0)
    BY <1>8 DEF CellsKnown, Maybe
  <2> QED
    BY <1>6, <2>1, <2>3, <2>4 DEF MachineMemory
<1>11. << >> \in HintTables
  <2>1. << >> \in [{} -> Seq(STRING)]
    OBVIOUS
  <2> QED
    BY <2>1 DEF HintTables
<1> HIDE DEF runners, trace, zero
<1>12. v = [pc |-> zero, ap |-> zero, fp |-> zero, memory |-> EmptyMemory,
            num_segments |-> 0, segment_used_sizes |-> None, builtin_runners |-> runners,
            verified_addresses |-> {}, hints |-> << >>, trace |-> trace, current_step |-> 0]
  BY DEF NewVm, runners, trace, zero
<1> HIDE DEF v
<1>13. v \in Machines
  <2>1. EmptyMemory \in Memories(Relocatables)
    BY <1>10 DEF MachineMemory, MemoryInv
  <2> QED
    BY <1>2, <1>4, <1>5, <1>11, <1>12, <2>1 DEF Machines, Maybe
<1>14. VmSound(v)
  BY <1>9, <1>10, <1>13, RunAssumption DEF VmSound, zero
<1>15. Blank(v)
  BY <1>3, <1>9 DEF Blank, EmptyMemory, zero
<1> QED
  BY <1>3, <1>9, <1>14, <1>15 DEF v

\* The builtins that get a runner; the output, if it is the first that the
\* program names, is the first of them.
LEMMA WithRunnerStep ==
  ASSUME NEW builtins \in Seq(STRING)
  PROVE  /\ WithRunner(builtins) \in Seq(STRING)
         /\ Len(WithRunner(builtins)) <= Len(builtins)
         /\ Len(builtins) > 0 /\ builtins[1] = "output" =>
              Len(WithRunner(builtins)) > 0 /\ WithRunner(builtins)[1] = "output"
<1> DEFINE N       == Len(builtins)
           first   == << >>
           F(n, s) == IF HasRunner(builtins[n]) THEN Append(s, builtins[n]) ELSE s
           E(f)    == [n \in 0..N |-> IF n = 0 THEN first ELSE F(n, f[n - 1])]
           after   == CHOOSE f : f = E(f)
           S       == Seq(STRING)
           step    == [n \in 1..N |-> [s \in S |-> F(n, s)]]
<1>1. WithRunner(builtins) = after[N]
  BY DEF WithRunner
<1>2. N \in Nat /\ first \in S /\ \A n \in 1..N : builtins[n] \in STRING
  BY LenProperties, ElementOfSeq, EmptySeq
<1>3. \A n \in 1..N : \A s \in S : F(n, s) \in S
  BY <1>2, AppendProperties
<1>4. HasRunner("output")
  BY DEF HasRunner
<1> HIDE DEF first, F, N, S
<1>5. step \in [1..N -> [S -> S]]
  BY <1>3
<1>6. \A n \in 1..N : \A s \in S : step[n][s] = F(n, s)
  OBVIOUS
<1> HIDE DEF step
<1>7. Recursions(N, S, first, step) # {}
  BY <1>2, <1>5, RecursionExists
<1>8. PICK f \in [0..N -> S] : f[0] = first /\ \A n \in 1..N : f[n] = step[n][f[n - 1]]
  BY <1>7 DEF Recursions
<1>9. f = E(f)
  <2>1. \A n \in 0..N : f[n] = IF n = 0 THEN first ELSE F(n, f[n - 1])
    BY <1>2, <1>6, <1>8
  <2> QED
    BY <2>1, <1>8
<1>10. after = E(after)
  BY <1>9
<1> HIDE DEF after
<1>11. after[0] = first /\ \A n \in 1..N : after[n] = F(n, after[n - 1])
  BY <1>2, <1>10
<1>12. \A n \in 0..N : after[n] \in S
  <2>1. \A n \in 1..N : after[n - 1] \in S => after[n] \in S
    BY <1>3, <1>11
  <2> QED
    BY <2>1, <1>2, <1>11, RecursionStays
<1>13. ASSUME N > 0, builtins[1] = "output"
       PROVE  Len(after[N]) > 0 /\ after[N][1] = "output"
  <2> DEFINE T == {s \in S : Len(s) > 0 /\ s[1] = "output"}
             M == N - 1
             g == [n \in 0..M |-> after[n + 1]]
  <2>1. M \in Nat
    BY <1>2, <1>13
  <2>2. g[0] \in T
    <3>1. after[1] = Append(first, "output")
      <4>1. 1 \in 1..N /\ 1 - 1 = 0
        BY <1>2, <1>13
      <4>2. after[1] = F(1, first)
        BY <1>11, <4>1
      <4> QED
        BY <1>4, <1>13, <4>2 DEF F
    <3>2. Append(first, "output") \in T
      <4>0. "output" \in STRING
        <5>1. 1 \in 1..N
          BY <1>2, <1>13
        <5> QED
          BY <1>2, <1>13, <5>1
      <4>1. first \in Seq(STRING) /\ Len(first) = 0
        BY EmptySeq DEF first
      <4>2. /\ Append(first, "output") \in Seq(STRING)
            /\ Len(Append(first, "output")) = Len(first) + 1
            /\ Append(first, "output")[Len(first) + 1] = "output"
        BY <4>0, <4>1, AppendProperties
      <4>3. Len(first) + 1 = 1
        BY <4>1
      <4> DEFINE r == Append(first, "output")
      <4>4. r \in Seq(STRING) /\ Len(r) > 0 /\ r[1] = "output"
        BY <4>1, <4>2, <4>3
      <4> HIDE DEF r
      <4>5. r \in T
        BY <4>4 DEF S
      <4> QED
        BY <4>5 DEF r
    <3>3. g[0] = after[1]
      BY <2>1
    <3> QED
      BY <3>1, <3>2, <3>3
  <2>3. ASSUME NEW n \in 1..M, g[n - 1] \in T
        PROVE  g[n] \in T
    <3>1. g[n] = after[n + 1] /\ g[n - 1] = after[n] /\ n + 1 \in 1..N
      <4>1. n \in 0..M /\ n - 1 \in 0..M /\ (n - 1) + 1 = n /\ n + 1 \in 1..N
        BY <1>2, <2>1
      <4>2. g[n] = after[n + 1] /\ g[n - 1] = after[(n - 1) + 1]
        BY <4>1
      <4> QED
        BY <4>1, <4>2
    <3>2. after[n + 1] = F(n + 1, after[n])
      BY <1>11, <3>1
    <3> DEFINE s == after[n]
               b == builtins[n + 1]
    <3>3. s \in S /\ Len(s) > 0 /\ s[1] = "output" /\ b \in STRING
      BY <2>3, <3>1, <1>2
    <3> HIDE DEF s, b
    <3>4. Append(s, b) \in T
      <4>1. s \in Seq(STRING) /\ Len(s) \in Nat /\ 1 \in 1..Len(s)
        BY <3>3, LenProperties DEF S
      <4>2. /\ Append(s, b) \in Seq(STRING) /\ Len(Append(s, b)) = Len(s) + 1
            /\ Append(s, b)[1] = s[1]
        BY <3>3, <4>1, AppendProperties
      <4> DEFINE r == Append(s, b)
      <4>3. r \in Seq(STRING) /\ Len(r) > 0 /\ r[1] = "output"
        BY <3>3, <4>1, <4>2
      <4> HIDE DEF r
      <4>4. r \in T
        BY <4>3 DEF S
      <4> QED
        BY <4>4 DEF r
    <3>5. g[n] = IF HasRunner(b) THEN Append(s, b) ELSE s
      BY <3>1, <3>2 DEF F, s, b
    <3> QED
      BY <3>3, <3>4, <3>5
  <2> HIDE DEF g, T
  <2>4. \A n \in 0..M : g[n] \in T
    BY <2>1, <2>2, <2>3, RecursionStays
  <2>5. g[M] \in T /\ g[M] = after[N]
    BY <2>1, <2>4, <1>2 DEF g
  <2> QED
    BY <2>5 DEF T
<1>14. after[N] \in S
  BY <1>2, <1>12
<1>15. Len(after[N]) <= N
  <2> DEFINE short(n) == Len(after[n]) <= n
             g == [n \in 0..N |-> IF short(n) THEN TRUE ELSE FALSE]
  <2>1. short(0)
    <3>1. Len(after[0]) = 0
      BY <1>11 DEF first
    <3> QED
      BY <3>1
  <2>2. ASSUME NEW n \in 1..N, short(n - 1)
        PROVE  short(n)
    <3> DEFINE s == after[n - 1]
               b == builtins[n]
               u == after[n]
    <3>1. n - 1 \in 0..N
      BY <1>2
    <3>2. s \in Seq(STRING) /\ b \in STRING
      BY <1>2, <1>12, <3>1 DEF S
    <3>3. u = s \/ u = Append(s, b)
      BY <1>11 DEF F
    <3>4. Len(s) <= n - 1
      BY <2>2
    <3> HIDE DEF s, b, u
    <3>5. Len(s) \in Nat /\ Len(Append(s, b)) = Len(s) + 1
      BY <3>2, LenProperties, AppendProperties
    <3>6. Len(u) <= n
      BY <1>2, <3>3, <3>4, <3>5
    <3> QED
      BY <3>6 DEF u
  <2> HIDE DEF short
  <2>3. g[0] \in {TRUE}
    BY <1>2, <2>1
  <2>4. ASSUME NEW n \in 1..N, g[n - 1] \in {TRUE}
        PROVE  g[n] \in {TRUE}
    <3>1. n - 1 \in 0..N /\ n \in 0..N
      BY <1>2
    <3>2. short(n - 1)
      BY <2>4, <3>1
    <3>3. short(n)
      BY <2>2, <3>2
    <3> QED
      BY <3>1, <3>3
  <2> HIDE DEF g
  <2>5. \A n \in 0..N : g[n] \in {TRUE}
    BY <1>2, <2>3, <2>4, RecursionStays
  <2>6. N \in 0..N
    BY <1>2
  <2>7. short(N)
    BY <2>5, <2>6 DEF g
  <2> QED
    BY <2>7 DEF short
<1> QED
  BY <1>1, <1>13, <1>14, <1>15 DEF S, N

-----------------------------------------------------------------------------
(* The set-up keeps the invariant.                                         *)

\* What is known of a program.
LEMMA ProgramKnown ==
  ASSUME NEW p \in Programs
  PROVE  /\ p.data \in Seq(Naturals) /\ p.main \in Maybe(Nat)
         /\ p.builtins \in Seq(STRING)
         /\ DOMAIN p.hints \subseteq Nat
         /\ \A off \in DOMAIN p.hints : p.hints[off] \in Seq(STRING)
  BY ProgramAssumption DEF Naturals, Maybe

\* The invariant holds at first.
LEMMA RunInvInit == Init => RunInv
<1> SUFFICES ASSUME Init PROVE RunInv
  OBVIOUS
<1>1. PICK traced \in TraceEnabled : vm = NewVm(<< >>, traced)
  BY DEF Init
<1>2. << >> \in Seq(STRING) /\ Len(<< >>) = 0 /\ traced \in BOOLEAN
  BY EmptySeq, RunAssumption
<1>3. /\ VmSound(vm) /\ Blank(vm) /\ vm.segment_used_sizes = None
      /\ Len(vm.builtin_runners) = 0
  BY <1>1, <1>2, NewVmStep
<1>4. vm.builtin_runners = << >>
  <2>1. vm.builtin_runners = [i \in 1..Len(<< >>) |-> [name |-> << >>[i], base |-> None]]
    BY <1>1 DEF NewVm
  <2> QED
    BY <1>2, <1>3, <2>1
<1>5. RunTypes
  <2>1. runner \in RunnerStates
    BY EmptySeq DEF Init, RunnerStates, Maybe
  <2>2. output \in Seq(Int)
    BY EmptySeq DEF Init
  <2> QED
    BY <2>1, <2>2 DEF Init, RunTypes, Phases
<1>6. phase = "given" /\ runner.relocated_memory = << >>
  BY DEF Init
<1>7. DeductionsHold
  BY <1>6 DEF DeductionsHold
<1>8. PhaseInv
  BY <1>3, <1>4, <1>6, <1>7 DEF PhaseInv, Built, Running, Finished
<1> QED
  BY <1>3, <1>5, <1>8 DEF RunInv

\* A call that fails keeps it, whatever it leaves behind.
LEMMA RunInvFails ==
  ASSUME RunInv, phase' = "failed", error' # "ok", program' = program,
         runner' \in RunnerStates, output' \in Seq(Int), VmSound(vm')
  PROVE  RunInv'
<1>1. RunTypes'
  BY DEF RunInv, RunTypes, Phases
<1>2. DeductionsHold'
  BY DEF DeductionsHold
<1>3. PhaseInv'
  BY <1>2 DEF PhaseInv, Built, Running, Finished
<1> QED
  BY <1>1, <1>3 DEF RunInv

\* new.
LEMMA RunInvNew == RunInv /\ New => RunInv'
<1> SUFFICES ASSUME RunInv, New PROVE RunInv'
  OBVIOUS
<1> DEFINE names == WithRunner(program.builtins)
<1>1. program \in Programs /\ program' = program /\ runner' = runner /\ output' = output
      /\ runner \in RunnerStates /\ output \in Seq(Int) /\ phase = "given"
      /\ phase' = (IF NewError(program.builtins) = "ok" THEN "new" ELSE "failed")
      /\ error' = NewError(program.builtins)
      /\ vm' = NewVm(names, vm.trace # None)
  BY DEF RunInv, RunTypes, New, Call
<1>2. names \in Seq(STRING) /\ (vm.trace # None) \in BOOLEAN
  BY <1>1, ProgramKnown, WithRunnerStep
<1> HIDE DEF names
<1>3. /\ VmSound(vm') /\ Blank(vm') /\ vm'.segment_used_sizes = None
      /\ Len(vm'.builtin_runners) = Len(names)
      /\ \A i \in 1..Len(names) : vm'.builtin_runners[i].name = names[i]
  BY <1>1, <1>2, NewVmStep
<1>4. CASE NewError(program.builtins) # "ok"
  BY <1>1, <1>3, <1>4, RunInvFails
<1>5. CASE NewError(program.builtins) = "ok"
  <2>1. phase' = "new" /\ error' = "ok"
    BY <1>1, <1>5
  <2>2. RunTypes'
    BY <1>1, <2>1 DEF RunTypes, Phases
  <2>3. DeductionsHold'
    BY <2>1 DEF DeductionsHold
  <2>4. NamesKept(vm', program'.builtins)
    BY <1>1, <1>3, <1>5 DEF NamesKept, names
  <2>5. runner.relocated_memory = << >>
    BY <1>1 DEF RunInv, PhaseInv
  <2>6. PhaseInv'
    BY <1>1, <1>3, <2>1, <2>3, <2>4, <2>5 DEF PhaseInv, Built, Running, Finished
  <2> QED
    BY <1>3, <2>2, <2>6 DEF RunInv
<1> QED
  BY <1>4, <1>5

\* A vm with other runners.
LEMMA WithRunnersStep ==
  ASSUME NEW v, VmSound(v), NEW runners \in Runners,
         NEW w, w = [v EXCEPT !.builtin_runners = runners]
  PROVE  /\ VmSound(w) /\ w.builtin_runners = runners
         /\ w.memory = v.memory /\ w.num_segments = v.num_segments
         /\ w.segment_used_sizes = v.segment_used_sizes
         /\ w.verified_addresses = v.verified_addresses /\ w.hints = v.hints
         /\ w.current_step = v.current_step
<1>1. v \in Machines
  BY DEF VmSound
<1>2. w \in Machines
  BY <1>1 DEF Machines
<1>3. /\ w.builtin_runners = runners
      /\ w.memory = v.memory /\ w.num_segments = v.num_segments
      /\ w.segment_used_sizes = v.segment_used_sizes
      /\ w.verified_addresses = v.verified_addresses /\ w.hints = v.hints
      /\ w.current_step = v.current_step
      /\ w.pc = v.pc /\ w.ap = v.ap /\ w.fp = v.fp
  BY <1>1 DEF Machines
<1>4. VmSound(w)
  BY <1>2, <1>3 DEF VmSound, MachineInv
<1> QED
  BY <1>3, <1>4

\* The builtins' segments: one each, after the program's and the execution's.
LEMMA BasesGiven ==
  ASSUME NEW runners \in Runners,
         NEW r, r = [i \in 1..Len(runners) |->
                       [runners[i] EXCEPT !.base = RelocatableValue(i + 1, 0)]]
  PROVE  /\ r \in Runners /\ Len(r) = Len(runners)
         /\ \A i \in 1..Len(r) : /\ r[i].name = runners[i].name
                                 /\ r[i].base \in Relocatables /\ r[i].base.seg = i + 1
<1> DEFINE N == Len(runners)
           R == [name : STRING, base : Maybe(Relocatables)]
<1>1. N \in Nat /\ \A i \in 1..N : runners[i] \in R
  BY LenProperties, ElementOfSeq DEF Runners
<1>2. ASSUME NEW i \in 1..N
      PROVE  /\ r[i] \in R /\ r[i].name = runners[i].name
             /\ r[i].base \in Relocatables /\ r[i].base.seg = i + 1
  <2> DEFINE b == RelocatableValue(i + 1, 0)
             x == runners[i]
  <2>1. b \in Relocatables /\ b.seg = i + 1
    BY <1>1 DEF Relocatables, RelocatableValue
  <2>2. r[i] = [x EXCEPT !.base = b]
    OBVIOUS
  <2>3. x \in R
    BY <1>1
  <2> HIDE DEF b, x
  <2>4. r[i] \in R /\ r[i].name = x.name /\ r[i].base = b
    BY <2>1, <2>2, <2>3 DEF Maybe
  <2> QED
    BY <2>1, <2>4 DEF x
<1> HIDE DEF R
<1>3. r \in [1..N -> R]
  BY <1>2
<1>4. r \in Seq(R) /\ Len(r) = N
  BY <1>1, <1>3, SeqDef, LenProperties
<1> QED
  BY <1>2, <1>4 DEF Runners, R

\* initialize_segments.
LEMMA RunInvSegments == RunInv /\ InitializeSegments => RunInv'
<1> SUFFICES ASSUME RunInv, InitializeSegments PROVE RunInv'
  OBVIOUS
<1> DEFINE runners == vm.builtin_runners
           N  == Len(runners)
           v1 == WithSegments(vm, 2 + N)
           r  == [i \in 1..N |-> [runners[i] EXCEPT !.base = RelocatableValue(i + 1, 0)]]
           p0 == RelocatableValue(0, 0)
           p1 == RelocatableValue(1, 0)
<1>1. /\ program \in Programs /\ program' = program /\ output' = output
      /\ runner \in RunnerStates /\ output \in Seq(Int) /\ phase = "new"
      /\ phase' = "segments" /\ error' = "ok"
  BY DEF RunInv, RunTypes, InitializeSegments, Call
<1>2. VmSound(vm) /\ Blank(vm) /\ NamesKept(vm, program.builtins)
      /\ runner.relocated_memory = << >>
      /\ (~EarlyOutput => vm.segment_used_sizes = None)
  BY <1>1 DEF RunInv, PhaseInv
<1>3. runners \in Runners /\ N \in Nat
  BY <1>2, LenProperties DEF VmSound, Machines, Runners
<1>4. /\ VmSound(v1) /\ v1.num_segments = vm.num_segments + (2 + N)
      /\ v1.builtin_runners = runners /\ v1.segment_used_sizes = vm.segment_used_sizes
      /\ v1.verified_addresses = vm.verified_addresses /\ v1.hints = vm.hints
      /\ v1.current_step = vm.current_step
  BY <1>2, <1>3, WithSegmentsStep
<1>5. /\ r \in Runners /\ Len(r) = N
      /\ \A i \in 1..Len(r) : /\ r[i].name = runners[i].name
                              /\ r[i].base \in Relocatables /\ r[i].base.seg = i + 1
  BY <1>3, BasesGiven
<1>6. vm.num_segments = 0
  BY <1>2 DEF Blank
<1>7. runner' = [runner EXCEPT !.program_base = p0, !.execution_base = p1]
  BY <1>6 DEF InitializeSegments
<1> HIDE DEF v1, p0, p1
<1>8. vm' = [v1 EXCEPT !.builtin_runners = r]
  <2>1. vm' = [v1 EXCEPT !.builtin_runners =
                 [i \in 1..Len(@) |->
                    [@[i] EXCEPT !.base = RelocatableValue(vm.num_segments + (i + 1), 0)]]]
    BY DEF InitializeSegments, v1
  <2>2. vm' = [v1 EXCEPT !.builtin_runners =
                 [i \in 1..N |->
                    [runners[i] EXCEPT !.base = RelocatableValue(vm.num_segments + (i + 1), 0)]]]
    BY <1>4, <2>1
  <2>3. \A i \in 1..N : vm.num_segments + (i + 1) = i + 1
    BY <1>3, <1>6
  <2> QED
    BY <2>2, <2>3
<1> HIDE DEF r
<1>9. /\ VmSound(vm') /\ vm'.builtin_runners = r
      /\ vm'.num_segments = v1.num_segments
      /\ vm'.segment_used_sizes = vm.segment_used_sizes
      /\ vm'.verified_addresses = vm.verified_addresses /\ vm'.hints = vm.hints
      /\ vm'.current_step = vm.current_step
  BY <1>4, <1>5, <1>8, WithRunnersStep
<1>10. vm'.num_segments = N + 2
  BY <1>3, <1>4, <1>6, <1>9
<1>11. BasesKnown(vm')
  BY <1>3, <1>5, <1>9, <1>10 DEF BasesKnown
<1>12. NamesKept(vm', program.builtins)
  BY <1>2, <1>5, <1>9 DEF NamesKept
<1>13. p0 \in Relocatables /\ p1 \in Relocatables /\ p0 # None /\ p1 # None
       /\ p0.seg = 0 /\ p1.seg = 1
  BY NoneAssumption DEF p0, p1, RelocatableValue, Relocatables, Values
<1>14. runner' \in RunnerStates /\ runner'.program_base = p0 /\ runner'.execution_base = p1
       /\ runner'.relocated_memory = << >>
  BY <1>1, <1>2, <1>7, <1>13 DEF RunnerStates, Maybe
<1>15. RunTypes'
  BY <1>1, <1>14 DEF RunTypes, Phases
<1>16. DeductionsHold'
  BY <1>1 DEF DeductionsHold
<1>17. vm'.verified_addresses = {} /\ vm'.current_step = 0 /\ vm'.hints = << >>
  BY <1>2, <1>9 DEF Blank
<1>18. 0 < vm'.num_segments /\ 1 < vm'.num_segments
  BY <1>3, <1>10
<1>19. PhaseInv'
  BY <1>1, <1>2, <1>9, <1>11, <1>12, <1>13, <1>14, <1>16, <1>17, <1>18
     DEF PhaseInv, Built, Running, Finished
<1> QED
  BY <1>9, <1>15, <1>19 DEF RunInv

-----------------------------------------------------------------------------
(* Loading.                                                                *)

\* load_data changes no cell but those of its values, which hold them if it
\* succeeds.
LEMMA LoadCells ==
  ASSUME NEW m, MemoryInv(m, Relocatables), NEW ptr \in Relocatables, NEW vals \in Seq(Values)
  PROVE  LET r == LoadData(m, ptr, vals)
         IN  /\ \A b \in Relocatables :
                  \/ Cell(r.memory.data, b) = Cell(m.data, b)
                  \/ \E i \in 1..Len(vals) : Cell(r.memory.data, b) = vals[i]
             /\ r.err = "ok" =>
                  \A i \in 1..Len(vals) :
                    Cell(r.memory.data, RelocatableValue(ptr.seg, ptr.off + i - 1)) = vals[i]
<1> DEFINE at(i)      == [ptr EXCEPT !.off = @ + i - 1]
           loadErr(i) == LoadError(m, ptr, vals, i)
           fails == {i \in 1..Len(vals) : loadErr(i) # "ok"}
           first == CHOOSE i \in fails : \A j \in fails : i <= j
           err   == IF fails = {} THEN "ok" ELSE loadErr(first)
           refused == {"UnallocatedSegment", "InconsistentMemory"}
           count == IF fails = {} THEN Len(vals)
                    ELSE IF err \in refused THEN first - 1 ELSE first
           V     == {a \in {at(i) : i \in {j \in 1..Len(vals) : fails = {} \/ j < first}} :
                       a.seg \in m.validation_rules}
           new   == SubSeq(vals, 1, count)
           r     == LoadData(m, ptr, vals)
<1>1. /\ m \in Memories(Relocatables) /\ m.data \in Seq(Seq(Elements)) /\ Len(vals) \in Nat
      /\ \A i \in 1..Len(vals) : vals[i] \in Values
  BY LenProperties, ElementOfSeq DEF MemoryInv, Memories
<1>2. ptr.seg \in Nat /\ ptr.off \in Nat /\ ptr = RelocatableValue(ptr.seg, ptr.off) /\ IsRel(ptr)
  BY RelocatableFields
<1>3. CASE vals = << >>
  <2>1. r.memory = m /\ Len(vals) = 0
    BY <1>3, EmptySeq DEF LoadData
  <2>2. \A i \in 1..Len(vals) : FALSE
    BY <2>1
  <2> HIDE DEF r
  <2>3. /\ \A b \in Relocatables : Cell(r.memory.data, b) = Cell(m.data, b)
        /\ \A i \in 1..Len(vals) :
             Cell(r.memory.data, RelocatableValue(ptr.seg, ptr.off + i - 1)) = vals[i]
    BY <2>1, <2>2
  <2> QED
    BY <2>3 DEF r
<1>4. CASE vals # << >>
  <2>1. r = Loaded(m, ptr, vals) /\ Len(vals) > 0
    BY <1>1, <1>2, <1>4, EmptySeq DEF LoadData
  <2>2. r.memory = (IF count = 0 THEN m
                    ELSE [m EXCEPT !.data = StoredAt(@, ptr, new),
                                   !.validated_addresses = @ \union V])
        /\ r.err = err
    BY <2>1 DEF Loaded
  <2>3. fails # {} => first \in fails /\ \A j \in fails : first <= j
    <3>1. fails \in SUBSET Nat
      OBVIOUS
    <3> HIDE DEF fails
    <3> QED
      BY <3>1, HasMinimum
  <2>4. ASSUME NEW i \in 1..Len(vals), loadErr(i) \notin refused
        PROVE  ptr.seg < Len(m.data)
    <3>1. ptr.off + i - 1 \in Nat
      BY <1>1, <1>2
    <3>2. at(i) = RelocatableValue(ptr.seg, ptr.off + i - 1)
      BY <1>2 DEF RelocatableValue
    <3>3. at(i) \in Relocatables /\ at(i).seg = ptr.seg
      BY <1>2, <3>1, <3>2 DEF RelocatableValue, Relocatables
    <3> HIDE DEF at
    <3>4. loadErr(i) = Insert(m, at(i), vals[i]).err
      BY DEF LoadError, at
    <3> QED
      BY <1>1, <2>4, <3>3, <3>4, AllWithin, InsertResult
  <2>5. fails # {} => first \in 1..Len(vals) /\ err = loadErr(first) /\ err # "ok"
    BY <2>3
  <2>6. fails = {} => err = "ok" /\ \A i \in 1..Len(vals) : loadErr(i) = "ok"
    OBVIOUS
  <2>7. ASSUME NEW j \in 1..Len(vals), fails # {}, j < first
        PROVE  loadErr(j) = "ok"
    <3>1. loadErr(j) # "ok" => j \in fails
      OBVIOUS
    <3>2. first \in Nat /\ j \in Nat
      BY <1>1, <2>5, <2>7
    <3> HIDE DEF fails, loadErr, first
    <3>3. j \notin fails
      BY <2>3, <2>7, <3>2
    <3> QED
      BY <3>1, <3>3
  <2> HIDE DEF r, first, V, loadErr
  <2>8. count # 0 => count \in 1..Len(vals) /\ ptr.seg < Len(m.data)
    <3>1. CASE fails = {}
      <4>1. 1 \in 1..Len(vals) /\ loadErr(1) \notin refused
        BY <1>1, <2>1, <2>6, <3>1
      <4> QED
        BY <1>1, <2>1, <2>4, <3>1, <4>1
    <3>2. CASE fails # {} /\ err \in refused
      <4>1. count = first - 1
        BY <3>2
      <4>2. count # 0 => 1 \in 1..Len(vals) /\ 1 < first
        BY <1>1, <2>1, <2>5, <3>2, <4>1
      <4>3. count # 0 => loadErr(1) \notin refused
        BY <2>7, <3>2, <4>2
      <4>4. count # 0 => ptr.seg < Len(m.data)
        BY <2>4, <4>2, <4>3
      <4> QED
        BY <1>1, <2>5, <3>2, <4>1, <4>4
    <3>3. CASE fails # {} /\ err \notin refused
      <4>1. count = first
        BY <3>3
      <4> QED
        BY <2>4, <2>5, <3>3, <4>1
    <3> QED
      BY <3>1, <3>2, <3>3
  <2>9. err = "ok" => count = Len(vals) /\ count # 0
    BY <2>1, <2>5, <1>1
  <2> HIDE DEF fails, err, count
  <2>10. CASE count = 0
    <3>1. r.memory = m /\ r.err # "ok"
      BY <2>2, <2>9, <2>10
    <3>2. /\ \A b \in Relocatables : Cell(r.memory.data, b) = Cell(m.data, b)
          /\ r.err = "ok" =>
               \A i \in 1..Len(vals) :
                 Cell(r.memory.data, RelocatableValue(ptr.seg, ptr.off + i - 1)) = vals[i]
      BY <3>1
    <3> QED
      BY <3>2 DEF r
  <2>11. CASE count # 0
    <3>1. count \in 1..Len(vals) /\ ptr.seg < Len(m.data)
      BY <2>8, <2>11
    <3>2. new \in Seq(Values) /\ Len(new) = count /\ \A i \in 1..count : new[i] = vals[i]
      <4>1. \A i \in 1..count : vals[i] \in Values
        BY <1>1, <3>1
      <4> QED
        BY <1>1, <3>1, <4>1, SubSeqProperties
    <3> HIDE DEF new
    <3>3. r.memory.data = StoredAt(m.data, ptr, new)
      BY <1>1, <2>2, <2>11 DEF Memories
    <3>4. \A b \in Relocatables :
            Cell(r.memory.data, b) = IF b.seg = ptr.seg /\ b.off >= ptr.off
                                          /\ b.off < ptr.off + Len(new)
                                     THEN new[b.off - ptr.off + 1] ELSE Cell(m.data, b)
      BY <1>1, <3>1, <3>2, <3>3, StoredAtProperties
    <3>5. ASSUME NEW b \in Relocatables
          PROVE  \/ Cell(r.memory.data, b) = Cell(m.data, b)
                 \/ \E i \in 1..Len(vals) : Cell(r.memory.data, b) = vals[i]
      <4>1. CASE b.seg = ptr.seg /\ b.off >= ptr.off /\ b.off < ptr.off + Len(new)
        <5> DEFINE i == b.off - ptr.off + 1
        <5>1. b.off \in Nat
          BY RelocatableFields
        <5>2. i \in 1..count /\ i \in 1..Len(vals)
          BY <1>1, <1>2, <3>1, <3>2, <4>1, <5>1
        <5>3. Cell(r.memory.data, b) = new[i]
          BY <3>4, <4>1
        <5> HIDE DEF i
        <5> QED
          BY <3>2, <5>2, <5>3
      <4>2. CASE ~(b.seg = ptr.seg /\ b.off >= ptr.off /\ b.off < ptr.off + Len(new))
        BY <3>4, <4>2
      <4> QED
        BY <4>1, <4>2
    <3>6. ASSUME err = "ok", NEW i \in 1..Len(vals)
          PROVE  Cell(r.memory.data, RelocatableValue(ptr.seg, ptr.off + i - 1)) = vals[i]
      <4> DEFINE b == RelocatableValue(ptr.seg, ptr.off + i - 1)
      <4>1. b \in Relocatables /\ b.seg = ptr.seg /\ b.off = ptr.off + i - 1
        BY <1>1, <1>2 DEF RelocatableValue, Relocatables
      <4>2. i \in 1..count /\ Len(new) = Len(vals)
        BY <2>9, <3>2, <3>6
      <4>3. b.off >= ptr.off /\ b.off < ptr.off + Len(new) /\ b.off - ptr.off + 1 = i
        BY <1>1, <1>2, <4>1, <4>2
      <4> HIDE DEF b
      <4>4. Cell(r.memory.data, b) = new[b.off - ptr.off + 1]
        BY <3>4, <4>1, <4>3
      <4> QED
        BY <3>2, <4>2, <4>3, <4>4 DEF b
    <3> QED
      BY <2>2, <3>5, <3>6 DEF r
  <2> QED
    BY <2>10, <2>11 DEF r
<1> QED
  BY <1>3, <1>4

\* load_data at an address of values the machine knows.
LEMMA LoadKeeps ==
  ASSUME NEW n \in Nat, NEW m, MachineMemory(m, n), NEW vals \in Seq(Values),
         \A i \in 1..Len(vals) : vals[i] \in Known(n), NEW ptr \in Relocatables
  PROVE  LET r == LoadData(m, ptr, vals)
         IN  /\ MachineMemory(r.memory, n)
             /\ Extends(m, r.memory)
             /\ r.err = "ok" => NewAreValidated(m, r.memory)
<1> DEFINE r == LoadData(m, ptr, vals)
<1>1. MemoryInv(m, Relocatables) /\ Len(m.data) = n /\ CellsKnown(m.data, n)
  BY DEF MachineMemory
<1>2. IsRel(ptr) => ptr \in Relocatables /\ Within(ptr, Len(vals), Relocatables)
  BY AllWithin
<1>3. MemoryInv(r.memory, Relocatables) /\ Grows(m, r.memory)
  BY <1>1, <1>2, AllWithin, LoadStep
<1>4. \A b \in Relocatables :
        \/ Cell(r.memory.data, b) = Cell(m.data, b)
        \/ \E i \in 1..Len(vals) : Cell(r.memory.data, b) = vals[i]
  BY <1>1, LoadCells
<1>5. r.err = "ok" => r.err \notin ValidationErrors
  BY DEF ValidationErrors
<1>6. r.err = "ok" => NewAreValidated(m, r.memory)
  BY <1>1, <1>2, <1>5, AllWithin, LoadValidates
<1> HIDE DEF r
<1>7. CellsKnown(r.memory.data, n)
  BY <1>1, <1>4 DEF CellsKnown, Maybe
<1>8. Len(r.memory.data) = n
  BY <1>1, <1>3 DEF Grows
<1>9. MachineMemory(r.memory, n)
  BY <1>3, <1>7, <1>8 DEF MachineMemory
<1>10. Extends(m, r.memory)
  BY <1>1, <1>3, <1>8 DEF Extends, Grows
<1> QED
  BY <1>6, <1>9, <1>10 DEF r

\* The vm with another memory of as many segments.
LEMMA VmSoundLoaded ==
  ASSUME NEW v, VmSound(v), NEW m, MachineMemory(m, v.num_segments),
         NEW w, w = [v EXCEPT !.memory = m]
  PROVE  /\ VmSound(w) /\ w.memory = m
         /\ w.pc = v.pc /\ w.ap = v.ap /\ w.fp = v.fp
         /\ w.num_segments = v.num_segments
         /\ w.segment_used_sizes = v.segment_used_sizes
         /\ w.builtin_runners = v.builtin_runners
         /\ w.verified_addresses = v.verified_addresses
         /\ w.hints = v.hints /\ w.trace = v.trace
         /\ w.current_step = v.current_step
<1>1. v \in Machines /\ m \in Memories(Relocatables)
  BY DEF VmSound, MachineMemory, MemoryInv
<1>2. /\ w \in Machines /\ w.memory = m
      /\ w.pc = v.pc /\ w.ap = v.ap /\ w.fp = v.fp
      /\ w.num_segments = v.num_segments
      /\ w.segment_used_sizes = v.segment_used_sizes
      /\ w.builtin_runners = v.builtin_runners
      /\ w.verified_addresses = v.verified_addresses
      /\ w.hints = v.hints /\ w.trace = v.trace
      /\ w.current_step = v.current_step
  BY <1>1, WithMemory
<1>3. VmSound(w)
  BY <1>2 DEF VmSound, MachineInv
<1> QED
  BY <1>2, <1>3

\* What two loads one after the other leave.
Loads(v, w) ==
  /\ VmSound(w) /\ Extends(v.memory, w.memory)
  /\ w.pc = v.pc /\ w.ap = v.ap /\ w.fp = v.fp
  /\ w.num_segments = v.num_segments
  /\ w.segment_used_sizes = v.segment_used_sizes
  /\ w.builtin_runners = v.builtin_runners
  /\ w.verified_addresses = v.verified_addresses
  /\ w.hints = v.hints /\ w.trace = v.trace
  /\ w.current_step = v.current_step

\* The values are at base, in what r leaves of q.
LoadedAt(v, q, r, base, vals) ==
  /\ Loads(v, r.vm)
  /\ Extends(q.vm.memory, r.vm.memory)
  /\ r.err = "ok" =>
       /\ q.err = "ok"
       /\ \A i \in 1..Len(vals) :
            Cell(r.vm.memory.data, RelocatableValue(base.seg, base.off + i - 1)) = vals[i]

\* One of the loads.
LEMMA LoadIntoStep ==
  ASSUME NEW v, NEW q, VmSound(q.vm), Loads(v, q.vm), VmSound(v), NEW base \in Relocatables,
         NEW vals \in Seq(Values), \A i \in 1..Len(vals) : vals[i] \in Known(v.num_segments)
  PROVE  LoadedAt(v, q, LoadInto(q, base, vals), base, vals)
<1> DEFINE l == LoadData(q.vm.memory, base, vals)
           w == [q.vm EXCEPT !.memory = l.memory]
           r == LoadInto(q, base, vals)
           n == v.num_segments
<1>1. /\ q.vm.num_segments = n /\ n \in Nat /\ Extends(v.memory, q.vm.memory)
      /\ MachineMemory(q.vm.memory, n) /\ MachineMemory(v.memory, n)
  BY DEF Loads, VmSound, Machines
<1>2. MemoryInv(q.vm.memory, Relocatables) /\ MemoryInv(v.memory, Relocatables)
  BY <1>1 DEF MachineMemory
<1>3. /\ Len(v.memory.data) \in Nat /\ Len(q.vm.memory.data) \in Nat
  BY <1>2, SegmentsCounted
<1>4. CASE q.err # "ok"
  <2>1. r = q
    BY <1>4 DEF LoadInto
  <2> QED
    BY <2>1, <1>3, <1>4, ExtendsItself DEF LoadedAt
<1>5. CASE q.err = "ok"
  <2>1. r.vm = w /\ r.err = l.err
    BY <1>5 DEF LoadInto, Loading, Result
  <2> HIDE DEF n
  <2>2. MachineMemory(l.memory, n) /\ Extends(q.vm.memory, l.memory)
    BY <1>1, LoadKeeps DEF n
  <2>3. l.err = "ok" =>
          \A i \in 1..Len(vals) :
            Cell(l.memory.data, RelocatableValue(base.seg, base.off + i - 1)) = vals[i]
    BY <1>2, LoadCells
  <2> HIDE DEF l, r
  <2>4. /\ VmSound(w) /\ w.memory = l.memory
        /\ w.pc = q.vm.pc /\ w.ap = q.vm.ap /\ w.fp = q.vm.fp
        /\ w.num_segments = q.vm.num_segments
        /\ w.segment_used_sizes = q.vm.segment_used_sizes
        /\ w.builtin_runners = q.vm.builtin_runners
        /\ w.verified_addresses = q.vm.verified_addresses
        /\ w.hints = q.vm.hints /\ w.trace = q.vm.trace
        /\ w.current_step = q.vm.current_step
    BY <1>1, <2>2, VmSoundLoaded
  <2> HIDE DEF w
  <2>5. Len(l.memory.data) \in Nat
    BY <2>2, SegmentsCounted DEF MachineMemory
  <2>6. Extends(v.memory, l.memory)
    BY <1>1, <1>3, <2>2, <2>5, ExtendsTransitive
  <2>7. Loads(v, w)
    BY <2>4, <2>6 DEF Loads
  <2>8. LoadedAt(v, q, r, base, vals)
    BY <1>5, <2>1, <2>2, <2>3, <2>4, <2>7 DEF LoadedAt
  <2> QED
    BY <2>8 DEF r
<1> QED
  BY <1>4, <1>5

\* The segments of the builtins.
Bases(v) == [i \in 1..Len(v.builtin_runners) |-> v.builtin_runners[i].base]

\* The stack that main starts with.
LEMMA StackKnown ==
  ASSUME NEW v, VmSound(v), BasesKnown(v), NEW fp \in Relocatables, NEW end \in Relocatables, NEW n \in Nat,
         fp.seg < n, end.seg < n, v.num_segments <= n
  PROVE  LET stack == InitialStack(Bases(v), fp, end)
             N     == Len(v.builtin_runners)
         IN  /\ N \in Nat /\ stack \in Seq(Values) /\ Len(stack) = N + 2
             /\ \A i \in 1..Len(stack) : stack[i] \in Known(n)
             /\ stack[N + 1] = fp /\ stack[N + 2] = end
<1> DEFINE runners == v.builtin_runners
           N     == Len(runners)
           bases == Bases(v)
           top   == <<fp, end>>
           stack == bases \o top
<1>1. N \in Nat /\ v.num_segments \in Nat
  BY LenProperties DEF VmSound, Machines, Runners
<1>2. \A i \in 1..N : runners[i].base \in Relocatables /\ runners[i].base.seg < v.num_segments
  BY DEF BasesKnown
<1>3. InitialStack(bases, fp, end) = stack
  BY DEF InitialStack
<1> DEFINE Here == {a \in Relocatables : a.seg < n}
<1>4. \A i \in 1..N : bases[i] \in Here
  <2> SUFFICES ASSUME NEW i \in 1..N PROVE bases[i] \in Here
    OBVIOUS
  <2>1. bases[i] = runners[i].base
    BY DEF Bases
  <2> HIDE DEF runners
  <2>2. bases[i] \in Relocatables /\ bases[i].seg < v.num_segments /\ bases[i].seg \in Nat
    BY <1>2, <2>1, RelocatableFields
  <2> QED
    BY <1>1, <2>2
<1>5. bases \in Seq(Here) /\ Len(bases) = N
  <2>1. bases \in [1..N -> Here]
    BY <1>4 DEF Bases
  <2> QED
    BY <1>1, <2>1, SeqDef, LenProperties
<1>6. top \in Seq(Here) /\ Len(top) = 2 /\ top[1] = fp /\ top[2] = end
  <2>1. fp \in Here /\ end \in Here
    OBVIOUS
  <2> HIDE DEF Here
  <2> QED
    BY <2>1
<1>0. N + 1 \in 1..(N + 2) /\ ~(N + 1 <= N) /\ N + 1 - N = 1
      /\ N + 2 \in 1..(N + 2) /\ ~(N + 2 <= N) /\ N + 2 - N = 2
  <2> HIDE DEF N
  <2> QED
    BY <1>1
<1> HIDE DEF top, runners, N, Here, bases
<1>7. /\ stack \in Seq(Here) /\ Len(stack) = N + 2
      /\ \A i \in 1..(N + 2) : stack[i] = IF i <= N THEN bases[i] ELSE top[i - N]
  <2>1. /\ stack \in Seq(Here) /\ Len(stack) = Len(bases) + Len(top)
        /\ \A i \in 1..(Len(bases) + Len(top)) :
             stack[i] = IF i <= Len(bases) THEN bases[i] ELSE top[i - Len(bases)]
    BY <1>5, <1>6, ConcatProperties
  <2> HIDE DEF stack
  <2> QED
    BY <1>5, <1>6, <2>1
<1> HIDE DEF stack
<1>8. stack[N + 1] = fp /\ stack[N + 2] = end
  <2>1. ASSUME NEW j \in 1..(N + 2), NEW k, ~(j <= N), j - N = k
        PROVE  stack[j] = top[k]
    BY <1>7, <2>1
  <2>2. stack[N + 1] = top[1]
    <3> DEFINE j == N + 1
    <3>1. j \in 1..(N + 2) /\ ~(j <= N) /\ j - N = 1
      BY <1>0, <1>1
    <3> HIDE DEF j
    <3>2. stack[j] = top[1]
      BY <2>1, <3>1
    <3> QED
      BY <3>2 DEF j
  <2>3. stack[N + 2] = top[2]
    <3> DEFINE j == N + 2
    <3>1. j \in 1..(N + 2) /\ ~(j <= N) /\ j - N = 2
      BY <1>0, <1>1
    <3> HIDE DEF j
    <3>2. stack[j] = top[2]
      BY <2>1, <3>1
    <3> QED
      BY <3>2 DEF j
  <2> QED
    BY <1>6, <2>2, <2>3
<1>9. \A i \in 1..Len(stack) : stack[i] \in Here
  BY <1>7, ElementOfSeq
<1>10. Here \subseteq Known(n)
  BY DEF Known, Here
<1>11. Known(n) \subseteq Values
  BY KnownKinds
<1>12. stack \in Seq(Values)
  <2>1. Len(stack) \in Nat /\ stack \in [1..Len(stack) -> Here]
    BY <1>7, LenProperties
  <2>2. stack \in [1..Len(stack) -> Values]
    BY <1>10, <1>11, <2>1
  <2> QED
    BY <2>1, <2>2, SeqDef
<1> HIDE DEF Here
<1> QED
  BY <1>1, <1>3, <1>7, <1>8, <1>9, <1>10, <1>12 DEF N, runners, bases

\* The words of a program are values of any machine.
LEMMA WordsKnown ==
  ASSUME NEW data \in Seq(Naturals), NEW n
  PROVE  data \in Seq(Values) /\ \A i \in 1..Len(data) : data[i] \in Known(n)
<1>1. Len(data) \in Nat /\ data \in [1..Len(data) -> Naturals]
  BY LenProperties
<1>2. Naturals \subseteq Known(n) /\ Known(n) \subseteq Values
  BY KnownKinds DEF Known
<1>3. data \in [1..Len(data) -> Values]
  BY <1>1, <1>2
<1> QED
  BY <1>1, <1>2, <1>3, SeqDef

\* An address moved by a number of cells.
LEMMA AddressMoved ==
  ASSUME NEW a \in Relocatables, NEW k \in Nat
  PROVE  LET b == [a EXCEPT !.off = @ + k]
         IN  b \in Relocatables /\ b.seg = a.seg /\ b = RelocatableValue(a.seg, a.off + k)
  BY DEF Relocatables, RelocatableValue

\* What a program is loaded into: two more segments, and a pointer to each of
\* the program and the initial stack.
LEMMA LoadedProgram ==
  ASSUME NEW v, VmSound(v), BasesKnown(v), NEW data \in Seq(Naturals),
         NEW program_base \in Relocatables, NEW execution_base \in Relocatables,
         NEW stack,
         stack = InitialStack(Bases(v), RelocatableValue(v.num_segments, 0),
                              RelocatableValue(v.num_segments + 1, 0))
  PROVE  LET first == LoadInto(Result(WithSegments(v, 2), "ok"), program_base, data)
             r     == LoadInto(first, execution_base, stack)
             N     == Len(v.builtin_runners)
             n     == v.num_segments
         IN  /\ Loads(WithSegments(v, 2), r.vm)
             /\ N \in Nat /\ Len(stack) = N + 2
             /\ r.err = "ok" =>
                  /\ Cell(r.vm.memory.data,
                          RelocatableValue(execution_base.seg, execution_base.off + N))
                       = RelocatableValue(n, 0)
                  /\ Cell(r.vm.memory.data,
                          RelocatableValue(execution_base.seg, execution_base.off + N + 1))
                       = RelocatableValue(n + 1, 0)
<1> DEFINE v1    == WithSegments(v, 2)
           q     == Result(v1, "ok")
           first == LoadInto(q, program_base, data)
           r     == LoadInto(first, execution_base, stack)
           N     == Len(v.builtin_runners)
           n     == v.num_segments
           fp    == RelocatableValue(n, 0)
           end   == RelocatableValue(n + 1, 0)
<1>1. n \in Nat /\ n + 1 \in Nat /\ n + 2 \in Nat /\ 2 \in Nat
  BY DEF VmSound, Machines
<1>2. VmSound(v1) /\ v1.num_segments = n + 2
  BY <1>1, WithSegmentsStep
<1>3. fp \in Relocatables /\ end \in Relocatables /\ fp.seg = n /\ end.seg = n + 1
  BY <1>1 DEF RelocatableValue, Relocatables
<1>4. fp.seg < n + 2 /\ end.seg < n + 2 /\ v.num_segments <= n + 2
  BY <1>1, <1>3
<1>5. stack = InitialStack(Bases(v), fp, end)
  OBVIOUS
<1> HIDE DEF fp, end, n
<1>7. /\ N \in Nat /\ stack \in Seq(Values) /\ Len(stack) = N + 2
      /\ \A i \in 1..Len(stack) : stack[i] \in Known(n + 2)
      /\ stack[N + 1] = fp /\ stack[N + 2] = end
  BY <1>1, <1>3, <1>4, <1>5, StackKnown
<1>8. data \in Seq(Values) /\ \A i \in 1..Len(data) : data[i] \in Known(n + 2)
  BY WordsKnown
<1>9. q.vm = v1
  BY DEF Result
<1> HIDE DEF v1, q
<1>10. Loads(v1, q.vm)
  <2>1. Len(v1.memory.data) \in Nat
    BY <1>2, SegmentsCounted DEF VmSound, MachineMemory
  <2>2. Extends(v1.memory, v1.memory)
    BY <2>1, ExtendsItself
  <2> QED
    BY <1>2, <1>9, <2>2 DEF Loads
<1>11. Loads(v1, first.vm) /\ VmSound(first.vm)
  <2>1. VmSound(q.vm)
    BY <1>2, <1>9
  <2>2. \A i \in 1..Len(data) : data[i] \in Known(v1.num_segments)
    BY <1>2, <1>8
  <2>3. LoadedAt(v1, q, first, program_base, data)
    BY <1>2, <1>8, <1>10, <2>1, <2>2, LoadIntoStep
  <2> QED
    BY <2>3 DEF Loads, LoadedAt
<1> HIDE DEF first
<1>12. /\ Loads(v1, r.vm)
       /\ r.err = "ok" =>
            \A i \in 1..Len(stack) :
              Cell(r.vm.memory.data,
                   RelocatableValue(execution_base.seg, execution_base.off + i - 1)) = stack[i]
  <2>0. VmSound(v1) /\ stack \in Seq(Values)
    BY <1>2, <1>7
  <2>1. \A i \in 1..Len(stack) : stack[i] \in Known(v1.num_segments)
    BY <1>2, <1>7
  <2> HIDE DEF r, N
  <2>2. LoadedAt(v1, first, r, execution_base, stack)
    BY <2>0, <1>11, <2>1, LoadIntoStep DEF r
  <2> QED
    BY <2>2 DEF LoadedAt
<1> HIDE DEF r, N
<1>13. ASSUME r.err = "ok"
       PROVE  /\ Cell(r.vm.memory.data,
                      RelocatableValue(execution_base.seg, execution_base.off + N)) = fp
              /\ Cell(r.vm.memory.data,
                      RelocatableValue(execution_base.seg, execution_base.off + N + 1)) = end
  <2>1. execution_base.off \in Nat
    BY RelocatableFields
  <2>2. /\ N + 1 \in 1..Len(stack) /\ N + 2 \in 1..Len(stack)
        /\ execution_base.off + (N + 1) - 1 = execution_base.off + N
        /\ execution_base.off + (N + 2) - 1 = execution_base.off + N + 1
    BY <1>7, <2>1
  <2>3. /\ Cell(r.vm.memory.data,
                RelocatableValue(execution_base.seg, execution_base.off + (N + 1) - 1))
             = stack[N + 1]
        /\ Cell(r.vm.memory.data,
                RelocatableValue(execution_base.seg, execution_base.off + (N + 2) - 1))
             = stack[N + 2]
    BY <1>12, <1>13, <2>2
  <2> QED
    BY <1>7, <2>2, <2>3
<1> QED
  BY <1>7, <1>12, <1>13 DEF v1, q, first, r, N, n, fp, end

\* initialize_main_entrypoint, when there is a main.
EntrypointLoaded(loaded, entered) ==
  LET end == RelocatableValue(vm.num_segments + 1, 0)
  IN  /\ Call("segments", "entrypoint", loaded.err)
      /\ vm' = loaded.vm
      /\ runner' = IF loaded.err = "ok" THEN [entered EXCEPT !.final_pc = end] ELSE entered
      /\ output' = output

EntrypointStack == InitialStack(Bases(vm), RelocatableValue(vm.num_segments, 0),
                                RelocatableValue(vm.num_segments + 1, 0))
EntrypointOutcome ==
  LoadInto(LoadInto(Result(WithSegments(vm, 2), "ok"), runner.program_base, program.data),
           runner.execution_base, EntrypointStack)
EntrypointRunner ==
  [runner EXCEPT
     !.initial_fp = [runner.execution_base EXCEPT !.off = @ + Len(EntrypointStack)],
     !.initial_pc = [runner.program_base EXCEPT !.off = @ + program.main]]

\* The two cases of initialize_main_entrypoint.
LEMMA EntrypointCases ==
  ASSUME InitializeMainEntrypoint
  PROVE  \/ /\ program.main = None
            /\ Call("segments", "entrypoint", "MissingMain")
            /\ vm' = WithSegments(vm, 1) /\ runner' = runner /\ output' = output
         \/ program.main # None /\ EntrypointLoaded(EntrypointOutcome, EntrypointRunner)
<1>1. CASE program.main = None
  BY <1>1 DEF InitializeMainEntrypoint
<1>2. CASE program.main # None
  <2>1. EntrypointLoaded(EntrypointOutcome, EntrypointRunner)
    BY <1>2 DEF InitializeMainEntrypoint, EntrypointLoaded, EntrypointOutcome,
                EntrypointRunner, EntrypointStack, Bases
  <2> QED
    BY <1>2, <2>1
<1> QED
  BY <1>1, <1>2

\* initialize_main_entrypoint.
LEMMA RunInvEntrypoint == RunInv /\ InitializeMainEntrypoint => RunInv'
<1> SUFFICES ASSUME RunInv, InitializeMainEntrypoint PROVE RunInv'
  OBVIOUS
<1>1. /\ program \in Programs /\ runner \in RunnerStates /\ output \in Seq(Int)
      /\ phase = "segments" /\ program' = program /\ output' = output
  BY EntrypointCases DEF RunInv, RunTypes, EntrypointLoaded, Call
<1>2. /\ VmSound(vm) /\ BasesKnown(vm) /\ NamesKept(vm, program.builtins)
      /\ runner.program_base # None /\ runner.program_base.seg < vm.num_segments
      /\ runner.execution_base # None /\ runner.execution_base.seg < vm.num_segments
      /\ vm.verified_addresses = {} /\ vm.current_step = 0 /\ vm.hints = << >>
      /\ runner.relocated_memory = << >>
      /\ (~EarlyOutput => vm.segment_used_sizes = None)
  BY <1>1 DEF RunInv, PhaseInv, Built
<1>3. runner.program_base \in Relocatables /\ runner.execution_base \in Relocatables
  BY <1>1, <1>2 DEF RunnerStates, Maybe
<1>4. program.data \in Seq(Naturals) /\ program.main \in Maybe(Nat)
  BY <1>1, ProgramKnown
<1>5. vm.num_segments \in Nat
  BY <1>2 DEF VmSound, Machines
<1>6. CASE program.main = None
  <2>1. phase' = "failed" /\ error' # "ok" /\ runner' = runner /\ vm' = WithSegments(vm, 1)
    BY <1>6, EntrypointCases DEF Call
  <2>2. VmSound(vm')
    BY <1>2, <2>1, WithSegmentsStep
  <2> QED
    BY <1>1, <2>1, <2>2, RunInvFails
<1>7. CASE program.main # None
  <2> DEFINE loaded  == EntrypointOutcome
             entered == EntrypointRunner
             stack   == EntrypointStack
             end     == RelocatableValue(vm.num_segments + 1, 0)
             v1      == WithSegments(vm, 2)
             fp      == [runner.execution_base EXCEPT !.off = @ + Len(stack)]
             pc      == [runner.program_base EXCEPT !.off = @ + program.main]
  <2>1. EntrypointLoaded(loaded, entered)
    BY <1>7, EntrypointCases
  <2>2. Loads(v1, loaded.vm) /\ Len(stack) \in Nat
    <3>1. Loads(v1, loaded.vm) /\ Len(vm.builtin_runners) \in Nat
          /\ Len(stack) = Len(vm.builtin_runners) + 2
      BY <1>2, <1>3, <1>4, LoadedProgram DEF EntrypointOutcome, EntrypointStack
    <3> QED
      BY <3>1
  <2>3. /\ VmSound(v1) /\ v1.num_segments = vm.num_segments + 2
        /\ v1.segment_used_sizes = vm.segment_used_sizes
        /\ v1.builtin_runners = vm.builtin_runners
        /\ v1.verified_addresses = vm.verified_addresses /\ v1.hints = vm.hints
        /\ v1.current_step = vm.current_step
    <3> HIDE DEF loaded, entered, stack, end, fp, pc
    <3>1. 2 \in Nat
      OBVIOUS
    <3> QED
      BY <1>2, <3>1, WithSegmentsStep
  <2>4. fp \in Relocatables /\ fp.seg = runner.execution_base.seg
    BY <1>3, <2>2, AddressMoved
  <2>5. pc \in Relocatables /\ pc.seg = runner.program_base.seg
    BY <1>3, <1>4, <1>7, AddressMoved DEF Maybe
  <2>6. end \in Relocatables
    BY <1>5 DEF RelocatableValue, Relocatables
  <2>7. entered = [runner EXCEPT !.initial_fp = fp, !.initial_pc = pc]
    BY DEF EntrypointRunner
  <2> HIDE DEF loaded, entered, stack, end, v1, fp, pc
  <2>8. /\ entered \in RunnerStates /\ entered.initial_fp = fp /\ entered.initial_pc = pc
        /\ entered.relocated_memory = << >>
    BY <1>1, <1>2, <2>4, <2>5, <2>7 DEF RunnerStates, Maybe
  <2>9. /\ phase' = (IF loaded.err = "ok" THEN "entrypoint" ELSE "failed")
        /\ error' = loaded.err /\ vm' = loaded.vm
        /\ runner' = IF loaded.err = "ok" THEN [entered EXCEPT !.final_pc = end] ELSE entered
    BY <2>1 DEF EntrypointLoaded, Call, end
  <2>10. /\ VmSound(vm') /\ vm'.num_segments = v1.num_segments
         /\ vm'.segment_used_sizes = vm.segment_used_sizes
         /\ vm'.builtin_runners = vm.builtin_runners
         /\ vm'.verified_addresses = vm.verified_addresses /\ vm'.hints = vm.hints
         /\ vm'.current_step = vm.current_step
    BY <2>2, <2>3, <2>9 DEF Loads
  <2>11. CASE loaded.err # "ok"
    <3>1. phase' = "failed" /\ error' # "ok" /\ runner' = entered
      BY <2>9, <2>11
    <3> QED
      BY <1>1, <2>8, <2>10, <3>1, RunInvFails
  <2>12. CASE loaded.err = "ok"
    <3>1. phase' = "entrypoint" /\ error' = "ok"
          /\ runner' = [entered EXCEPT !.final_pc = end]
      BY <2>9, <2>12
    <3>2. /\ runner' \in RunnerStates
          /\ runner'.initial_fp = fp /\ runner'.initial_pc = pc
          /\ runner'.relocated_memory = << >>
      BY <2>6, <2>8, <3>1 DEF RunnerStates, Maybe
    <3>3. RunTypes'
      BY <1>1, <3>1, <3>2 DEF RunTypes, Phases
    <3>4. fp # None /\ pc # None
      BY <2>4, <2>5, NoneAssumption DEF Values
    <3>5. /\ fp.seg < vm'.num_segments /\ pc.seg < vm'.num_segments
      <4>1. runner.execution_base.seg \in Nat /\ runner.program_base.seg \in Nat
        BY <1>3, RelocatableFields
      <4> QED
        BY <1>2, <1>5, <2>3, <2>4, <2>5, <2>10, <4>1
    <3>6. BasesKnown(vm')
      <4> DEFINE n == vm.num_segments
                 k == vm'.num_segments
      <4>1. n \in Nat /\ k = n + 2
        BY <1>5, <2>3, <2>10
      <4>2. \A i \in 1..Len(vm.builtin_runners) :
              /\ vm.builtin_runners[i].base \in Relocatables
              /\ vm.builtin_runners[i].base.seg < n
              /\ vm.builtin_runners[i].base.seg \in Nat
        BY <1>2, RelocatableFields DEF BasesKnown
      <4> HIDE DEF n, k
      <4>3. k > 0 /\ \A s \in Nat : s < n => s < k
        BY <4>1
      <4>4. \A i \in 1..Len(vm.builtin_runners) :
              /\ vm.builtin_runners[i].base \in Relocatables
              /\ vm.builtin_runners[i].base.seg < k
        BY <4>2, <4>3
      <4> QED
        BY <1>2, <2>10, <4>3, <4>4 DEF BasesKnown, k
    <3>7. NamesKept(vm', program.builtins)
      BY <1>2, <2>10 DEF NamesKept
    <3>8. DeductionsHold'
      BY <3>1 DEF DeductionsHold
    <3>9. PhaseInv'
      BY <1>1, <1>2, <2>10, <3>1, <3>2, <3>4, <3>5, <3>6, <3>7, <3>8
         DEF PhaseInv, Built, Running, Finished
    <3> QED
      BY <2>10, <3>3, <3>9 DEF RunInv
  <2> QED
    BY <2>11, <2>12
<1> QED
  BY <1>6, <1>7

-----------------------------------------------------------------------------
(* The start of the run.                                                   *)

\* The range check's rules are added, and what is loaded is validated.
WithRules(m, S) == [m EXCEPT !.validation_rules = @ \union S]

\* What is left of m by the validation of it with the rules of S.
RulesHold(m, S, r, n) ==
  /\ MachineMemory(r.memory, n) /\ r.memory.data = m.data
  /\ r.memory.validation_rules = m.validation_rules \union S
  /\ r.err = "ok" =>
       \A a \in Relocatables :
         (Cell(m.data, a) # None /\ a.seg \in r.memory.validation_rules) =>
           a \in r.memory.validated_addresses

\* initialize_vm's validation of what is loaded leaves a memory like that.
LEMMA RulesAdded ==
  ASSUME NEW n \in Nat, NEW m, MachineMemory(m, n), NEW S \in SUBSET Nat
  PROVE  RulesHold(m, S, ValidateExisting(WithRules(m, S)), n)
<1> DEFINE ruled == WithRules(m, S)
           r     == ValidateExisting(ruled)
<1>1. MemoryInv(m, Relocatables) /\ Len(m.data) = n /\ CellsKnown(m.data, n)
  BY DEF MachineMemory
<1>2. m \in Memories(Relocatables)
  BY <1>1 DEF MemoryInv
<1>3. /\ ruled \in Memories(Relocatables) /\ ruled.data = m.data
      /\ ruled.validated_addresses = m.validated_addresses
      /\ ruled.validation_rules = m.validation_rules \union S
  BY <1>2 DEF Memories, WithRules
<1> HIDE DEF ruled
<1>4. MemoryInv(ruled, Relocatables)
  BY <1>1, <1>3 DEF MemoryInv
<1>5. MemoryInv(r.memory, Relocatables) /\ Grows(ruled, r.memory)
  BY <1>4, AllWithin, ValidateExistingStep
<1>6. r.memory.data = ruled.data
  BY <1>3 DEF ValidateExisting, Memories
<1>7. r.err = "ok" =>
        \A a \in AddressesIn(m.data) :
          a.seg \in ruled.validation_rules => a \in r.memory.validated_addresses
  BY <1>3, <1>4, AllWithin, ValidateExistingValidates
<1>8. \A a \in Relocatables : Cell(m.data, a) # None => a \in AddressesIn(m.data)
  BY <1>1, SegmentsCounted, AddressesInside
<1> HIDE DEF r
<1>9. MachineMemory(r.memory, n)
  BY <1>1, <1>3, <1>5, <1>6 DEF MachineMemory
<1>10. r.memory.validation_rules = m.validation_rules \union S
  BY <1>3, <1>5 DEF Grows
<1>11. RulesHold(m, S, r, n)
  BY <1>3, <1>6, <1>7, <1>8, <1>9, <1>10 DEF RulesHold
<1> QED
  BY <1>11 DEF r, ruled

\* The hints of a program, at the addresses of the first segment.
LEMMA HintsTabled ==
  ASSUME NEW p \in Programs
  PROVE  LET hinted == {RelocatableValue(0, off) : off \in DOMAIN p.hints}
         IN  [pc \in hinted |-> p.hints[pc.off]] \in HintTables
<1> DEFINE hinted == {RelocatableValue(0, off) : off \in DOMAIN p.hints}
           table  == [pc \in hinted |-> p.hints[pc.off]]
<1>1. DOMAIN p.hints \subseteq Nat /\ \A off \in DOMAIN p.hints : p.hints[off] \in Seq(STRING)
  BY ProgramKnown
<1>2. hinted \in SUBSET Relocatables
  BY <1>1 DEF RelocatableValue, Relocatables
<1>3. \A pc \in hinted : pc.off \in DOMAIN p.hints
  BY DEF RelocatableValue
<1>4. \A pc \in hinted : p.hints[pc.off] \in Seq(STRING)
  BY <1>1, <1>3
<1> HIDE DEF hinted
<1>5. table \in [hinted -> Seq(STRING)]
  BY <1>4
<1> HIDE DEF table
<1>6. table \in HintTables
  BY <1>2, <1>5 DEF HintTables
<1> QED
  BY <1>6 DEF table, hinted

\* The segments of the range checks.
LEMMA RuledNatural ==
  ASSUME NEW v, BasesKnown(v)
  PROVE  RuledSegments(v.builtin_runners) \in SUBSET Nat
<1>1. \A i \in 1..Len(v.builtin_runners) : v.builtin_runners[i].base.seg \in Nat
  BY RelocatableFields DEF BasesKnown
<1> QED
  BY <1>1 DEF RuledSegments

\* What initialize_vm makes of the vm.
Started(v, r, fp, pc, table) ==
  [v EXCEPT !.pc = pc, !.ap = fp, !.fp = fp, !.memory = r.memory, !.hints = table]

\* A vm that is started.
StartedFrom(v, w, r, fp, pc, table) ==
  /\ VmSound(w) /\ w.memory = r.memory /\ w.num_segments = v.num_segments
  /\ w.pc = pc /\ w.ap = fp /\ w.fp = fp /\ w.hints = table
  /\ w.segment_used_sizes = v.segment_used_sizes
  /\ w.builtin_runners = v.builtin_runners
  /\ w.verified_addresses = v.verified_addresses
  /\ w.trace = v.trace /\ w.current_step = v.current_step

\* A sound vm stays sound when it is started with known registers.
LEMMA StartedStep ==
  ASSUME NEW v, VmSound(v), v.num_segments > 0, NEW r, MachineMemory(r.memory, v.num_segments),
         NEW fp \in Relocatables, fp.seg < v.num_segments,
         NEW pc \in Relocatables, pc.seg < v.num_segments, NEW table \in HintTables
  PROVE  StartedFrom(v, Started(v, r, fp, pc, table), r, fp, pc, table)
<1> DEFINE w == Started(v, r, fp, pc, table)
<1>1. v \in Machines /\ r.memory \in Memories(Relocatables)
  BY DEF VmSound, MachineMemory, MemoryInv
<1>2. fp \in Values /\ pc \in Values
  BY DEF Values
<1>3. w \in Machines
  BY <1>1, <1>2 DEF Machines, Started
<1>4. /\ w.memory = r.memory /\ w.num_segments = v.num_segments
      /\ w.pc = pc /\ w.ap = fp /\ w.fp = fp /\ w.hints = table
      /\ w.segment_used_sizes = v.segment_used_sizes
      /\ w.builtin_runners = v.builtin_runners
      /\ w.verified_addresses = v.verified_addresses
      /\ w.trace = v.trace /\ w.current_step = v.current_step
  BY <1>1 DEF Machines, Started
<1>5. fp \in Known(v.num_segments) /\ pc \in Known(v.num_segments)
  BY DEF Known
<1>6. MachineInv(w)
  BY <1>3, <1>4, <1>5 DEF MachineInv
<1>7. VmSound(w)
  BY <1>3, <1>4, <1>6 DEF VmSound
<1> QED
  BY <1>4, <1>7 DEF StartedFrom

\* initialize_vm.
LEMMA RunInvVm == RunInv /\ InitializeVm => RunInv'
<1> SUFFICES ASSUME RunInv, InitializeVm PROVE RunInv'
  OBVIOUS
<1> DEFINE S      == RuledSegments(vm.builtin_runners)
           r      == ValidateExisting(WithRules(vm.memory, S))
           hinted == {RelocatableValue(0, off) : off \in DOMAIN program.hints}
           table  == [pc \in hinted |-> program.hints[pc.off]]
           fp     == runner.initial_fp
           pc0    == runner.initial_pc
<1>1. /\ program \in Programs /\ program' = program /\ output' = output /\ runner' = runner
      /\ runner \in RunnerStates /\ output \in Seq(Int) /\ phase = "entrypoint"
      /\ phase' = (IF r.err = "ok" THEN "running" ELSE "failed") /\ error' = r.err
      /\ vm' = Started(vm, r, fp, pc0, table)
  BY DEF RunInv, RunTypes, InitializeVm, Call, Started, WithRules
<1>2. /\ VmSound(vm) /\ BasesKnown(vm) /\ NamesKept(vm, program.builtins)
      /\ fp # None /\ fp.seg < vm.num_segments /\ pc0 # None /\ pc0.seg < vm.num_segments
      /\ vm.verified_addresses = {}
      /\ runner.relocated_memory = << >>
      /\ (~EarlyOutput => vm.segment_used_sizes = None)
  BY <1>1 DEF RunInv, PhaseInv, Built
<1>3. fp \in Relocatables /\ pc0 \in Relocatables
  BY <1>1, <1>2 DEF RunnerStates, Maybe
<1>4. vm.num_segments \in Nat /\ vm.num_segments > 0 /\ MachineMemory(vm.memory, vm.num_segments)
  BY <1>2 DEF VmSound, Machines, BasesKnown
<1>5. S \in SUBSET Nat
  BY <1>2, RuledNatural
<1>6. table \in HintTables
  BY <1>1, HintsTabled
<1> DEFINE m == vm.memory
           n == vm.num_segments
<1>0. r = ValidateExisting(WithRules(m, S)) /\ MachineMemory(m, n) /\ n \in Nat
  BY <1>4
<1> HIDE DEF S, table, fp, pc0, r, m, n
<1>7. /\ MachineMemory(r.memory, vm.num_segments)
      /\ r.memory.data = vm.memory.data
      /\ r.memory.validation_rules = vm.memory.validation_rules \union S
      /\ r.err = "ok" =>
           \A a \in Relocatables :
             (Cell(vm.memory.data, a) # None /\ a.seg \in r.memory.validation_rules) =>
               a \in r.memory.validated_addresses
  <2>1. RulesHold(m, S, r, n)
    BY <1>0, <1>5, RulesAdded
  <2> QED
    BY <2>1 DEF RulesHold, m, n
<1>8. /\ VmSound(vm') /\ vm'.memory = r.memory /\ vm'.num_segments = vm.num_segments
      /\ vm'.segment_used_sizes = vm.segment_used_sizes
      /\ vm'.builtin_runners = vm.builtin_runners
      /\ vm'.verified_addresses = vm.verified_addresses
  <2>1. /\ vm.num_segments > 0 /\ MachineMemory(r.memory, vm.num_segments)
        /\ fp.seg < vm.num_segments /\ pc0.seg < vm.num_segments
    BY <1>2, <1>4, <1>7
  <2> DEFINE w == Started(vm, r, fp, pc0, table)
  <2>2. StartedFrom(vm, w, r, fp, pc0, table)
    BY <1>2, <1>3, <1>6, <2>1, StartedStep
  <2>3. vm' = w
    BY <1>1
  <2> HIDE DEF w
  <2> QED
    BY <2>2, <2>3 DEF StartedFrom
<1>9. CASE r.err # "ok"
  <2>1. phase' = "failed" /\ error' # "ok"
    BY <1>1, <1>9
  <2> QED
    BY <1>1, <1>8, <2>1, RunInvFails
<1>10. CASE r.err = "ok"
  <2>1. phase' = "running" /\ error' = "ok"
    BY <1>1, <1>10
  <2>2. RunTypes'
    BY <1>1, <2>1 DEF RunTypes, Phases
  <2>3. Checked(vm')
    BY <1>7, <1>8, <1>10 DEF Checked, S
  <2>4. HashesStored(vm')
    BY <1>2, <1>8 DEF HashesStored
  <2>5. BasesKnown(vm') /\ NamesKept(vm', program.builtins)
    BY <1>2, <1>8 DEF BasesKnown, NamesKept
  <2>6. DeductionsHold'
    BY <2>1 DEF DeductionsHold
  <2>7. PhaseInv'
    BY <1>1, <1>2, <1>8, <2>1, <2>3, <2>4, <2>5, <2>6 DEF PhaseInv, Built, Running, Finished
  <2> QED
    BY <1>8, <2>2, <2>7 DEF RunInv
<1> QED
  BY <1>9, <1>10

-----------------------------------------------------------------------------
(* The run.                                                                *)

\* What the calls that change the memory of a run keep of what is known of
\* its builtins.
LEMMA BuiltinsStay ==
  ASSUME NEW v, NEW w, BasesKnown(v), v.num_segments \in Nat, w.num_segments \in Nat,
         v.num_segments <= w.num_segments, w.builtin_runners = v.builtin_runners
  PROVE  /\ BasesKnown(w)
         /\ \A builtins : NamesKept(v, builtins) => NamesKept(w, builtins)
<1> DEFINE n == v.num_segments
           k == w.num_segments
           runners == v.builtin_runners
<1>1. \A i \in 1..Len(runners) :
        /\ runners[i].base \in Relocatables /\ runners[i].base.seg < n
        /\ runners[i].base.seg \in Nat
  BY RelocatableFields DEF BasesKnown
<1>2. n > 0 /\ n \in Nat /\ k \in Nat /\ n <= k
  BY DEF BasesKnown
<1> HIDE DEF n, k, runners
<1>3. k > 0 /\ \A s \in Nat : s < n => s < k
  BY <1>2
<1>4. \A i \in 1..Len(runners) :
        runners[i].base \in Relocatables /\ runners[i].base.seg < k
  BY <1>1, <1>3
<1>5. w.builtin_runners = runners /\ v.builtin_runners = runners
  BY DEF runners
<1>6. BasesKnown(w)
  BY <1>3, <1>4, <1>5 DEF BasesKnown, k
<1>7. \A builtins : NamesKept(v, builtins) => NamesKept(w, builtins)
  BY <1>5 DEF NamesKept
<1> QED
  BY <1>6, <1>7

\* A memory that is extended by validated cells.
LEMMA CheckedStays ==
  ASSUME NEW v, NEW w, Checked(v), Extends(v.memory, w.memory),
         w.builtin_runners = v.builtin_runners, NewAreValidated(v.memory, w.memory)
  PROVE  Checked(w)
<1>1. /\ w.memory.validation_rules = v.memory.validation_rules
      /\ v.memory.validated_addresses \subseteq w.memory.validated_addresses
  BY DEF Extends
<1>2. ASSUME NEW a \in Relocatables, Cell(w.memory.data, a) # None,
             a.seg \in w.memory.validation_rules
      PROVE  a \in w.memory.validated_addresses
  <2>1. CASE Cell(v.memory.data, a) = None
    BY <1>1, <1>2, <2>1 DEF NewAreValidated
  <2>2. CASE Cell(v.memory.data, a) # None
    <3>1. a \in v.memory.validated_addresses
      BY <1>1, <1>2, <2>2 DEF Checked
    <3> QED
      BY <1>1, <3>1
  <2> QED
    BY <2>1, <2>2
<1>3. RuledSegments(w.builtin_runners) \subseteq w.memory.validation_rules
  BY <1>1 DEF Checked
<1> QED
  BY <1>2, <1>3 DEF Checked

\* A step of the run is a step of its vm.
StepTaken(answer) ==
  LET r == StepOf(vm, answer)
  IN  /\ answer \in Maybe(Naturals)
      /\ MachineInv(vm)
      /\ Call("running", "running", r.err) /\ vm' = r.vm
      /\ Stepping(vm, vm')
      /\ r.err = "ok" => Stepped(vm, ExecuteHints(vm, answer).vm, vm')
      /\ vm.pc # runner.final_pc /\ vm.current_step < MaxSteps
      /\ runner' = runner /\ output' = output

\* Every step of the run, the ones that fail included, is like that.
LEMMA StepIsTaken == RunInv /\ Step => \E answer : StepTaken(answer)
<1> SUFFICES ASSUME RunInv, Step PROVE \E answer : StepTaken(answer)
  OBVIOUS
<1>1. PICK answer \in HintAnswers :
        /\ Call("running", "running", StepOf(vm, answer).err)
        /\ vm' = StepOf(vm, answer).vm
  BY DEF Step
<1>2. answer \in Maybe(Naturals)
  BY RunAssumption DEF Maybe, Naturals
<1>3. VmSound(vm) /\ BasesKnown(vm)
  BY <1>1 DEF RunInv, PhaseInv, Built, Call
<1>4. MachineInv(vm)
  BY <1>3 DEF VmSound, BasesKnown
<1> DEFINE r == StepOf(vm, answer)
<1>5. /\ Stepping(vm, r.vm)
      /\ r.err = "ok" => Stepped(vm, ExecuteHints(vm, answer).vm, r.vm)
  BY <1>2, <1>4, StepOfStep
<1>6. vm.pc # runner.final_pc /\ vm.current_step < MaxSteps /\ runner' = runner
      /\ output' = output
  BY DEF Step
<1> HIDE DEF r
<1>7. vm' = r.vm /\ Call("running", "running", r.err)
  BY <1>1 DEF r
<1>8. StepTaken(answer)
  BY <1>2, <1>4, <1>5, <1>6, <1>7 DEF StepTaken, r
<1> QED
  BY <1>8

\* An iteration of run_until_pc.
LEMMA RunInvStep == RunInv /\ Step => RunInv'
<1> SUFFICES ASSUME RunInv, Step PROVE RunInv'
  OBVIOUS
<1>1. PICK answer : StepTaken(answer)
  BY StepIsTaken
<1> DEFINE err == StepOf(vm, answer).err
           h   == ExecuteHints(vm, answer).vm
<1>2. /\ MachineInv(vm) /\ Stepping(vm, vm')
      /\ err = "ok" => Stepped(vm, h, vm')
      /\ phase = "running" /\ phase' = (IF err = "ok" THEN "running" ELSE "failed")
      /\ error' = err /\ program' = program /\ runner' = runner /\ output' = output
      /\ vm.current_step < MaxSteps
  BY <1>1 DEF StepTaken, Call
<1> HIDE DEF err, h
<1>3. /\ VmSound(vm) /\ BasesKnown(vm) /\ NamesKept(vm, program.builtins)
      /\ Checked(vm) /\ HashesStored(vm)
      /\ runner.relocated_memory = << >>
      /\ (~EarlyOutput => vm.segment_used_sizes = None)
      /\ runner \in RunnerStates /\ output \in Seq(Int) /\ program \in Programs
  BY <1>2 DEF RunInv, RunTypes, PhaseInv, Built, Running
<1>4. /\ MachineInv(vm') /\ Extends(vm.memory, vm'.memory)
      /\ vm.num_segments <= vm'.num_segments
      /\ vm'.builtin_runners = vm.builtin_runners
      /\ vm'.segment_used_sizes = vm.segment_used_sizes
      /\ vm'.current_step \in {vm.current_step, vm.current_step + 1}
  BY <1>2 DEF Stepping, Continues
<1>5. /\ vm.num_segments \in Nat /\ vm'.num_segments \in Nat /\ vm.num_segments > 0
      /\ vm.current_step \in Nat /\ vm' \in Machines
      /\ MachineMemory(vm'.memory, vm'.num_segments)
  BY <1>2, <1>3, <1>4 DEF MachineInv, Machines, BasesKnown
<1>6. VmSound(vm')
  <2>1. vm'.num_segments > 0
    BY <1>4, <1>5
  <2>2. vm'.current_step <= MaxSteps
    BY <1>2, <1>4, <1>5, RunAssumption
  <2> QED
    BY <1>4, <1>5, <2>1, <2>2 DEF VmSound
<1>7. BasesKnown(vm') /\ NamesKept(vm', program.builtins)
  BY <1>3, <1>4, <1>5, BuiltinsStay
<1>8. CASE err # "ok"
  BY <1>2, <1>3, <1>6, <1>8, RunInvFails
<1>9. CASE err = "ok"
  <2>1. phase' = "running" /\ error' = "ok" /\ Stepped(vm, h, vm')
    BY <1>2, <1>9
  <2>2. RunTypes'
    BY <1>2, <1>3, <2>1 DEF RunTypes, Phases
  <2>3. NewAreValidated(vm.memory, vm'.memory) /\ HashesStored(vm')
    BY <1>3, <2>1 DEF Stepped
  <2>4. Checked(vm')
    BY <1>3, <1>4, <2>3, CheckedStays
  <2>5. DeductionsHold'
    BY <2>1 DEF DeductionsHold
  <2>6. PhaseInv'
    BY <1>2, <1>3, <1>4, <1>7, <2>1, <2>3, <2>4, <2>5 DEF PhaseInv, Built, Running, Finished
  <2> QED
    BY <1>6, <2>2, <2>6 DEF RunInv
<1> QED
  BY <1>8, <1>9

\* The end of run_until_pc.
LEMMA RunInvReach == RunInv /\ ReachFinalPc => RunInv'
<1> SUFFICES ASSUME RunInv, ReachFinalPc PROVE RunInv'
  OBVIOUS
<1>1. /\ phase = "running" /\ phase' = "halted" /\ error' = "ok" /\ program' = program
      /\ runner' = runner /\ vm' = vm /\ output' = output
  BY DEF ReachFinalPc, Call
<1>2. RunTypes'
  BY <1>1 DEF RunInv, RunTypes, Phases
<1>3. DeductionsHold'
  BY <1>1 DEF DeductionsHold
<1>4. PhaseInv'
  BY <1>1, <1>3 DEF RunInv, PhaseInv, Built, Running, Finished
<1>5. VmSound(vm')
  BY <1>1 DEF RunInv
<1> QED
  BY <1>2, <1>4, <1>5 DEF RunInv

-----------------------------------------------------------------------------
(* The final check.                                                        *)

\* What is verified of a run, in its vm.
DeductionsIn(v) ==
  \A a \in Relocatables :
    Cell(v.memory.data, a) # None =>
      \A k \in RunnersOf(v.builtin_runners, a.seg) :
        LET d == DeduceBy(v.builtin_runners[k], v.memory, {}, a)
        IN  d.err = "ok" /\ d.val \in {None, Cell(v.memory.data, a)}

\* A segment belongs to one builtin at most, which is the one that answers.
LEMMA OwnerAnswers ==
  ASSUME NEW v, BasesKnown(v), NEW a \in Relocatables,
         NEW k \in RunnersOf(v.builtin_runners, a.seg)
  PROVE  Redo(v, a) = DeduceBy(v.builtin_runners[k], v.memory, v.verified_addresses, a)
<1> DEFINE R == RunnersOf(v.builtin_runners, a.seg)
           first == CHOOSE i \in R : \A j \in R : i <= j
<1>1. R = {k}
  <2>1. \A i \in R : i \in 1..Len(v.builtin_runners) /\ v.builtin_runners[i].base.seg = a.seg
    BY DEF RunnersOf
  <2> QED
    BY <2>1 DEF BasesKnown
<1>2. k \in Int
  BY DEF RunnersOf
<1>3. IsRel(a)
  BY RelocatableFields
<1> HIDE DEF R
<1>4. first = k
  BY <1>1, <1>2
<1> HIDE DEF first
<1>5. Redo(v, a) = DeduceBy(v.builtin_runners[first], v.memory, v.verified_addresses, a)
  BY <1>1, <1>3 DEF Redo, DeduceMemoryCell, R, first
<1> QED
  BY <1>4, <1>5

\* What a runner answers for a cell it has not handed out yet.
LEMMA AnswersAfresh ==
  ASSUME NEW owner, NEW memory, NEW verified, NEW a
  PROVE  LET d == DeduceBy(owner, memory, {}, a)
             e == DeduceBy(owner, memory, verified, a)
         IN  \/ d.err = e.err /\ d.val = e.val
             \/ /\ a \in verified
                /\ HasInputs(memory, a) => d.err = "ok" /\ d.val = HashOf(memory, a)
<1>1. CASE owner.name = "pedersen"
  <2>1. /\ DeduceBy(owner, memory, {}, a) = DeduceHash(memory, {}, a)
        /\ DeduceBy(owner, memory, verified, a) = DeduceHash(memory, verified, a)
    BY <1>1 DEF DeduceBy
  <2>2. CASE a \in verified
    <3>1. HasInputs(memory, a) =>
            DeduceHash(memory, {}, a) = Deduced(Ok(HashOf(memory, a)), {a})
      BY DEF HasInputs, DeduceHash, HashOf
    <3> QED
      BY <2>1, <2>2, <3>1 DEF Deduced, Ok
  <2>3. CASE a \notin verified
    BY <2>1, <2>3 DEF DeduceHash, Deduced
  <2> QED
    BY <2>2, <2>3
<1>2. CASE owner.name # "pedersen"
  BY <1>2 DEF DeduceBy, Deduced
<1> QED
  BY <1>1, <1>2

\* What the final check leaves, when it succeeds.
VerifiedWell(v, r) ==
  /\ r.vm \in Machines
  /\ r.vm.memory = v.memory /\ r.vm.num_segments = v.num_segments
  /\ r.vm.pc = v.pc /\ r.vm.ap = v.ap /\ r.vm.fp = v.fp
  /\ r.vm.segment_used_sizes = v.segment_used_sizes
  /\ r.vm.builtin_runners = v.builtin_runners
  /\ r.vm.hints = v.hints /\ r.vm.trace = v.trace /\ r.vm.current_step = v.current_step
  /\ r.err = "ok" => HashesHold(r.vm) /\ DeductionsIn(r.vm)

\* verify_auto_deductions leaves that of a sound vm.
LEMMA VerifyStep ==
  ASSUME NEW v, VmSound(v), BasesKnown(v), HashesStored(v)
  PROVE  VerifiedWell(v, VerifyAutoDeductions(v))
<1> DEFINE cells == BuiltinCells(v)
           redone == [a \in cells |-> Redo(v, a)]
           wrong(a) == AutoDeductionError(Cell(v.memory.data, a), redone[a])
           inconsistent == {a \in DOMAIN redone : wrong(a) # "ok"}
           first == CHOOSE a \in inconsistent : \A b \in inconsistent \ {a} : Before(a, b)
           visited == {a \in DOMAIN redone : \A b \in inconsistent : a = b \/ Before(a, b)}
           marked == v.verified_addresses \union UNION {redone[a].verified : a \in visited}
           err == IF inconsistent = {} THEN "ok" ELSE wrong(first)
           w == [v EXCEPT !.verified_addresses = marked]
<1>1. VerifyAutoDeductions(v) = Result(w, err)
  <2>1. {i \in 1..Len(v.builtin_runners) : v.builtin_runners[i].base = None} = {}
    BY NoneAssumption DEF BasesKnown, Values
  <2> QED
    BY <2>1 DEF VerifyAutoDeductions, Verified
<1>2. /\ v \in Machines /\ CellsKnown(v.memory.data, v.num_segments)
      /\ AddressesIn(v.memory.data) \subseteq Relocatables
      /\ \A b \in Relocatables : Cell(v.memory.data, b) # None => b \in AddressesIn(v.memory.data)
      /\ v.verified_addresses \in SUBSET Relocatables
  BY SegmentsCounted, AddressesInside DEF VmSound, MachineMemory, Machines
<1>3. cells \subseteq Relocatables
  BY <1>2 DEF BuiltinCells
<1> HIDE DEF cells
<1>4. DOMAIN redone = cells /\ \A a \in cells : redone[a] = Redo(v, a)
  OBVIOUS
<1> HIDE DEF redone
<1>5. \A a \in cells : redone[a].verified \in
                         {v.verified_addresses, v.verified_addresses \union {a}}
  <2> SUFFICES ASSUME NEW a \in cells
               PROVE  redone[a].verified \in
                        {v.verified_addresses, v.verified_addresses \union {a}}
    OBVIOUS
  <2>1. redone[a] = DeduceMemoryCell(v.builtin_runners, v.memory, v.verified_addresses, a)
    BY <1>4 DEF Redo
  <2> QED
    BY <2>1, DeduceMarks
<1>6. visited \subseteq cells
  BY <1>4
<1>7. err = "ok" => \A a \in cells : wrong(a) = "ok"
  <2>1. ASSUME inconsistent # {}
        PROVE  wrong(first) # "ok"
    <3>1. inconsistent \in SUBSET Relocatables
      BY <1>3, <1>4
    <3>2. \E a \in inconsistent : \A b \in inconsistent \ {a} : Before(a, b)
      <4> HIDE DEF inconsistent
      <4> QED
        BY <2>1, <3>1, FirstAddress
    <3>3. first \in inconsistent
      <4> HIDE DEF inconsistent
      <4> QED
        BY <3>2
    <3> HIDE DEF first
    <3> QED
      BY <3>3
  <2>2. err = "ok" => inconsistent = {}
    <3> HIDE DEF inconsistent, first, wrong
    <3> QED
      BY <2>1
  <2> HIDE DEF err
  <2> QED
    BY <1>4, <2>2
<1> HIDE DEF visited, wrong, err
<1>8. marked \in SUBSET Relocatables
  BY <1>2, <1>3, <1>5, <1>6
<1>9. \A a \in marked : \/ a \in v.verified_addresses
                        \/ a \in cells /\ redone[a].verified # v.verified_addresses
  <2> SUFFICES ASSUME NEW a \in marked, a \notin v.verified_addresses
               PROVE  a \in cells /\ redone[a].verified # v.verified_addresses
    OBVIOUS
  <2>1. PICK b \in visited : a \in redone[b].verified
    OBVIOUS
  <2>2. b \in cells
    BY <1>6, <2>1
  <2>3. redone[b].verified = v.verified_addresses \union {b}
    BY <1>5, <2>1, <2>2
  <2>4. a = b
    BY <2>1, <2>3
  <2> QED
    BY <2>2, <2>3, <2>4
<1> HIDE DEF marked
<1>10. /\ w \in Machines /\ w.verified_addresses = marked
       /\ w.memory = v.memory /\ w.num_segments = v.num_segments
       /\ w.pc = v.pc /\ w.ap = v.ap /\ w.fp = v.fp
       /\ w.segment_used_sizes = v.segment_used_sizes
       /\ w.builtin_runners = v.builtin_runners
       /\ w.hints = v.hints /\ w.trace = v.trace /\ w.current_step = v.current_step
  BY <1>2, <1>8 DEF Machines
<1> HIDE DEF w
<1>11. ASSUME err = "ok", NEW a \in cells
       PROVE  /\ redone[a].err = "ok"
              /\ redone[a].val # None => Cell(v.memory.data, a) \in {None, redone[a].val}
  <2>1. AutoDeductionError(Cell(v.memory.data, a), redone[a]) = "ok"
    BY <1>7, <1>11 DEF wrong
  <2> QED
    BY <2>1 DEF AutoDeductionError
<1>12. ASSUME err = "ok"
       PROVE  HashesHold(w)
  <2> SUFFICES ASSUME NEW a \in marked
               PROVE  /\ HasInputs(v.memory, a)
                      /\ Cell(v.memory.data, a) \in {HashOf(v.memory, a), None}
    BY <1>10 DEF HashesHold
  <2>1. CASE a \in v.verified_addresses
    BY <2>1 DEF HashesStored
  <2>2. CASE a \notin v.verified_addresses
    <3>1. a \in cells /\ redone[a].verified # v.verified_addresses
      BY <1>9, <2>2
    <3>2. redone[a].err = "ok" /\ a \in Relocatables
      BY <1>3, <1>11, <1>12, <3>1
    <3>3. redone[a] = DeduceMemoryCell(v.builtin_runners, v.memory, v.verified_addresses, a)
      BY <1>4, <3>1 DEF Redo
    <3>4. HasInputs(v.memory, a) /\ redone[a].val = HashOf(v.memory, a)
      <4> DEFINE d == DeduceMemoryCell(v.builtin_runners, v.memory, v.verified_addresses, a)
      <4>1. d.err = "ok" /\ d = redone[a] /\ CellsKnown(v.memory.data, v.num_segments)
        BY <1>2, <3>2, <3>3
      <4>2. \/ d.verified = v.verified_addresses
            \/ HasInputs(v.memory, a) /\ d.val = HashOf(v.memory, a)
        BY <3>2, <4>1, DeduceMemoryCellKnown
      <4> HIDE DEF d
      <4> QED
        BY <3>1, <4>1, <4>2
    <3>5. HashOf(v.memory, a) # None
      <4>1. HashOf(v.memory, a) \in Known(0)
        BY <3>4, HashKnown
      <4> QED
        BY <4>1, KnownKinds
    <3> QED
      BY <1>11, <1>12, <3>1, <3>4, <3>5
  <2> QED
    BY <2>1, <2>2
<1>13. ASSUME err = "ok"
       PROVE  DeductionsIn(w)
  <2> SUFFICES ASSUME NEW a \in Relocatables, Cell(v.memory.data, a) # None,
                      NEW k \in RunnersOf(v.builtin_runners, a.seg)
               PROVE  LET d == DeduceBy(v.builtin_runners[k], v.memory, {}, a)
                      IN  d.err = "ok" /\ d.val \in {None, Cell(v.memory.data, a)}
    BY <1>10 DEF DeductionsIn
  <2> DEFINE d == DeduceBy(v.builtin_runners[k], v.memory, {}, a)
             e == DeduceBy(v.builtin_runners[k], v.memory, v.verified_addresses, a)
  <2>1. a \in cells
    BY <1>2 DEF cells, BuiltinCells
  <2>2. redone[a] = e
    BY <1>4, <2>1, OwnerAnswers
  <2>3. \/ d.err = e.err /\ d.val = e.val
        \/ /\ a \in v.verified_addresses
           /\ HasInputs(v.memory, a) => d.err = "ok" /\ d.val = HashOf(v.memory, a)
    BY AnswersAfresh
  <2> HIDE DEF d, e
  <2>4. e.err = "ok" /\ (e.val # None => Cell(v.memory.data, a) = e.val)
    BY <1>11, <1>13, <2>1, <2>2
  <2>5. a \in v.verified_addresses =>
          HasInputs(v.memory, a) /\ Cell(v.memory.data, a) = HashOf(v.memory, a)
    BY DEF HashesStored
  <2>6. d.err = "ok" /\ d.val \in {None, Cell(v.memory.data, a)}
    BY <2>3, <2>4, <2>5
  <2> QED
    BY <2>6 DEF d
<1>14. VerifiedWell(v, Result(w, err))
  BY <1>10, <1>12, <1>13 DEF VerifiedWell, Result
<1> QED
  BY <1>1, <1>14 DEF w

\* verify_auto_deductions.
LEMMA RunInvVerify == RunInv /\ VerifyRun => RunInv'
<1> SUFFICES ASSUME RunInv, VerifyRun PROVE RunInv'
  OBVIOUS
<1> DEFINE r == VerifyAutoDeductions(vm)
<1>1. /\ phase = "halted" /\ phase' = (IF r.err = "ok" THEN "verified" ELSE "failed")
      /\ error' = r.err /\ program' = program /\ runner' = runner /\ output' = output
      /\ vm' = r.vm
  BY DEF VerifyRun, Call
<1>2. /\ VmSound(vm) /\ BasesKnown(vm) /\ NamesKept(vm, program.builtins)
      /\ Checked(vm) /\ HashesStored(vm)
      /\ runner.relocated_memory = << >>
      /\ (~EarlyOutput => vm.segment_used_sizes = None)
      /\ runner \in RunnerStates /\ output \in Seq(Int) /\ program \in Programs
  BY <1>1 DEF RunInv, RunTypes, PhaseInv, Built, Finished
<1>3. VerifiedWell(vm, r)
  BY <1>2, VerifyStep
<1> HIDE DEF r
<1>4. /\ vm' \in Machines /\ vm'.memory = vm.memory /\ vm'.num_segments = vm.num_segments
      /\ vm'.pc = vm.pc /\ vm'.ap = vm.ap /\ vm'.fp = vm.fp
      /\ vm'.segment_used_sizes = vm.segment_used_sizes
      /\ vm'.builtin_runners = vm.builtin_runners
      /\ vm'.current_step = vm.current_step
      /\ r.err = "ok" => HashesHold(vm') /\ DeductionsIn(vm')
  BY <1>1, <1>3 DEF VerifiedWell
<1>5. VmSound(vm')
  BY <1>2, <1>4 DEF VmSound, MachineInv
<1>6. BasesKnown(vm') /\ NamesKept(vm', program.builtins) /\ Checked(vm')
  BY <1>2, <1>4 DEF BasesKnown, NamesKept, Checked
<1>7. CASE r.err # "ok"
  BY <1>1, <1>2, <1>5, <1>7, RunInvFails
<1>8. CASE r.err = "ok"
  <2>1. phase' = "verified" /\ error' = "ok"
    BY <1>1, <1>8
  <2>2. RunTypes'
    BY <1>1, <1>2, <2>1 DEF RunTypes, Phases
  <2>3. AddressesIn(vm'.memory.data) \subseteq Relocatables
    BY <1>5 DEF VmSound, MachineMemory, MemoryInv
  <2>4. DeductionsHold'
    BY <1>4, <1>8, <2>3 DEF DeductionsHold, DeductionsIn, Assigned, Data
  <2>5. PhaseInv'
    BY <1>1, <1>2, <1>4, <1>6, <1>8, <2>1, <2>4 DEF PhaseInv, Built, Running, Finished
  <2> QED
    BY <1>5, <2>2, <2>5 DEF RunInv
<1> QED
  BY <1>7, <1>8

-----------------------------------------------------------------------------
(* The relocation.                                                         *)

Relocated == Int \union {None}

RelocatedValue(v, table) == IF v = None THEN None ELSE RelocateValue(v, table).val
RelocatesTo(v, table)    == v # None => RelocateValue(v, table).err = "ok"

\* A value becomes a number.
LEMMA ValueRelocated ==
  ASSUME NEW v \in Elements, NEW table \in Seq(Nat)
  PROVE  RelocatedValue(v, table) \in Relocated
<1>1. CASE v = None
  BY <1>1 DEF RelocatedValue, Relocated
<1>2. CASE v # None /\ IsInt(v)
  <2>1. v.num \in Int
    BY <1>2, NoneAssumption DEF Elements, Values, Ints, Relocatables, IsInt
  <2> QED
    BY <1>2, <2>1 DEF RelocatedValue, RelocateValue, Relocated, Ok
<1>3. CASE v # None /\ ~IsInt(v)
  <2>1. v.seg \in Nat /\ v.off \in Nat
    BY <1>3 DEF Elements, Values, Ints, Relocatables, IsInt
  <2>2. CASE Len(table) <= v.seg
    BY <1>3, <2>2 DEF RelocatedValue, RelocateValue, Relocated, Err
  <2>3. CASE ~(Len(table) <= v.seg)
    <3>1. v.seg + 1 \in 1..Len(table)
      BY <2>1, <2>3, LenProperties
    <3>2. table[v.seg + 1] \in Nat
      BY <3>1, ElementOfSeq
    <3>3. table[v.seg + 1] + v.off \in Int
      BY <2>1, <3>2
    <3> QED
      BY <1>3, <2>3, <3>3 DEF RelocatedValue, RelocateValue, Relocated, Ok
  <2> QED
    BY <2>2, <2>3
<1> QED
  BY <1>1, <1>2, <1>3

\* What copying a segment to the relocated memory adds to it.
SegmentRelocated(r, s, segment, table) ==
  /\ s.memory \in Seq(Relocated)
  /\ s.err = "ok" =>
       /\ Len(s.memory) = Len(r.memory) + Len(segment)
       /\ \A i \in 1..Len(r.memory) : s.memory[i] = r.memory[i]
       /\ \A i \in 1..Len(segment) :
            /\ s.memory[Len(r.memory) + i] = RelocatedValue(segment[i], table)
            /\ RelocatesTo(segment[i], table)

\* The inner loop of relocate_memory.
LEMMA RelocateSegmentStep ==
  ASSUME NEW r, r.memory \in Seq(Relocated), NEW segment \in Seq(Elements), NEW table \in Seq(Nat)
  PROVE  SegmentRelocated(r, RelocateSegment(r, segment, table), segment, table)
<1> DEFINE value(i) == IF segment[i] = None THEN Ok(None) ELSE RelocateValue(segment[i], table)
           fails == {i \in 1..Len(segment) : value(i).err # "ok"}
           first == CHOOSE i \in fails : \A j \in fails : i <= j
           count == IF fails = {} THEN Len(segment) ELSE first - 1
           copied == [i \in 1..count |-> value(i).val]
           s == RelocateSegment(r, segment, table)
           m == r.memory
<1>1. s = [memory |-> m \o copied, err |-> IF fails = {} THEN "ok" ELSE "Relocation"]
  BY DEF RelocateSegment
<1>2. Len(segment) \in Nat /\ \A i \in 1..Len(segment) : segment[i] \in Elements
  BY LenProperties, ElementOfSeq
<1>3. \A i : value(i).val = RelocatedValue(segment[i], table)
             /\ (value(i).err = "ok" <=> RelocatesTo(segment[i], table))
  BY DEF RelocatedValue, RelocatesTo, Ok
<1>4. count \in Nat /\ count <= Len(segment)
  <2>1. CASE fails = {}
    BY <1>2, <2>1
  <2>2. CASE fails # {}
    <3>1. fails \in SUBSET Nat /\ fails \subseteq 1..Len(segment)
      OBVIOUS
    <3> HIDE DEF fails
    <3>2. first \in fails
      BY <2>2, <3>1, HasMinimum
    <3> HIDE DEF first
    <3>3. first \in 1..Len(segment)
      BY <3>1, <3>2
    <3> QED
      BY <1>2, <2>2, <3>3
  <2> QED
    BY <2>1, <2>2
<1>5. fails = {} => count = Len(segment) /\ \A i \in 1..Len(segment) : value(i).err = "ok"
  OBVIOUS
<1> HIDE DEF fails, first, count, value
<1>6. copied \in Seq(Relocated) /\ Len(copied) = count
  <2>1. \A i \in 1..count : value(i).val \in Relocated
    <3> SUFFICES ASSUME NEW i \in 1..count PROVE value(i).val \in Relocated
      OBVIOUS
    <3>1. i \in 1..Len(segment)
      BY <1>2, <1>4
    <3>2. segment[i] \in Elements
      BY <1>2, <3>1
    <3> QED
      BY <1>3, <3>2, ValueRelocated
  <2>2. copied \in [1..count -> Relocated]
    BY <2>1
  <2> QED
    BY <1>4, <2>2, SeqDef, LenProperties
<1>7. \A i \in 1..count : copied[i] = value(i).val
  OBVIOUS
<1> HIDE DEF copied
<1>8. /\ m \o copied \in Seq(Relocated) /\ Len(m \o copied) = Len(m) + count
      /\ \A i \in 1..(Len(m) + count) :
           (m \o copied)[i] = IF i <= Len(m) THEN m[i] ELSE copied[i - Len(m)]
  BY <1>6, ConcatProperties
<1> DEFINE n == m \o copied
<1>9. Len(m) \in Nat
  BY LenProperties
<1> HIDE DEF n, m
<1>10. ASSUME fails = {}
       PROVE  /\ Len(n) = Len(m) + Len(segment)
              /\ \A i \in 1..Len(m) : n[i] = m[i]
              /\ \A i \in 1..Len(segment) :
                   /\ n[Len(m) + i] = RelocatedValue(segment[i], table)
                   /\ RelocatesTo(segment[i], table)
  <2>1. count = Len(segment) /\ \A i \in 1..Len(segment) : value(i).err = "ok"
    BY <1>5, <1>10
  <2>2. ASSUME NEW i \in 1..Len(m)
        PROVE  n[i] = m[i]
    <3>1. i \in 1..(Len(m) + count) /\ i <= Len(m)
      BY <1>4, <1>9
    <3> QED
      BY <1>8, <3>1 DEF n
  <2>3. ASSUME NEW i \in 1..Len(segment)
        PROVE  n[Len(m) + i] = RelocatedValue(segment[i], table)
    <3> DEFINE j == Len(m) + i
    <3>1. j \in 1..(Len(m) + count) /\ ~(j <= Len(m)) /\ j - Len(m) = i /\ i \in 1..count
      BY <1>4, <1>9, <2>1
    <3> HIDE DEF j
    <3>2. n[j] = copied[i]
      BY <1>8, <3>1 DEF n
    <3>3. copied[i] = value(i).val
      BY <1>7, <3>1
    <3>4. n[j] = RelocatedValue(segment[i], table)
      BY <1>3, <3>2, <3>3
    <3> QED
      BY <3>4 DEF j
  <2>4. Len(n) = Len(m) + Len(segment)
    BY <1>8, <2>1 DEF n
  <2> QED
    BY <1>3, <2>1, <2>2, <2>3, <2>4
<1>11. s.memory = n /\ (s.err = "ok" <=> fails = {})
  BY <1>1 DEF n
<1>12. n \in Seq(Relocated)
  BY <1>8 DEF n
<1> HIDE DEF s
<1>13. SegmentRelocated(r, s, segment, table)
  BY <1>10, <1>11, <1>12 DEF SegmentRelocated, m
<1> QED
  BY <1>13 DEF s

RelocationErrors == {"ok", "Relocation", "panic"}
Relocations      == [memory : Seq(Relocated), err : RelocationErrors]

\* The memory s, into which the first n segments are copied: one after the
\* other, from address 1 on, each where the table says.
SegmentsCopied(n, s, data, table) ==
  /\ n <= Len(table)
  /\ Len(s) >= 1 /\ s[1] = None
  /\ Len(s) = IF n = 0 THEN 1 ELSE table[n] + Len(data[n])
  /\ \A k \in 1..n :
       /\ table[k] = IF k = 1 THEN 1 ELSE table[k - 1] + Len(data[k - 1])
       /\ table[k] + Len(data[k]) <= Len(s)
       /\ \A i \in 1..Len(data[k]) :
            s[table[k] + i] = RelocatedValue(data[k][i], table) /\ RelocatesTo(data[k][i], table)

\* One segment more.
LEMMA SegmentCopied ==
  ASSUME NEW data \in Seq(Seq(Elements)), NEW table \in Seq(Nat), NEW n \in 1..Len(data),
         NEW r \in Relocations, SegmentsCopied(n - 1, r.memory, data, table),
         NEW s, SegmentRelocated(r, s, data[n], table), s.err = "ok",
         PlaceError(r.memory, table, n) = "ok"
  PROVE  SegmentsCopied(n, s.memory, data, table)
<1> DEFINE m == r.memory
           t == s.memory
           l(k) == Len(data[k])
<1>1. n \in Nat /\ n >= 1 /\ n - 1 \in Nat /\ Len(table) \in Nat /\ Len(data) \in Nat
  BY LenProperties
<1>2. n <= Len(table) /\ Len(m) = table[n]
  BY <1>1 DEF PlaceError
<1>3. m \in Seq(Relocated) /\ Len(m) \in Nat
  BY LenProperties DEF Relocations
<1>4. /\ Len(t) = Len(m) + l(n)
      /\ \A i \in 1..Len(m) : t[i] = m[i]
      /\ \A i \in 1..l(n) : t[Len(m) + i] = RelocatedValue(data[n][i], table)
                              /\ RelocatesTo(data[n][i], table)
  BY DEF SegmentRelocated
<1>5. \A k \in 1..n : l(k) \in Nat /\ table[k] \in Nat
  <2> SUFFICES ASSUME NEW k \in 1..n PROVE l(k) \in Nat /\ table[k] \in Nat
    OBVIOUS
  <2>1. k \in 1..Len(data) /\ k \in 1..Len(table)
    BY <1>1, <1>2
  <2> QED
    BY <2>1, ElementOfSeq, LenProperties
<1> DEFINE copied(k, q) ==
             /\ table[k] = IF k = 1 THEN 1 ELSE table[k - 1] + Len(data[k - 1])
             /\ table[k] + Len(data[k]) <= Len(q)
             /\ \A i \in 1..Len(data[k]) :
                  /\ q[table[k] + i] = RelocatedValue(data[k][i], table)
                  /\ RelocatesTo(data[k][i], table)
<1>6. /\ Len(m) = IF n - 1 = 0 THEN 1 ELSE table[n - 1] + Len(data[n - 1])
      /\ \A k \in 1..(n - 1) : copied(k, m)
  BY DEF SegmentsCopied
<1> HIDE DEF m, t
<1>7. copied(n, t)
  <2>1. table[n] = IF n = 1 THEN 1 ELSE table[n - 1] + Len(data[n - 1])
    <3>1. n - 1 = 0 <=> n = 1
      BY <1>1
    <3> QED
      BY <1>2, <1>6, <3>1
  <2>2. table[n] + Len(data[n]) <= Len(t)
    <3>1. n \in 1..n
      BY <1>1
    <3>2. l(n) \in Nat /\ table[n] \in Nat
      BY <1>5, <3>1
    <3> QED
      BY <1>2, <1>4, <3>2
  <2> QED
    BY <1>2, <1>4, <2>1, <2>2
<1>8. ASSUME NEW k \in 1..(n - 1)
      PROVE  copied(k, t)
  <2>1. copied(k, m)
    BY <1>6
  <2>2. k \in 1..n /\ n \in 1..n
    BY <1>1
  <2>3. l(k) \in Nat /\ table[k] \in Nat /\ l(n) \in Nat
    BY <1>5, <2>2
  <2> DEFINE x == table[k]
             y == l(k)
             p == Len(m)
             q == Len(t)
             z == l(n)
  <2>4. x \in Nat /\ y \in Nat /\ z \in Nat /\ p \in Nat /\ x + y <= p /\ q = p + z
    BY <1>3, <1>4, <2>1, <2>3
  <2> HIDE DEF x, y, z, p, q
  <2>5. x + y <= q /\ \A i \in 1..y : x + i \in 1..p
    BY <2>4
  <2>6. ASSUME NEW i \in 1..y
        PROVE  t[x + i] = m[x + i]
    BY <1>4, <2>5 DEF p
  <2> USE DEF x, y, q
  <2> QED
    BY <2>1, <2>5, <2>6
<1>9. \A k \in 1..n : k = n \/ k \in 1..(n - 1)
  BY <1>1
<1>10. \A k \in 1..n : copied(k, t)
  BY <1>7, <1>8, <1>9
<1>11. Len(t) = IF n = 0 THEN 1 ELSE table[n] + Len(data[n])
  BY <1>1, <1>2, <1>4
<1> HIDE DEF copied
<1>13. Len(t) >= 1 /\ t[1] = None
  <2>1. Len(m) >= 1 /\ m[1] = None
    BY DEF SegmentsCopied, m
  <2>2. l(n) \in Nat
    BY <1>1, <1>5
  <2> HIDE DEF l
  <2>3. 1 \in 1..Len(m) /\ Len(m) + l(n) >= 1
    BY <1>3, <2>1, <2>2
  <2> QED
    BY <1>4, <2>1, <2>3 DEF l
<1>12. SegmentsCopied(n, t, data, table)
  BY <1>2, <1>10, <1>11, <1>13 DEF SegmentsCopied, copied
<1> QED
  BY <1>12 DEF t

\* A relocation that succeeds has copied all the segments.
WellRelocated(s, data, table) ==
  /\ s \in Relocations
  /\ s.err = "ok" => SegmentsCopied(Len(data), s.memory, data, table)

\* relocate_memory, when nothing is relocated yet.
LEMMA RelocateMemoryStep ==
  ASSUME NEW data \in Seq(Seq(Elements)), NEW table \in Seq(Nat)
  PROVE  WellRelocated(RelocateMemory(<< >>, data, table), data, table)
<1> DEFINE N       == Len(data)
           first   == [memory |-> <<None>>, err |-> "ok"]
           F(n, r) == IF r.err # "ok" THEN r
                      ELSE IF PlaceError(r.memory, table, n) # "ok"
                      THEN [r EXCEPT !.err = PlaceError(r.memory, table, n)]
                      ELSE RelocateSegment(r, data[n], table)
           E(f)    == [n \in 0..N |-> IF n = 0 THEN first ELSE F(n, f[n - 1])]
           after   == CHOOSE f : f = E(f)
           S       == Relocations
           step    == [n \in 1..N |-> [r \in S |-> F(n, r)]]
<1>1. RelocateMemory(<< >>, data, table) = after[N]
  BY DEF RelocateMemory
<1>2. N \in Nat /\ \A n \in 1..N : data[n] \in Seq(Elements)
  BY LenProperties, ElementOfSeq
<1>3. first \in S /\ first.err = "ok" /\ Len(first.memory) = 1 /\ first.memory[1] = None
  <2>1. <<None>> \in Seq(Relocated) /\ Len(<<None>>) = 1
    BY DEF Relocated
  <2> QED
    BY <2>1 DEF Relocations, RelocationErrors
<1>4. ASSUME NEW n \in 1..N, NEW r \in S, r.err = "ok", PlaceError(r.memory, table, n) = "ok"
      PROVE  /\ F(n, r) = RelocateSegment(r, data[n], table)
             /\ SegmentRelocated(r, F(n, r), data[n], table)
             /\ F(n, r) \in S
  <2>1. r.memory \in Seq(Relocated)
    BY DEF Relocations
  <2> DEFINE s == RelocateSegment(r, data[n], table)
  <2>2. SegmentRelocated(r, s, data[n], table)
    BY <1>2, <2>1, RelocateSegmentStep
  <2>3. s = [memory |-> s.memory, err |-> s.err] /\ s.err \in RelocationErrors
    BY DEF RelocateSegment, RelocationErrors
  <2>4. F(n, r) = s
    BY <1>4
  <2> HIDE DEF s
  <2>5. s \in S
    BY <2>2, <2>3 DEF SegmentRelocated, Relocations
  <2> QED
    BY <2>2, <2>4, <2>5 DEF s
<1>5. \A n \in 1..N : \A r \in S : F(n, r) \in S
  <2> SUFFICES ASSUME NEW n \in 1..N, NEW r \in S PROVE F(n, r) \in S
    OBVIOUS
  <2>1. CASE r.err # "ok"
    BY <2>1
  <2>2. CASE r.err = "ok" /\ PlaceError(r.memory, table, n) # "ok"
    <3>1. PlaceError(r.memory, table, n) \in RelocationErrors
      BY DEF PlaceError, RelocationErrors
    <3>2. F(n, r) = [r EXCEPT !.err = PlaceError(r.memory, table, n)]
      BY <2>2
    <3> QED
      BY <3>1, <3>2 DEF Relocations
  <2>3. CASE r.err = "ok" /\ PlaceError(r.memory, table, n) = "ok"
    BY <1>4, <2>3
  <2> QED
    BY <2>1, <2>2, <2>3
<1>6. ASSUME NEW n \in 1..N, NEW r \in S, F(n, r).err = "ok"
      PROVE  r.err = "ok" /\ PlaceError(r.memory, table, n) = "ok"
  BY <1>6 DEF Relocations
<1> HIDE DEF first, F, N, S
<1>7. step \in [1..N -> [S -> S]]
  BY <1>5
<1>8. \A n \in 1..N : \A r \in S : step[n][r] = F(n, r)
  OBVIOUS
<1> HIDE DEF step
<1>9. Recursions(N, S, first, step) # {}
  BY <1>2, <1>3, <1>7, RecursionExists
<1>10. PICK f \in [0..N -> S] : f[0] = first /\ \A n \in 1..N : f[n] = step[n][f[n - 1]]
  BY <1>9 DEF Recursions
<1>11. f = E(f)
  <2>0. ASSUME NEW n \in 1..N
        PROVE  f[n] = F(n, f[n - 1])
    <3>1. n - 1 \in 0..N
      BY <1>2
    <3>2. f[n - 1] \in S /\ f[n] = step[n][f[n - 1]]
      BY <1>10, <3>1
    <3> QED
      BY <1>8, <3>2
  <2>1. \A n \in 0..N : f[n] = IF n = 0 THEN first ELSE F(n, f[n - 1])
    <3>1. \A n \in 0..N : n = 0 \/ n \in 1..N
      BY <1>2
    <3> QED
      BY <1>10, <2>0, <3>1
  <2> QED
    BY <2>1, <1>10
<1>12. after = E(after)
  BY <1>11
<1> HIDE DEF after
<1>13. after[0] = first /\ \A n \in 1..N : after[n] = F(n, after[n - 1])
  BY <1>2, <1>12
<1>14. \A n \in 0..N : after[n] \in S
  <2>1. \A n \in 1..N : after[n - 1] \in S => after[n] \in S
    BY <1>5, <1>13
  <2> QED
    BY <2>1, <1>2, <1>3, <1>13, RecursionStays
<1> DEFINE copied(n) == after[n].err = "ok" => SegmentsCopied(n, after[n].memory, data, table)
           g == [n \in 0..N |-> IF copied(n) THEN TRUE ELSE FALSE]
<1>15. copied(0)
  <2>1. Len(table) \in Nat
    BY LenProperties
  <2>2. SegmentsCopied(0, first.memory, data, table)
    BY <1>3, <2>1 DEF SegmentsCopied
  <2> QED
    BY <1>13, <2>2
<1>16. ASSUME NEW n \in 1..N, copied(n - 1)
       PROVE  copied(n)
  <2> SUFFICES ASSUME after[n].err = "ok"
               PROVE  SegmentsCopied(n, after[n].memory, data, table)
    OBVIOUS
  <2> DEFINE r == after[n - 1]
             s == after[n]
  <2>1. n - 1 \in 0..N /\ n \in 0..N
    BY <1>2
  <2>2. r \in S /\ s \in S /\ s = F(n, r)
    BY <1>13, <1>14, <2>1
  <2>3. r.err = "ok" /\ PlaceError(r.memory, table, n) = "ok"
    <3> HIDE DEF r, s
    <3>1. F(n, r).err = "ok"
      BY <2>2 DEF s
    <3> QED
      BY <1>6, <2>2, <3>1
  <2>4. SegmentRelocated(r, s, data[n], table)
    <3> HIDE DEF r, s
    <3> QED
      BY <1>4, <2>2, <2>3
  <2>5. SegmentsCopied(n - 1, r.memory, data, table)
    BY <1>16, <2>3
  <2>6. s.err = "ok" /\ n \in 1..Len(data) /\ r \in Relocations
    BY <2>2 DEF N, S
  <2> HIDE DEF r, s
  <2>7. SegmentsCopied(n, s.memory, data, table)
    BY <2>3, <2>4, <2>5, <2>6, SegmentCopied
  <2> QED
    BY <2>7 DEF s
<1>17. copied(N)
  <2> HIDE DEF copied
  <2>1. g[0] \in {TRUE}
    <3>1. 0 \in 0..N
      BY <1>2
    <3> QED
      BY <1>15, <3>1
  <2>2. \A n \in 1..N : g[n - 1] \in {TRUE} => g[n] \in {TRUE}
    <3> SUFFICES ASSUME NEW n \in 1..N, g[n - 1] \in {TRUE} PROVE g[n] \in {TRUE}
      OBVIOUS
    <3>1. n - 1 \in 0..N /\ n \in 0..N
      BY <1>2
    <3>2. (g[n - 1] = TRUE <=> copied(n - 1)) /\ (g[n] = TRUE <=> copied(n))
      BY <3>1
    <3>3. copied(n - 1)
      BY <3>2
    <3>4. copied(n)
      BY <1>16, <3>3
    <3> QED
      BY <3>2, <3>4
  <2>3. \A n \in 0..N : g[n] \in {TRUE}
    <3> HIDE DEF g
    <3> QED
      BY <1>2, <2>1, <2>2, RecursionStays
  <2>4. N \in 0..N
    BY <1>2
  <2>5. (g[N] = TRUE <=> copied(N)) /\ g[N] \in {TRUE}
    BY <2>3, <2>4
  <2> QED
    BY <2>5
<1>18. after[N] \in S
  BY <1>2, <1>14
<1>19. WellRelocated(after[N], data, table)
  BY <1>17, <1>18 DEF WellRelocated, N, S
<1> QED
  BY <1>1, <1>19

\* relocate_segments: as many addresses as there are sizes.
LEMMA TableKnown ==
  ASSUME NEW sizes \in Seq(Nat)
  PROVE  RelocationTable(sizes) \in Seq(Nat) /\ Len(RelocationTable(sizes)) = Len(sizes)
<1> DEFINE N       == Len(sizes)
           first   == 1
           F(n, x) == x + sizes[n]
           E(f)    == [n \in 0..N |-> IF n = 0 THEN first ELSE F(n, f[n - 1])]
           after   == CHOOSE f : f = E(f)
           S       == Nat
           step    == [n \in 1..N |-> [x \in S |-> F(n, x)]]
           table   == [n \in 1..N |-> after[n - 1]]
<1>1. RelocationTable(sizes) = table
  BY DEF RelocationTable
<1>2. N \in Nat /\ first \in S /\ \A n \in 1..N : sizes[n] \in Nat
  BY LenProperties, ElementOfSeq
<1>3. \A n \in 1..N : \A x \in S : F(n, x) \in S
  BY <1>2
<1> HIDE DEF first, F, N, S
<1>4. step \in [1..N -> [S -> S]]
  BY <1>3
<1>5. \A n \in 1..N : \A x \in S : step[n][x] = F(n, x)
  OBVIOUS
<1> HIDE DEF step
<1>6. Recursions(N, S, first, step) # {}
  BY <1>2, <1>4, RecursionExists
<1>7. PICK f \in [0..N -> S] : f[0] = first /\ \A n \in 1..N : f[n] = step[n][f[n - 1]]
  BY <1>6 DEF Recursions
<1>8. f = E(f)
  <2>1. ASSUME NEW n \in 1..N
        PROVE  f[n] = F(n, f[n - 1])
    <3>1. n - 1 \in 0..N
      BY <1>2
    <3>2. f[n - 1] \in S /\ f[n] = step[n][f[n - 1]]
      BY <1>7, <3>1
    <3> QED
      BY <1>5, <3>2
  <2>2. \A n \in 0..N : f[n] = IF n = 0 THEN first ELSE F(n, f[n - 1])
    <3>1. \A n \in 0..N : n = 0 \/ n \in 1..N
      BY <1>2
    <3> QED
      BY <1>7, <2>1, <3>1
  <2> QED
    BY <2>2, <1>7
<1>9. after = E(after)
  BY <1>8
<1> HIDE DEF after
<1>10. after[0] = first /\ \A n \in 1..N : after[n] = F(n, after[n - 1])
  BY <1>2, <1>9
<1>11. \A n \in 0..N : after[n] \in S
  <2>1. \A n \in 1..N : after[n - 1] \in S => after[n] \in S
    BY <1>3, <1>10
  <2> QED
    BY <2>1, <1>2, <1>10, RecursionStays
<1>12. table \in [1..N -> S]
  <2>1. \A n \in 1..N : n - 1 \in 0..N
    BY <1>2
  <2> QED
    BY <1>11, <2>1
<1>13. table \in Seq(S) /\ Len(table) = N
  BY <1>2, <1>12, SeqDef, LenProperties
<1> QED
  BY <1>1, <1>13 DEF S, N

\* relocate_trace.
LEMMA TraceRelocated ==
  ASSUME NEW trace \in Seq(TraceEntries), NEW table \in Seq(Nat)
  PROVE  RelocateTrace(trace, table).val \in Maybe(Seq(RelocatedEntries))
<1> DEFINE number(a) == table[a.seg + 1] + a.off
           entry(k) == [pc |-> number(trace[k].pc), ap |-> number(trace[k].ap),
                        fp |-> number(trace[k].fp)]
           missing == \E k \in 1..Len(trace) :
                        \E a \in {trace[k].pc, trace[k].ap, trace[k].fp} : Len(table) <= a.seg
           all == [k \in 1..Len(trace) |-> entry(k)]
<1>1. RelocateTrace(trace, table) = IF missing THEN Err("NoRelocationFound") ELSE Ok(all)
  BY DEF RelocateTrace
<1>2. CASE missing
  BY <1>1, <1>2 DEF Err, Maybe
<1>3. CASE ~missing
  <2>1. Len(trace) \in Nat /\ Len(table) \in Nat
    BY LenProperties
  <2>2. ASSUME NEW a \in Relocatables, ~(Len(table) <= a.seg)
        PROVE  number(a) \in Int
    <3>1. a.seg \in Nat /\ a.off \in Nat
      BY RelocatableFields
    <3>2. a.seg + 1 \in 1..Len(table)
      BY <2>1, <2>2, <3>1
    <3>3. table[a.seg + 1] \in Nat
      BY <3>2, ElementOfSeq
    <3> QED
      BY <3>1, <3>3
  <2>3. ASSUME NEW k \in 1..Len(trace)
        PROVE  entry(k) \in RelocatedEntries
    <3>1. trace[k] \in TraceEntries
      BY ElementOfSeq
    <3>2. trace[k].pc \in Relocatables /\ trace[k].ap \in Relocatables
          /\ trace[k].fp \in Relocatables
      BY <3>1 DEF TraceEntries
    <3>3. /\ ~(Len(table) <= trace[k].pc.seg) /\ ~(Len(table) <= trace[k].ap.seg)
          /\ ~(Len(table) <= trace[k].fp.seg)
      BY <1>3
    <3> HIDE DEF number
    <3>4. number(trace[k].pc) \in Int /\ number(trace[k].ap) \in Int
          /\ number(trace[k].fp) \in Int
      BY <2>2, <3>2, <3>3
    <3> QED
      BY <3>4 DEF RelocatedEntries
  <2> HIDE DEF entry, missing
  <2>4. all \in [1..Len(trace) -> RelocatedEntries]
    BY <2>3
  <2>5. all \in Seq(RelocatedEntries)
    BY <2>1, <2>4, SeqDef
  <2> HIDE DEF all
  <2> QED
    BY <1>1, <1>3, <2>5 DEF Ok, Maybe
<1> QED
  BY <1>2, <1>3

\* relocate.
LEMMA RunInvRelocate == RunInv /\ Relocate => RunInv'
<1> SUFFICES ASSUME RunInv, Relocate PROVE RunInv'
  OBVIOUS
<1> DEFINE sized == WithSizes(vm)
           table == RelocationTable(sized.segment_used_sizes)
           m     == RelocateMemory(runner.relocated_memory, vm.memory.data, table)
           t     == IF vm.trace = None THEN Ok(None) ELSE RelocateTrace(vm.trace, table)
           err   == IF m.err # "ok" THEN m.err ELSE t.err
<1>1. /\ phase = "verified" /\ phase' = (IF err = "ok" THEN "relocated" ELSE "failed")
      /\ error' = err /\ program' = program /\ output' = output /\ vm' = sized
      /\ runner' = [runner EXCEPT !.relocated_memory = m.memory,
                                  !.relocated_trace = IF m.err = "ok" THEN t.val ELSE @]
  BY DEF Relocate, Call
<1>2. /\ VmSound(vm) /\ BasesKnown(vm) /\ NamesKept(vm, program.builtins)
      /\ Checked(vm) /\ HashesHold(vm) /\ DeductionsHold
      /\ runner.relocated_memory = << >>
      /\ (~EarlyOutput => vm.segment_used_sizes = None)
      /\ runner \in RunnerStates /\ output \in Seq(Int) /\ program \in Programs
  BY <1>1 DEF RunInv, RunTypes, PhaseInv, Built, Finished
<1>3. /\ VmSound(sized)
      /\ sized.segment_used_sizes = (IF vm.segment_used_sizes = None
                                     THEN EffectiveSizes(vm.memory.data)
                                     ELSE vm.segment_used_sizes)
      /\ sized.segment_used_sizes \in Seq(Nat)
      /\ sized.memory = vm.memory
      /\ sized.num_segments = vm.num_segments /\ sized.builtin_runners = vm.builtin_runners
      /\ sized.verified_addresses = vm.verified_addresses
  BY <1>2, WithSizesStep
<1>4. table \in Seq(Nat)
  BY <1>3, TableKnown
<1> HIDE DEF sized, table
<1>5. m \in Relocations
  <2>1. vm.memory.data \in Seq(Seq(Elements))
    BY <1>2, SegmentsCounted DEF VmSound, MachineMemory
  <2>2. m = RelocateMemory(<< >>, vm.memory.data, table)
    BY <1>2
  <2>3. WellRelocated(RelocateMemory(<< >>, vm.memory.data, table), vm.memory.data, table)
    BY <1>4, <2>1, RelocateMemoryStep
  <2> QED
    BY <2>2, <2>3 DEF WellRelocated
<1>6. t.val \in Maybe(Seq(RelocatedEntries))
  <2>1. vm.trace \in Maybe(Seq(TraceEntries))
    BY <1>2 DEF VmSound, Machines
  <2>2. CASE vm.trace = None
    BY <2>2 DEF Ok, Maybe
  <2>3. CASE vm.trace # None
    BY <1>4, <2>1, <2>3, TraceRelocated DEF Maybe
  <2> QED
    BY <2>2, <2>3
<1> HIDE DEF m, t, err
<1>7. m.memory \in Seq(Int \union {None})
  BY <1>5 DEF Relocations, Relocated
<1>8. runner' \in RunnerStates
  BY <1>1, <1>2, <1>6, <1>7 DEF RunnerStates
<1>9. BasesKnown(vm') /\ NamesKept(vm', program.builtins) /\ Checked(vm') /\ HashesHold(vm')
      /\ VmSound(vm')
  BY <1>1, <1>2, <1>3 DEF BasesKnown, NamesKept, Checked, HashesHold
<1>10. CASE err # "ok"
  BY <1>1, <1>2, <1>8, <1>9, <1>10, RunInvFails
<1>11. CASE err = "ok"
  <2>1. phase' = "relocated" /\ error' = "ok"
    BY <1>1, <1>11
  <2>2. RunTypes'
    BY <1>1, <1>2, <1>8, <2>1 DEF RunTypes, Phases
  <2>3. DeductionsHold'
    BY <1>1, <1>2, <1>3 DEF DeductionsHold, Assigned, Data
  <2>4. ~EarlyOutput => SizesKept(vm')
    BY <1>1, <1>2, <1>3 DEF SizesKept
  <2>5. PhaseInv'
    BY <1>1, <1>9, <2>1, <2>3, <2>4 DEF PhaseInv, Built, Running, Finished
  <2> QED
    BY <1>9, <2>2, <2>5 DEF RunInv
<1> QED
  BY <1>10, <1>11

-----------------------------------------------------------------------------
(* The output.                                                             *)

\* What is written is a sequence of integers.
LEMMA IntsKnown ==
  ASSUME NEW data, \A a \in Relocatables : Cell(data, a) \in Elements,
         NEW base \in Relocatables, NEW size \in Nat
  PROVE  IntsOf(data, base, size) \in Seq(Int)
<1> DEFINE value(n) == Cell(data, [base EXCEPT !.off = @ + n - 1])
           F(n, x)  == IF IsInt(value(n)) THEN Append(x, ToFieldElement(value(n).num)) ELSE x
           first    == << >>
           E(f)     == [n \in 0..size |-> IF n = 0 THEN first ELSE F(n, f[n - 1])]
           after    == CHOOSE f : f = E(f)
           S        == Seq(Int)
           step     == [n \in 1..size |-> [x \in S |-> F(n, x)]]
<1>1. IntsOf(data, base, size) = after[size]
  BY DEF IntsOf
<1>2. first \in S
  OBVIOUS
<1>3. \A n \in 1..size : \A x \in S : F(n, x) \in S
  <2> SUFFICES ASSUME NEW n \in 1..size, NEW x \in S PROVE F(n, x) \in S
    OBVIOUS
  <2>1. value(n) \in Elements
    <3>1. base.off \in Nat /\ base.off + n - 1 \in Nat
      BY RelocatableFields
    <3>2. [base EXCEPT !.off = @ + n - 1] \in Relocatables
      BY <3>1 DEF Relocatables
    <3> QED
      BY <3>2
  <2>2. ASSUME IsInt(value(n)) PROVE ToFieldElement(value(n).num) \in Int
    <3>1. value(n).num \in Int
      BY <2>1, <2>2 DEF Elements, Values, Ints, Relocatables, IsInt
    <3> HIDE DEF value
    <3>2. Prime \in Nat /\ Prime # 0 /\ Prime \div 2 \in Nat
      BY FieldAssumption
    <3> DEFINE sum == value(n).num + Prime \div 2
    <3>3. sum \in Int
      BY <3>1, <3>2
    <3> HIDE DEF sum
    <3>4. TruncMod(sum, Prime) \in Int
      BY <3>3, TruncTypes
    <3> QED
      BY <3>2, <3>4 DEF ToFieldElement, sum
  <2> HIDE DEF value
  <2> QED
    BY <2>2, AppendProperties
<1> HIDE DEF first, F, S
<1>4. step \in [1..size -> [S -> S]]
  BY <1>3
<1>5. \A n \in 1..size : \A x \in S : step[n][x] = F(n, x)
  OBVIOUS
<1> HIDE DEF step
<1>6. Recursions(size, S, first, step) # {}
  BY <1>2, <1>4, RecursionExists
<1>7. PICK f \in [0..size -> S] : f[0] = first /\ \A n \in 1..size : f[n] = step[n][f[n - 1]]
  BY <1>6 DEF Recursions
<1>8. f = E(f)
  <2>1. ASSUME NEW n \in 1..size
        PROVE  f[n] = F(n, f[n - 1])
    <3>1. n - 1 \in 0..size
      OBVIOUS
    <3>2. f[n - 1] \in S /\ f[n] = step[n][f[n - 1]]
      BY <1>7, <3>1
    <3> QED
      BY <1>5, <3>2
  <2>2. \A n \in 0..size : f[n] = IF n = 0 THEN first ELSE F(n, f[n - 1])
    <3>1. \A n \in 0..size : n = 0 \/ n \in 1..size
      OBVIOUS
    <3> QED
      BY <1>7, <2>1, <3>1
  <2> QED
    BY <2>2, <1>7
<1>9. after = E(after)
  BY <1>8
<1> HIDE DEF after
<1>10. after[0] = first /\ \A n \in 1..size : after[n] = F(n, after[n - 1])
  BY <1>9
<1>11. \A n \in 0..size : after[n] \in S
  <2>1. \A n \in 1..size : after[n - 1] \in S => after[n] \in S
    BY <1>3, <1>10
  <2> QED
    BY <2>1, <1>2, <1>10, RecursionStays
<1>12. after[size] \in S
  BY <1>11
<1> QED
  BY <1>1, <1>12 DEF S

\* The index of a segment that exists among the sizes.
LEMMA SizeKnown ==
  ASSUME NEW sizes \in Seq(Nat), NEW a \in Relocatables, ~(a.seg >= Len(sizes))
  PROVE  sizes[a.seg + 1] \in Nat
<1>1. a.seg \in Nat /\ Len(sizes) \in Nat
  BY RelocatableFields, LenProperties
<1>2. a.seg + 1 \in 1..Len(sizes)
  BY <1>1
<1> QED
  BY <1>2, ElementOfSeq

\* write_output.
LEMMA RunInvWriteOutput == RunInv /\ WriteOutput => RunInv'
<1> SUFFICES ASSUME RunInv, WriteOutput PROVE RunInv'
  OBVIOUS
<1> DEFINE sized == IF HasOutput THEN WithSizes(vm) ELSE vm
           base  == vm.builtin_runners[1].base
           err   == IF ~HasOutput THEN "ok"
                    ELSE IF base = None THEN "UninitializedBase"
                    ELSE IF base.seg >= Len(sized.segment_used_sizes) THEN "panic"
                    ELSE "ok"
<1>1. /\ IF EarlyOutput THEN phase \notin {"given", "failed"} ELSE phase = "relocated"
      /\ vm' = sized
      /\ output' = IF err # "ok" THEN output
                   ELSE IF ~HasOutput THEN << >>
                   ELSE IntsOf(vm.memory.data, base, sized.segment_used_sizes[base.seg + 1])
      /\ phase' = IF err = "panic" THEN "failed" ELSE phase
      /\ error' = IF err = "panic" THEN "panic" ELSE error
      /\ program' = program /\ runner' = runner
  BY DEF WriteOutput
<1>2. /\ phase \in Phases \ {"given", "failed"} /\ VmSound(vm) /\ runner \in RunnerStates
      /\ output \in Seq(Int) /\ program \in Programs /\ error = "ok"
  BY <1>1 DEF RunInv, RunTypes, Phases
<1>3. /\ VmSound(sized) /\ sized.memory = vm.memory
      /\ sized.num_segments = vm.num_segments /\ sized.builtin_runners = vm.builtin_runners
      /\ sized.verified_addresses = vm.verified_addresses /\ sized.hints = vm.hints
      /\ sized.current_step = vm.current_step
      /\ HasOutput => sized.segment_used_sizes \in Seq(Nat)
      /\ sized.segment_used_sizes = vm.segment_used_sizes
           \/ (vm.segment_used_sizes = None
                 /\ sized.segment_used_sizes = EffectiveSizes(vm.memory.data))
  <2>1. CASE HasOutput
    BY <1>2, <2>1, WithSizesStep
  <2>2. CASE ~HasOutput
    BY <1>2, <2>2
  <2> QED
    BY <2>1, <2>2
<1>4. output' \in Seq(Int)
  <2>1. CASE err # "ok"
    BY <1>1, <1>2, <2>1
  <2>2. CASE ~HasOutput
    BY <1>1, <2>2
  <2>3. CASE err = "ok" /\ HasOutput
    <3>1. base # None /\ ~(base.seg >= Len(sized.segment_used_sizes))
      BY <2>3
    <3>2. base \in Relocatables
      <4>1. vm.builtin_runners \in Runners
        BY <1>2 DEF VmSound, Machines
      <4>2. 1 \in 1..Len(vm.builtin_runners)
        BY <2>3, <4>1, LenProperties DEF HasOutput, Runners
      <4>3. vm.builtin_runners[1] \in [name : STRING, base : Maybe(Relocatables)]
        BY <4>1, <4>2, ElementOfSeq DEF Runners
      <4> QED
        BY <3>1, <4>3 DEF Maybe
    <3>3. \A a \in Relocatables : Cell(vm.memory.data, a) \in Elements
      <4>1. MachineMemory(vm.memory, vm.num_segments)
        BY <1>2 DEF VmSound
      <4> QED
        BY <4>1, KnownKinds DEF MachineMemory, CellsKnown, Maybe, Elements
    <3> HIDE DEF sized, base
    <3>4. sized.segment_used_sizes[base.seg + 1] \in Nat
      BY <1>3, <2>3, <3>1, <3>2, SizeKnown
    <3>5. IntsOf(vm.memory.data, base, sized.segment_used_sizes[base.seg + 1]) \in Seq(Int)
      BY <3>2, <3>3, <3>4, IntsKnown
    <3> QED
      BY <1>1, <2>3, <3>5
  <2> QED
    BY <2>1, <2>2, <2>3
<1> HIDE DEF sized, err, base
<1>5. VmSound(vm')
  BY <1>1, <1>3
<1>6. CASE err = "panic"
  BY <1>1, <1>2, <1>4, <1>5, <1>6, RunInvFails
<1>7. CASE err # "panic"
  <2>1. phase' = phase /\ error' = error /\ runner' = runner /\ program' = program
    BY <1>1, <1>7
  <2>2. RunTypes'
    BY <1>2, <1>4, <2>1 DEF RunTypes, RunInv
  <2>3. DeductionsHold'
    BY <1>1, <1>3, <2>1 DEF RunInv, PhaseInv, DeductionsHold, Assigned, Data
  <2>4. ASSUME ~EarlyOutput PROVE phase' = "relocated" /\ SizesKept(vm')
    <3>1. phase = "relocated" /\ SizesKept(vm)
      BY <1>1, <2>4 DEF RunInv, PhaseInv
    <3> QED
      BY <1>1, <1>3, <2>1, <3>1 DEF SizesKept
  <2>5. /\ phase = "new" => Blank(vm')
        /\ Built => BasesKnown(vm')
        /\ NamesKept(vm', program.builtins)
        /\ phase \in {"segments", "entrypoint"} =>
             vm'.verified_addresses = {} /\ vm'.current_step = 0 /\ vm'.hints = << >>
    <3>1. /\ phase = "new" => Blank(vm)
          /\ Built => BasesKnown(vm)
          /\ NamesKept(vm, program.builtins)
          /\ phase \in {"segments", "entrypoint"} =>
               vm.verified_addresses = {} /\ vm.current_step = 0 /\ vm.hints = << >>
      BY <1>2 DEF RunInv, PhaseInv
    <3> QED
      BY <1>1, <1>3, <3>1 DEF Blank, BasesKnown, NamesKept
  <2>6. /\ (Running \/ Finished) => Checked(vm')
        /\ phase \in {"running", "halted"} => HashesStored(vm')
        /\ phase \in {"verified", "relocated"} => HashesHold(vm')
    <3>1. /\ (Running \/ Finished) => Checked(vm)
          /\ phase \in {"running", "halted"} => HashesStored(vm)
          /\ phase \in {"verified", "relocated"} => HashesHold(vm)
      BY DEF RunInv, PhaseInv
    <3> QED
      BY <1>1, <1>3, <3>1 DEF Checked, HashesStored, HashesHold
  <2>7. /\ phase = "segments" =>
             /\ runner.program_base # None /\ runner.program_base.seg < vm'.num_segments
             /\ runner.execution_base # None /\ runner.execution_base.seg < vm'.num_segments
        /\ phase = "entrypoint" =>
             /\ runner.initial_pc # None /\ runner.initial_pc.seg < vm'.num_segments
             /\ runner.initial_fp # None /\ runner.initial_fp.seg < vm'.num_segments
        /\ phase \notin {"relocated", "failed"} => runner.relocated_memory = << >>
    BY <1>1, <1>3 DEF RunInv, PhaseInv
  <2>8. PhaseInv'
    BY <1>2, <2>1, <2>3, <2>4, <2>5, <2>6, <2>7 DEF PhaseInv, Built, Running, Finished
  <2> QED
    BY <1>5, <2>2, <2>8 DEF RunInv
<1> QED
  BY <1>6, <1>7

-----------------------------------------------------------------------------
(* The invariant holds.                                                    *)

\* Every call keeps the invariant, and so does none.
LEMMA RunInvNext == RunInv /\ [Next]_vars => RunInv'
<1> SUFFICES ASSUME RunInv, [Next]_vars PROVE RunInv'
  OBVIOUS
<1>1. CASE New
  BY <1>1, RunInvNew
<1>2. CASE InitializeSegments
  BY <1>2, RunInvSegments
<1>3. CASE InitializeMainEntrypoint
  BY <1>3, RunInvEntrypoint
<1>4. CASE InitializeVm
  BY <1>4, RunInvVm
<1>5. CASE Step
  BY <1>5, RunInvStep
<1>6. CASE ReachFinalPc
  BY <1>6, RunInvReach
<1>7. CASE VerifyRun
  BY <1>7, RunInvVerify
<1>8. CASE Relocate
  BY <1>8, RunInvRelocate
<1>9. CASE WriteOutput
  BY <1>9, RunInvWriteOutput
<1>10. CASE UNCHANGED vars
  <2>1. phase' = phase /\ error' = error /\ program' = program /\ runner' = runner
        /\ vm' = vm /\ output' = output
    BY <1>10 DEF vars
  <2>2. RunTypes' /\ VmSound(vm') /\ DeductionsHold'
    BY <2>1 DEF RunInv, RunTypes, PhaseInv, DeductionsHold, Assigned, Data
  <2>3. PhaseInv'
    BY <2>1, <2>2 DEF RunInv, PhaseInv, Built, Running, Finished
  <2> QED
    BY <2>2, <2>3 DEF RunInv
<1> QED
  BY <1>1, <1>2, <1>3, <1>4, <1>5, <1>6, <1>7, <1>8, <1>9, <1>10 DEF Next

\* The invariant of a run.
LEMMA RunInvariant == Spec => []RunInv
<1>1. Init => RunInv
  BY RunInvInit
<1>2. RunInv /\ [Next]_vars => RunInv'
  BY RunInvNext
<1> QED
  BY <1>1, <1>2, PTL DEF Spec

-----------------------------------------------------------------------------
(* The properties of a run.                                                *)

\* The assigned cells are addresses whose cell is a value of the machine.
LEMMA AssignedKnown ==
  ASSUME VmSound(vm), NEW a \in Assigned
  PROVE  a \in Relocatables /\ Cell(Data, a) \in Known(vm.num_segments)
<1>1. MachineMemory(vm.memory, vm.num_segments)
  BY DEF VmSound
<1>2. a \in Relocatables /\ Cell(Data, a) # None
  BY <1>1 DEF MachineMemory, MemoryInv, Assigned, Data
<1> QED
  BY <1>1, <1>2 DEF MachineMemory, CellsKnown, Data, Maybe

\* The state of a run has its types at any moment, whatever the program does.
THEOREM RunTyped == Spec => []TypeOK
<1>1. RunInv => TypeOK
  <2> SUFFICES ASSUME RunInv PROVE TypeOK
    OBVIOUS
  <2>1. RunTypes /\ VmSound(vm) /\ vm \in Machines /\ vm.current_step \in Nat
        /\ MachineMemory(vm.memory, vm.num_segments)
    BY DEF RunInv, VmSound, Machines
  <2>2. /\ phase \in {"given", "new", "segments", "entrypoint", "running", "halted", "verified",
                      "relocated", "failed"}
        /\ (error # "ok") = (phase = "failed")
        /\ runner.relocated_memory \in Seq(Int \union {None})
        /\ output \in Seq(Int)
    BY <2>1 DEF RunTypes, Phases, RunnerStates
  <2>3. {vm.pc, vm.fp} \subseteq AddressOrInt /\ vm.ap \in Relocatables
    BY <2>1 DEF Machines, Values, AddressOrInt
  <2>4. vm.memory \in [data : Seq(Seq(Values \union {None})),
                       validated_addresses : SUBSET Relocatables,
                       validation_rules : SUBSET Nat]
    BY <2>1 DEF Machines, Memories, Elements
  <2>5. /\ vm.num_segments = Len(Data)
        /\ vm.segment_used_sizes \in Seq(Nat) \union {None}
        /\ vm.verified_addresses \subseteq Relocatables
    BY <2>1 DEF Machines, MachineMemory, Data, Maybe
  <2>6. vm.trace \in Seq([pc : Relocatables, ap : Relocatables, fp : Relocatables])
                       \union {None}
    BY <2>1 DEF Machines, Maybe, TraceEntries
  <2>7. vm.current_step \in 0..MaxSteps
    BY <2>1, RunAssumption DEF VmSound
  <2> QED
    BY <2>2, <2>3, <2>4, <2>5, <2>6, <2>7 DEF TypeOK
<1> QED
  BY <1>1, RunInvariant, PTL

\* No step of a run makes an address up: the segment of every address in a
\* register or in a cell has been added before.
THEOREM RunAddressesExist == Spec => []AddressesExist
<1>1. RunInv => AddressesExist
  <2> SUFFICES ASSUME RunInv,
                      NEW v \in {vm.pc, vm.ap, vm.fp} \union {Cell(Data, a) : a \in Assigned},
                      IsRel(v), vm.num_segments > 0
               PROVE  v.seg < vm.num_segments
    BY DEF AddressesExist
  <2>1. VmSound(vm)
    BY DEF RunInv
  <2>2. v \in Known(vm.num_segments)
    BY <2>1, AssignedKnown DEF VmSound, MachineInv
  <2> QED
    BY <2>2, KnownKinds
<1> QED
  BY <1>1, RunInvariant, PTL

\* From the start of the program on, every assigned cell of a range check's
\* segment is in the range, however it got there.
THEOREM RunRangeChecksHold == Spec => []RangeChecksHold
<1>1. RunInv => RangeChecksHold
  <2> SUFFICES ASSUME RunInv, Running \/ Finished, NEW a \in Assigned,
                      NEW k \in RunnersOf(vm.builtin_runners, a.seg),
                      vm.builtin_runners[k].name = "range_check"
               PROVE  InRange(Cell(Data, a))
    BY DEF RangeChecksHold
  <2>1. VmSound(vm) /\ Checked(vm)
    BY DEF RunInv, PhaseInv
  <2>2. a \in Relocatables /\ Cell(vm.memory.data, a) # None
    BY <2>1, AssignedKnown DEF Assigned, Data
  <2>3. a.seg \in RuledSegments(vm.builtin_runners)
    BY DEF RunnersOf, RuledSegments
  <2>4. a \in vm.memory.validated_addresses
    BY <2>1, <2>2, <2>3 DEF Checked
  <2> QED
    BY <2>1, <2>4 DEF VmSound, MachineMemory, MemoryInv, Data
<1> QED
  BY <1>1, RunInvariant, PTL

\* What the pedersen runner has handed out is in its cell, so that not looking
\* at the cell again loses nothing.
THEOREM RunHashesAreStored == Spec => []VerifiedHashesAreStored
<1>1. RunInv => VerifiedHashesAreStored
  <2> SUFFICES ASSUME RunInv, Running \/ Finished, NEW a \in vm.verified_addresses
               PROVE  LET x == Back(vm.memory, a, 2)
                          y == Back(vm.memory, a, 1)
                      IN  /\ IsInt(x) /\ IsInt(y)
                          /\ Cell(Data, a) \in {IntValue(Pedersen(x.num, y.num))} \union
                                               (IF Running THEN {} ELSE {None})
    BY DEF VerifiedHashesAreStored
  <2>1. CASE phase \in {"running", "halted"}
    BY <2>1 DEF RunInv, PhaseInv, HashesStored, HasInputs, HashOf, Data
  <2>2. CASE phase \in {"verified", "relocated"}
    BY <2>2 DEF RunInv, PhaseInv, HashesHold, HasInputs, HashOf, Data, Running
  <2> QED
    BY <2>1, <2>2 DEF Running, Finished
<1> QED
  BY <1>1, RunInvariant, PTL

\* A verified run has, in every instance of a builtin, the results that belong
\* to its inputs, or none.
THEOREM RunDeductionsHold == Spec => []DeductionsHold
<1>1. RunInv => DeductionsHold
  BY DEF RunInv, PhaseInv
<1> QED
  BY <1>1, RunInvariant, PTL

\* The output is the first builtin of a program that has it.
LEMMA OutputFirst ==
  ASSUME NEW builtins \in Seq(STRING), NewError(builtins) = "ok",
         NEW i \in 1..Len(builtins), builtins[i] = "output"
  PROVE  Len(builtins) > 0 /\ builtins[1] = "output"
<1>1. PICK place \in [1..Len(builtins) -> 1..Len(BuiltinOrderedList)] :
        /\ \A j \in 1..Len(builtins) : BuiltinOrderedList[place[j]] = builtins[j]
        /\ \A j, k \in 1..Len(builtins) : j < k => place[j] < place[k]
  BY DEF NewError, IsSubsequence
<1>2. Len(builtins) \in Nat /\ i \in Nat /\ 1 <= i /\ i <= Len(builtins)
  BY LenProperties
<1>3. Len(BuiltinOrderedList) = 6
  BY DEF BuiltinOrderedList
<1>4. place[i] \in 1..6 /\ BuiltinOrderedList[place[i]] = "output"
  BY <1>1, <1>3
<1>5. place[i] = 1
  BY <1>4 DEF BuiltinOrderedList
<1>6. i = 1
  <2>1. CASE i > 1
    <3>1. 1 \in 1..Len(builtins) /\ 1 < i
      BY <1>2, <2>1
    <3>2. place[1] \in 1..6 /\ place[1] < place[i]
      BY <1>1, <1>3, <3>1
    <3> QED
      BY <1>5, <3>2
  <2> QED
    BY <1>2, <2>1
<1> QED
  BY <1>2, <1>6

\* A finished run of a program with an output prints the whole of its segment,
\* as long as the output was not asked for before the end: asking computes the
\* sizes of the segments, once for all.
THEOREM RunOutputComplete ==
  ASSUME ~EarlyOutput
  PROVE  Spec => []OutputComplete
<1>1. RunInv => OutputComplete
  <2> SUFFICES ASSUME RunInv, Finished,
                      NEW i \in 1..Len(program.builtins), program.builtins[i] = "output"
               PROVE  LET base  == vm.builtin_runners[1].base
                          sizes == WithSizes(vm).segment_used_sizes
                      IN  /\ HasOutput
                          /\ base.seg < Len(sizes)
                          /\ IntsOf(Data, base, sizes[base.seg + 1]) =
                               IntsOf(Data, base, Len(Data[base.seg + 1]))
    BY DEF OutputComplete
  <2> DEFINE base  == vm.builtin_runners[1].base
             sizes == WithSizes(vm).segment_used_sizes
             names == WithRunner(program.builtins)
  <2>1. /\ program \in Programs /\ VmSound(vm) /\ BasesKnown(vm)
        /\ NamesKept(vm, program.builtins) /\ SizesKept(vm)
    BY DEF RunInv, RunTypes, PhaseInv, Finished, Built, SizesKept
  <2>2. program.builtins \in Seq(STRING) /\ NewError(program.builtins) = "ok"
    BY <2>1, ProgramKnown DEF NamesKept
  <2>3. Len(program.builtins) > 0 /\ program.builtins[1] = "output"
    BY <2>2, OutputFirst
  <2>4. Len(names) > 0 /\ names[1] = "output" /\ Len(names) \in Nat
    BY <2>2, <2>3, WithRunnerStep, LenProperties
  <2>5. Len(vm.builtin_runners) = Len(names)
        /\ \A j \in 1..Len(vm.builtin_runners) : vm.builtin_runners[j].name = names[j]
    BY <2>1 DEF NamesKept
  <2> HIDE DEF names
  <2>6. 1 \in 1..Len(vm.builtin_runners)
    BY <2>4, <2>5
  <2>7. HasOutput
    BY <2>4, <2>5, <2>6 DEF HasOutput
  <2>8. base \in Relocatables /\ base.seg < vm.num_segments
    BY <2>1, <2>6 DEF BasesKnown
  <2>9. Len(Data) = vm.num_segments /\ Len(Data) \in Nat
    BY <2>1, SegmentsCounted DEF VmSound, MachineMemory, Data
  <2>10. sizes = EffectiveSizes(Data)
    BY <2>1, WithSizesStep DEF SizesKept, Data
  <2>11. Len(sizes) = Len(Data) /\ \A j \in 1..Len(Data) : sizes[j] = Len(Data[j])
    BY <2>9, <2>10 DEF EffectiveSizes
  <2> HIDE DEF sizes, base
  <2>12. base.seg + 1 \in 1..Len(Data) /\ base.seg < Len(sizes)
    BY <2>8, <2>9, <2>11, RelocatableFields
  <2>13. sizes[base.seg + 1] = Len(Data[base.seg + 1])
    BY <2>11, <2>12
  <2> QED
    BY <2>7, <2>12, <2>13 DEF sizes, base
<1> QED
  BY <1>1, RunInvariant, PTL
=============================================================================
