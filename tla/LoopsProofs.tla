----------------------------- MODULE LoopsProofs -----------------------------
(***************************************************************************)
(* Calls of memcpy and memset fill exactly the cells they were asked to,   *)
(* and keep the scopes of their callers, for any heap and any arguments.   *)
(***************************************************************************)
EXTENDS Loops, MemoryCellsProofs, FiniteSetTheorems

-----------------------------------------------------------------------------
(* The invariant.                                                          *)

IsSequence(s) == s \in Seq(Range(s))

\* The scope of a call whose counter is n.
Counter(n) == [name \in {"n"} |-> n]

\* A memory without rules.
OnlyData(d) == [data |-> d, validated_addresses |-> {}, validation_rules |-> {}]

\* A sequence of two: the segments.
Both(f, h) == <<f, h>>

\* The vm of a run of calls, with v's trackers and builtins: its first segment
\* has the frames, its second the heap.
VmWith(v, frames, heap, scopes, depth, fp) ==
  [memory |-> OnlyData(Both(frames, heap)), trackers |-> v.trackers, scopes |-> scopes,
   ap |-> P(0, depth), fp |-> fp, builtin_runners |-> v.builtin_runners,
   references |-> References]

\* The cell of a segment at an offset.
At(segment, off) == IF off < Len(segment) THEN segment[off + 1] ELSE None

Frames  == vm.memory.data[1]
Filling == vm.memory.data[2]
Depth   == Len(Frames)

\* The frames end where ap is.
VmInv ==
  /\ vm = VmWith(vm, Frames, Filling, vm.scopes, Depth, vm.fp)
  /\ Frames \in Seq(Elements) /\ Filling \in Seq(Elements)
  /\ vm.fp \in Values
  /\ IsSequence(vm.scopes) /\ vm.scopes # << >>

\* A call of a routine: its arguments, and the heap and the scopes before it.
IsCall(name, call) ==
  /\ name \in {"memcpy", "memset"}
  /\ call.arguments \in IF name = "memcpy" THEN Copies ELSE Sets
  /\ call.heap \in Seq(Elements)
  /\ IsSequence(call.scopes) /\ call.scopes # << >>

CallInv == calls \in 1..MaxCalls /\ IsCall(routine, before)

\* fp is above the arguments of a call, its caller's fp and its return address.
IsFrame(f, fp, arguments) ==
  /\ fp \in 5..Len(f)
  /\ \A i \in 1..3 : At(f, fp + i - 6) = arguments[i]
  /\ At(f, fp - 2) \in Values

\* Above it, the n pointers of a round are the last cells: the arguments, k on.
HasPointers(f, fp, n, arguments, k) ==
  /\ fp + n <= Len(f)
  /\ \A i \in 1..n : At(f, Len(f) - n + i - 1) = Field(arguments[i], k)

\* Between the calls, and in each part of a call.
InMain ==
  /\ Depth <= calls * CallSize
  /\ calls > 0 => CallInv /\ Wanted = Ok(Filling)

InFrame ==
  /\ CallInv
  /\ steps \in 0..MaxSteps /\ Depth <= (calls - 1) * CallSize + 5 + 3 * steps
  /\ vm.fp = P(0, vm.fp.off) /\ IsFrame(Frames, vm.fp.off, before.arguments)

Entering ==
  /\ InFrame
  /\ vm.scopes = before.scopes
  /\ Filling = before.heap /\ before.arguments[3] # I(0)

\* k cells are filled, of how many there are to fill.
Looping(k) ==
  LET n == before.arguments[3].num
  IN  /\ InFrame
      /\ IsInt(before.arguments[3])
      /\ k \in 0..n /\ (pc = "loop" => k < n) /\ (pc = "leave" => k = n)
      /\ vm.scopes = Append(before.scopes, Counter(n - k))
      /\ Filled(routine, before)[k] = Ok(Filling)
      /\ HasPointers(Frames, vm.fp.off, Pointers, before.arguments, k)

LoopsInv ==
  IF error = "ok"
  THEN /\ VmInv /\ pc \in {"main", "enter", "loop", "leave"} /\ calls \in 0..MaxCalls
       /\ pc = "main" => InMain
       /\ pc = "enter" => Entering
       /\ pc \in {"loop", "leave"} => \E k \in Nat : Looping(k)
  ELSE (calls > 0 /\ pc # "main") => Wanted.err # "ok"
-----------------------------------------------------------------------------
(* Sequences of scopes.                                                    *)

\* A sequence is a function on its domain.
LEMMA SequenceOfItself ==
  ASSUME NEW S, NEW s \in Seq(S)
  PROVE  IsSequence(s)
<1>1. Len(s) \in Nat /\ DOMAIN s = 1..Len(s) /\ s = [i \in 1..Len(s) |-> s[i]]
  BY LenProperties
<1>2. \A i \in 1..Len(s) : s[i] \in Range(s)
  BY <1>1 DEF Range
<1> DEFINE R == Range(s)
<1>3. \A i \in 1..Len(s) : s[i] \in R
  BY <1>2
<1> HIDE DEF R
<1>4. [i \in 1..Len(s) |-> s[i]] \in Seq(R)
  BY <1>1, <1>3
<1> QED
  BY <1>1, <1>4 DEF IsSequence, R

\* The current scope is changed.
Relaid(s, y) == [s EXCEPT ![Len(s)] = y]

\* A scope is entered, and its variables are assigned.
LEMMA ScopeEntered ==
  ASSUME NEW s, IsSequence(s), NEW x
  PROVE  /\ IsSequence(Append(s, x)) /\ Append(s, x) # << >>
         /\ Len(Append(s, x)) = Len(s) + 1 /\ Len(s) \in Nat
         /\ Last(Append(s, x)) = x
         /\ Front(Append(s, x)) = s
         /\ \A y : Relaid(Append(s, x), y) = Append(s, y)
<1> DEFINE S == Range(s) \union {x}
           t == Append(s, x)
           n == Len(s)
<1>1. s \in Seq(S) /\ x \in S /\ n \in Nat
  BY LenProperties DEF IsSequence
<1> HIDE DEF S
<1>2. /\ t \in Seq(S) /\ Len(t) = n + 1 /\ t[n + 1] = x
      /\ \A i \in 1..n : t[i] = s[i]
  BY <1>1, AppendProperties
<1>3. IsSequence(t) /\ t # << >>
  <2> HIDE DEF t, n
  <2>1. Len(t) # 0
    BY <1>1, <1>2
  <2> QED
    BY <1>2, <2>1, SequenceOfItself, EmptySeq
<1>4. Last(t) = x
  BY <1>2 DEF Last
<1>5. Front(t) = s
  <2>1. Front(t) = SubSeq(t, 1, n)
    BY <1>1, <1>2 DEF Front
  <2>2. /\ SubSeq(t, 1, n) \in Seq(S) /\ Len(SubSeq(t, 1, n)) = n
        /\ \A i \in 1..n : SubSeq(t, 1, n)[i] = t[i]
    <3> HIDE DEF t, n
    <3>1. 1 \in 1..(n + 1) /\ n <= Len(t)
      BY <1>1, <1>2
    <3> QED
      BY <1>1, <1>2, <3>1, SubSeqProperties
  <2> QED
    BY <1>1, <1>2, <2>1, <2>2, SeqEqual
<1>6. ASSUME NEW y
      PROVE  Relaid(t, y) = Append(s, y)
  <2> DEFINE T == S \union {y}
             u == Append(s, y)
             v == [t EXCEPT ![n + 1] = y]
  <2>1. s \in Seq(T) /\ t \in Seq(T) /\ y \in T
    BY <1>1, <1>2
  <2> HIDE DEF T
  <2>2. /\ u \in Seq(T) /\ Len(u) = n + 1 /\ u[n + 1] = y
        /\ \A i \in 1..n : u[i] = s[i]
    BY <2>1, <1>1, AppendProperties
  <2>3. v \in Seq(T) /\ Len(v) = n + 1 /\ \A i \in 1..(n + 1) : v[i] = IF i = n + 1 THEN y ELSE t[i]
    <3> HIDE DEF t, n
    <3>1. t = [i \in 1..(n + 1) |-> t[i]] /\ \A i \in 1..(n + 1) : t[i] \in T
      BY <1>2, <2>1, LenProperties, ElementOfSeq
    <3>2. v = [i \in 1..(n + 1) |-> IF i = n + 1 THEN y ELSE t[i]]
      BY <3>1
    <3>3. v \in Seq(T) /\ Len(v) = n + 1
      BY <1>1, <2>1, <3>1, <3>2
    <3> QED
      BY <3>2, <3>3
  <2>4. \A i \in 1..(n + 1) : v[i] = u[i]
    BY <1>1, <1>2, <2>2, <2>3
  <2> HIDE DEF u, v
  <2>5. v = u
    BY <2>2, <2>3, <2>4, SeqEqual
  <2> QED
    BY <1>2, <2>5 DEF u, v, Relaid
<1> QED
  BY <1>1, <1>2, <1>3, <1>4, <1>5, <1>6

\* A scope is left.
LEMMA ScopeLeft ==
  ASSUME NEW s, IsSequence(s), s # << >>, Len(s) # 1
  PROVE  IsSequence(Front(s)) /\ Front(s) # << >>
<1> DEFINE S == Range(s)
           n == Len(s)
<1>1. s \in Seq(S) /\ n \in Nat /\ n # 0
  BY LenProperties, EmptySeq DEF IsSequence
<1> HIDE DEF S
<1>2. Front(s) = SubSeq(s, 1, n - 1)
  BY DEF Front
<1>3. SubSeq(s, 1, n - 1) \in Seq(S) /\ Len(SubSeq(s, 1, n - 1)) = n - 1
  <2> HIDE DEF n
  <2> DEFINE m == n - 1
  <2>1. m \in Int /\ 1 \in Int /\ (IF 1 <= m THEN m - 1 + 1 ELSE 0) = m
    BY <1>1
  <2>2. \A i \in 1..m : s[i] \in S
    BY <1>1, ElementOfSeq DEF n
  <2> HIDE DEF m
  <2>3. /\ SubSeq(s, 1, m) \in Seq(S)
        /\ Len(SubSeq(s, 1, m)) = IF 1 <= m THEN m - 1 + 1 ELSE 0
    BY <2>1, <2>2, SubSeqProperties
  <2> QED
    BY <2>1, <2>3 DEF m
<1> DEFINE front == SubSeq(s, 1, n - 1)
<1>4. n - 1 # 0
  BY <1>1
<1> HIDE DEF front, n
<1>5. IsSequence(front) /\ front # << >>
  BY <1>3, <1>4, SequenceOfItself, EmptySeq DEF front
<1> QED
  BY <1>2, <1>5 DEF front
-----------------------------------------------------------------------------
(* A memory without rules.                                                 *)

PlainMemory(m) ==
  /\ m = [data |-> m.data, validated_addresses |-> {}, validation_rules |-> {}]
  /\ m.data \in Seq(Seq(Elements))

\* Nothing is validated.
LEMMA PlainFields ==
  ASSUME NEW m, PlainMemory(m)
  PROVE  /\ m = OnlyData(m.data) /\ m.data \in Seq(Seq(Elements))
         /\ \A d : [m EXCEPT !.data = d] = OnlyData(d)
         /\ \A a : ~NeedsRule(m, a)
<1>1. m = OnlyData(m.data)
  BY DEF PlainMemory, OnlyData
<1>2. \A d : [m EXCEPT !.data = d] = OnlyData(d)
  <2>1. \A x, y, d, e : [[data |-> d, validated_addresses |-> x, validation_rules |-> y]
                          EXCEPT !.data = e]
                        = [data |-> e, validated_addresses |-> x, validation_rules |-> y]
    OBVIOUS
  <2> QED
    BY <1>1, <2>1 DEF OnlyData
<1>3. \A a : ~NeedsRule(m, a)
  <2>1. m.validation_rules = {}
    BY <1>1 DEF OnlyData
  <2> QED
    BY <2>1 DEF NeedsRule
<1> QED
  BY <1>1, <1>2, <1>3 DEF PlainMemory

\* An insert is refused if another value is there, and else leaves the value.
LEMMA PlainInsert ==
  ASSUME NEW m, PlainMemory(m), NEW key \in Relocatables, key.seg < Len(m.data),
         NEW val \in Values
  PROVE  LET r == Insert(m, key, val)
         IN  /\ r.err = "ok" <=> Cell(m.data, key) \in {None, val}
             /\ Cell(m.data, key) = None => r.memory = OnlyData(StoredAt(m.data, key, <<val>>))
             /\ Cell(m.data, key) = val => r.memory = m
<1> DEFINE w == Written(m, key, val)
           r == Insert(m, key, val)
<1>1. IsRel(key) /\ key.seg \in Nat /\ Len(m.data) \in Nat
  BY RelocatableFields, LenProperties DEF PlainMemory
<1>2. WriteError(m.data, key, val) =
        IF Cell(m.data, key) \notin {None, val} THEN "InconsistentMemory" ELSE "ok"
  BY <1>1 DEF WriteError
<1>3. w = IF Cell(m.data, key) = None THEN OnlyData(StoredAt(m.data, key, <<val>>)) ELSE m
  BY PlainFields DEF Written
<1>4. ~NeedsRule(w, key)
  <2>1. ~NeedsRule(m, key)
    BY PlainFields
  <2>2. \A d : OnlyData(d).validation_rules = {}
    BY DEF OnlyData
  <2>3. \A d : ~NeedsRule(OnlyData(d), key)
    BY <2>2 DEF NeedsRule
  <2> HIDE DEF w
  <2> QED
    BY <1>3, <2>1, <2>3
<1> HIDE DEF w
<1>5. ValidationError(w, key) = "ok" /\ ValidateCell(w, key) = w
  BY <1>4 DEF ValidationError, ValidateCell
<1>6. r = IF WriteError(m.data, key, val) # "ok"
          THEN [memory |-> m, err |-> WriteError(m.data, key, val)]
          ELSE [memory |-> w, err |-> "ok"]
  BY <1>5 DEF Insert, w
<1> HIDE DEF r
<1>7. val # None
  BY NoneAssumption
<1> QED
  BY <1>2, <1>3, <1>6, <1>7 DEF r

\* Values are loaded into cells that are not assigned.
LEMMA PlainLoad ==
  ASSUME NEW m, PlainMemory(m), NEW ptr \in Relocatables, ptr.seg < Len(m.data),
         NEW vals \in Seq(Values), Len(vals) > 0,
         \A b \in Relocatables :
           (b.seg = ptr.seg /\ b.off >= ptr.off /\ b.off < ptr.off + Len(vals)) =>
             Cell(m.data, b) = None
  PROVE  LoadData(m, ptr, vals) = [memory |-> OnlyData(StoredAt(m.data, ptr, vals)), err |-> "ok"]
<1> DEFINE n     == Len(vals)
           at(i) == [ptr EXCEPT !.off = @ + i - 1]
           fails == {i \in 1..n : LoadError(m, ptr, vals, i) # "ok"}
<1>1. n \in Nat /\ n # 0 /\ ptr.seg \in Nat /\ ptr.off \in Nat
      /\ ptr = RelocatableValue(ptr.seg, ptr.off) /\ IsRel(ptr)
  BY LenProperties, RelocatableFields
<1>2. ASSUME NEW i \in 1..n
      PROVE  LoadError(m, ptr, vals, i) = "ok"
  <2> DEFINE b == RelocatableValue(ptr.seg, ptr.off + i - 1)
  <2>1. at(i) = b
    BY <1>1 DEF RelocatableValue
  <2>2. b \in Relocatables /\ b.seg = ptr.seg /\ b.off = ptr.off + i - 1
    BY <1>1 DEF RelocatableValue, Relocatables
  <2>3. vals[i] \in Values
    BY ElementOfSeq
  <2> HIDE DEF b
  <2>4. b.off >= ptr.off /\ b.off < ptr.off + n
    BY <1>1, <2>2
  <2>5. Cell(m.data, b) = None
    BY <2>2, <2>4
  <2>6. Insert(m, b, vals[i]).err = "ok"
    <3> DEFINE v == vals[i]
    <3>1. b \in Relocatables /\ b.seg < Len(m.data) /\ v \in Values /\ Cell(m.data, b) = None
      BY <2>2, <2>3, <2>5
    <3> HIDE DEF v
    <3>2. Insert(m, b, v).err = "ok" <=> Cell(m.data, b) \in {None, v}
      BY <3>1, PlainInsert
    <3> QED
      BY <3>1, <3>2 DEF v
  <2> QED
    BY <2>1, <2>6 DEF LoadError
<1>3. fails = {}
  BY <1>2
<1>4. SubSeq(vals, 1, n) = vals
  <2>1. \A i \in 1..n : vals[i] \in Values
    BY ElementOfSeq
  <2> HIDE DEF n
  <2>2. n \in Int /\ 1 \in Int /\ (IF 1 <= n THEN n - 1 + 1 ELSE 0) = n /\ n - 1 + 1 = n
    BY <1>1
  <2>3. /\ SubSeq(vals, 1, n) \in Seq(Values)
        /\ Len(SubSeq(vals, 1, n)) = IF 1 <= n THEN n - 1 + 1 ELSE 0
        /\ \A i \in 1..(n - 1 + 1) : SubSeq(vals, 1, n)[i] = vals[1 + i - 1]
    BY <2>1, <2>2, SubSeqProperties
  <2>4. \A i \in 1..n : SubSeq(vals, 1, n)[i] = vals[i]
    BY <1>1, <2>2, <2>3
  <2> QED
    BY <2>2, <2>3, <2>4, SeqEqual DEF n
<1>5. vals # << >>
  BY <1>1, EmptySeq
<1>6. LoadData(m, ptr, vals) = Loaded(m, ptr, vals)
  BY <1>1, <1>5 DEF LoadData
<1> DEFINE valid == {[ptr EXCEPT !.off = @ + i - 1] : i \in {j \in 1..n : TRUE}}
           new   == {a \in valid : a.seg \in m.validation_rules}
<1>7. Loaded(m, ptr, vals) =
        [memory |-> [m EXCEPT !.data = StoredAt(@, ptr, SubSeq(vals, 1, n)),
                              !.validated_addresses = @ \union new],
         err |-> "ok"]
  <2>1. \A c, j : (fails = {} \/ j < c) <=> TRUE
    BY <1>3
  <2> QED
    BY <1>1, <1>3 DEF Loaded
<1>8. new = {}
  <2>1. m.validation_rules = {}
    BY PlainFields DEF OnlyData
  <2> QED
    BY <2>1
<1> HIDE DEF new, n
<1>9. [m EXCEPT !.data = StoredAt(@, ptr, SubSeq(vals, 1, n)),
                !.validated_addresses = @ \union new] = OnlyData(StoredAt(m.data, ptr, vals))
  <2>1. m.validated_addresses \union new = {}
    <3>1. m.validated_addresses = {}
      BY PlainFields DEF OnlyData
    <3> QED
      BY <1>8, <3>1
  <2> DEFINE d == StoredAt(m.data, ptr, SubSeq(vals, 1, n))
             v == m.validated_addresses \union new
  <2>2. m = [data |-> m.data, validated_addresses |-> m.validated_addresses,
             validation_rules |-> m.validation_rules] /\ m.validation_rules = {}
    BY PlainFields DEF OnlyData
  <2>3. m.validated_addresses = {}
    BY PlainFields DEF OnlyData
  <2>4. [m EXCEPT !.data = d, !.validated_addresses = v]
          = [data |-> d, validated_addresses |-> v, validation_rules |-> m.validation_rules]
    <3> HIDE DEF d, v
    <3>1. [m EXCEPT !.data = d] = [data |-> d, validated_addresses |-> m.validated_addresses,
                                   validation_rules |-> m.validation_rules]
      BY <2>2, <2>3, PlainFields DEF OnlyData
    <3>2. \A w : w = [data |-> d, validated_addresses |-> m.validated_addresses,
                     validation_rules |-> m.validation_rules] =>
              [w EXCEPT !.validated_addresses = v]
                = [data |-> d, validated_addresses |-> v, validation_rules |-> m.validation_rules]
      OBVIOUS
    <3>3. [m EXCEPT !.data = d, !.validated_addresses = v]
            = [[m EXCEPT !.data = d] EXCEPT !.validated_addresses = v]
      OBVIOUS
    <3> QED
      BY <3>1, <3>2, <3>3
  <2>5. d = StoredAt(m.data, ptr, vals) /\ v = {}
    BY <1>4, <2>1
  <2> HIDE DEF d, v
  <2>6. [data |-> d, validated_addresses |-> v, validation_rules |-> m.validation_rules]
          = OnlyData(StoredAt(m.data, ptr, vals))
    BY <2>2, <2>5 DEF OnlyData
  <2> QED
    BY <2>4, <2>6 DEF d, v
<1> QED
  BY <1>6, <1>7, <1>9
-----------------------------------------------------------------------------
(* The two segments.                                                       *)

\* An address of the n-th segment.
LEMMA AddressOfSegment ==
  ASSUME NEW n \in Nat, NEW off \in Nat
  PROVE  /\ P(n, off) \in Relocatables /\ P(n, off).seg = n /\ P(n, off).off = off
         /\ IsRel(P(n, off)) /\ P(n, off) \in Values /\ P(n, off) # None
         /\ \A i \in Int : Field(P(n, off), i) = P(n, off + i)
<1>1. P(n, off) = [kind |-> "rel", seg |-> n, off |-> off]
  BY DEF P, RelocatableValue
<1>2. P(n, off) \in Relocatables
  BY <1>1 DEF Relocatables
<1>3. \A i \in Int : Field(P(n, off), i) = P(n, off + i)
  BY <1>1 DEF Field, P, RelocatableValue
<1> QED
  BY <1>1, <1>2, <1>3, RelocatableFields, NoneAssumption

\* The cells of two segments, and of what is stored in one of them.
LEMMA TwoSegments ==
  ASSUME NEW f \in Seq(Elements), NEW h \in Seq(Elements), NEW off \in Nat
  PROVE  /\ Both(f, h) \in Seq(Seq(Elements)) /\ Len(Both(f, h)) = 2
         /\ Both(f, h)[1] = f /\ Both(f, h)[2] = h
         /\ Cell(Both(f, h), P(0, off)) = At(f, off)
         /\ Cell(Both(f, h), P(1, off)) = At(h, off)
         /\ \A vals : /\ StoredAt(Both(f, h), P(0, off), vals) = Both(Stored(f, off, vals), h)
                      /\ StoredAt(Both(f, h), P(1, off), vals) = Both(f, Stored(h, off, vals))
<1>1. Both(f, h) \in Seq(Seq(Elements)) /\ Len(Both(f, h)) = 2 /\ Both(f, h)[1] = f /\ Both(f, h)[2] = h
  BY DEF Both
<1>2. /\ P(0, off).seg = 0 /\ P(0, off).off = off
      /\ P(1, off).seg = 1 /\ P(1, off).off = off
  BY AddressOfSegment
<1>3. Cell(Both(f, h), P(0, off)) = At(f, off) /\ Cell(Both(f, h), P(1, off)) = At(h, off)
  BY <1>1, <1>2 DEF Cell, At
<1>4. \A x : [Both(f, h) EXCEPT ![1] = x] = Both(x, h) /\ [Both(f, h) EXCEPT ![2] = x] = Both(f, x)
  BY DEF Both
<1>5. \A vals : /\ StoredAt(Both(f, h), P(0, off), vals) = Both(Stored(f, off, vals), h)
                /\ StoredAt(Both(f, h), P(1, off), vals) = Both(f, Stored(h, off, vals))
  BY <1>1, <1>2, <1>4 DEF StoredAt
<1> QED
  BY <1>1, <1>3, <1>5

\* Values that are stored in a segment.
LEMMA Placed ==
  ASSUME NEW f \in Seq(Elements), NEW off \in Nat, NEW vals \in Seq(Values)
  PROVE  /\ Stored(f, off, vals) \in Seq(Elements)
         /\ Len(f) \in Nat /\ Len(vals) \in Nat
         /\ Len(Stored(f, off, vals)) = IF Len(f) < off + Len(vals) THEN off + Len(vals)
                                        ELSE Len(f)
         /\ \A k \in Nat : At(Stored(f, off, vals), k) =
              IF k >= off /\ k < off + Len(vals) THEN vals[k - off + 1] ELSE At(f, k)
<1> DEFINE n == Len(vals)
           g == Stored(f, off, vals)
<1>1. Len(f) \in Nat /\ n \in Nat
  BY LenProperties
<1>2. /\ g \in Seq(Elements)
      /\ Len(g) = (IF Len(f) < off + n THEN off + n ELSE Len(f))
      /\ \A k \in Nat : k < Len(g) =>
           g[k + 1] = IF k >= off /\ k < off + n THEN vals[k - off + 1]
                      ELSE IF k < Len(f) THEN f[k + 1] ELSE None
  BY StoredProperties
<1> HIDE DEF g, n
<1>3. \A k \in Nat : At(g, k) = IF k >= off /\ k < off + n THEN vals[k - off + 1] ELSE At(f, k)
  BY <1>1, <1>2 DEF At
<1> QED
  BY <1>1, <1>2, <1>3 DEF g, n

\* A segment with one more value, which is stored where it is already or in an
\* empty cell.
PutAt(h, off, v) == Stored(h, off, <<v>>)

\* Writing what a cell holds changes nothing.
LEMMA PlacedAgain ==
  ASSUME NEW h \in Seq(Elements), NEW off \in Nat, NEW v \in Values, At(h, off) = v
  PROVE  PutAt(h, off, v) = h
<1> DEFINE g == Stored(h, off, <<v>>)
<1>1. <<v>> \in Seq(Values) /\ Len(<<v>>) = 1 /\ <<v>>[1] = v /\ v # None
  BY NoneAssumption
<1>2. Len(h) \in Nat /\ off < Len(h)
  BY <1>1, LenProperties DEF At
<1>3. /\ g \in Seq(Elements) /\ Len(g) = Len(h)
      /\ \A k \in Nat : At(g, k) = IF k >= off /\ k < off + 1 THEN <<v>>[k - off + 1] ELSE At(h, k)
  <2> DEFINE vals == <<v>>
  <2> HIDE DEF vals
  <2>1. vals \in Seq(Values) /\ Len(vals) = 1
    BY <1>1 DEF vals
  <2>2. /\ Stored(h, off, vals) \in Seq(Elements)
        /\ Len(Stored(h, off, vals)) = IF Len(h) < off + Len(vals) THEN off + Len(vals)
                                       ELSE Len(h)
        /\ \A k \in Nat : At(Stored(h, off, vals), k) =
             IF k >= off /\ k < off + Len(vals) THEN vals[k - off + 1] ELSE At(h, k)
    BY <2>1, Placed
  <2>3. Len(Stored(h, off, vals)) = Len(h)
    BY <1>2, <2>1, <2>2
  <2> QED
    BY <2>1, <2>2, <2>3 DEF vals
<1> HIDE DEF g
<1>4. \A k \in Nat : At(g, k) = At(h, k)
  BY <1>1, <1>3
<1>5. \A i \in 1..Len(h) : g[i] = h[i]
  <2> TAKE i \in 1..Len(h)
  <2>1. i - 1 \in Nat /\ i - 1 < Len(h) /\ i - 1 + 1 = i
    BY <1>2
  <2> QED
    BY <1>3, <1>4, <2>1 DEF At
<1>6. g = h
  BY <1>3, <1>5, SeqEqual
<1> QED
  BY <1>6 DEF g, PutAt

\* A cell written into a segment, which grows if it has to.
LEMMA OnePlaced ==
  ASSUME NEW f \in Seq(Elements), NEW off \in Nat, NEW v \in Values
  PROVE  /\ PutAt(f, off, v) \in Seq(Elements)
         /\ Len(PutAt(f, off, v)) = IF off < Len(f) THEN Len(f) ELSE off + 1
         /\ \A k \in Nat : At(PutAt(f, off, v), k) = IF k = off THEN v ELSE At(f, k)
<1> DEFINE vals == <<v>>
<1>1. vals \in Seq(Values) /\ Len(vals) = 1 /\ vals[1] = v
  OBVIOUS
<1>2. PutAt(f, off, v) = Stored(f, off, vals)
  BY DEF PutAt
<1> HIDE DEF vals
<1>3. /\ Stored(f, off, vals) \in Seq(Elements)
      /\ Len(f) \in Nat
      /\ Len(Stored(f, off, vals)) = IF Len(f) < off + Len(vals) THEN off + Len(vals)
                                     ELSE Len(f)
      /\ \A k \in Nat : At(Stored(f, off, vals), k) =
           IF k >= off /\ k < off + Len(vals) THEN vals[k - off + 1] ELSE At(f, k)
  BY <1>1, Placed
<1>4. Len(Stored(f, off, vals)) = IF off < Len(f) THEN Len(f) ELSE off + 1
  BY <1>1, <1>3
<1>5. ASSUME NEW k \in Nat
      PROVE  At(Stored(f, off, vals), k) = IF k = off THEN v ELSE At(f, k)
  <2>1. CASE k = off
    <3>1. k >= off /\ k < off + Len(vals) /\ k - off + 1 = 1
      BY <1>1, <2>1
    <3> QED
      BY <1>1, <1>3, <2>1, <3>1
  <2>2. CASE k # off
    <3>1. ~(k >= off /\ k < off + Len(vals))
      BY <1>1, <2>2
    <3> QED
      BY <1>3, <2>2, <3>1
  <2> QED
    BY <2>1, <2>2
<1> QED
  BY <1>2, <1>3, <1>4, <1>5

\* An insert in one of the two segments.
LEMMA InsertInFrames ==
  ASSUME NEW f \in Seq(Elements), NEW h \in Seq(Elements), NEW off \in Nat, NEW v \in Values,
         At(f, off) = None
  PROVE  LET r == Insert(OnlyData(Both(f, h)), P(0, off), v)
         IN  r.err = "ok" /\ r.memory = OnlyData(Both(PutAt(f, off, v), h))
<1> DEFINE m == OnlyData(Both(f, h))
           a == P(0, off)
<1>1. m.data = Both(f, h) /\ PlainMemory(m)
  BY TwoSegments DEF OnlyData, PlainMemory
<1>2. a \in Relocatables /\ a.seg < Len(m.data)
  <2>1. a \in Relocatables /\ a.seg = 0
    BY AddressOfSegment
  <2>2. Len(m.data) = 2
    BY <1>1, TwoSegments
  <2> HIDE DEF a, m
  <2> QED
    BY <2>1, <2>2
<1>3. Cell(m.data, a) = None
  BY <1>1, TwoSegments
<1>4. StoredAt(m.data, a, <<v>>) = Both(PutAt(f, off, v), h)
  BY <1>1, TwoSegments DEF PutAt
<1> HIDE DEF m, a
<1>5. Insert(m, a, v).err = "ok" /\ Insert(m, a, v).memory = OnlyData(StoredAt(m.data, a, <<v>>))
  BY <1>1, <1>2, <1>3, PlainInsert
<1> QED
  BY <1>4, <1>5 DEF m, a

\* Memory::insert into the heap: refused exactly when the cell holds another value.
LEMMA InsertInHeap ==
  ASSUME NEW f \in Seq(Elements), NEW h \in Seq(Elements), NEW off \in Nat, NEW v \in Values
  PROVE  LET r == Insert(OnlyData(Both(f, h)), P(1, off), v)
         IN  /\ r.err = "ok" <=> At(h, off) \in {None, v}
             /\ r.err = "ok" => r.memory = OnlyData(Both(f, PutAt(h, off, v)))
<1> DEFINE m == OnlyData(Both(f, h))
           a == P(1, off)
           r == Insert(m, a, v)
<1>1. m.data = Both(f, h) /\ PlainMemory(m)
  BY TwoSegments DEF OnlyData, PlainMemory
<1>2. a \in Relocatables /\ a.seg < Len(m.data)
  <2>1. a \in Relocatables /\ a.seg = 1
    BY AddressOfSegment
  <2>2. Len(m.data) = 2
    BY <1>1, TwoSegments
  <2> HIDE DEF a, m
  <2> QED
    BY <2>1, <2>2
<1>3. Cell(m.data, a) = At(h, off)
  BY <1>1, TwoSegments
<1>4. StoredAt(m.data, a, <<v>>) = Both(f, PutAt(h, off, v))
  BY <1>1, TwoSegments DEF PutAt
<1>5. At(h, off) = v => PutAt(h, off, v) = h
  BY PlacedAgain
<1> HIDE DEF m, a
<1>6. /\ r.err = "ok" <=> Cell(m.data, a) \in {None, v}
      /\ Cell(m.data, a) = None => r.memory = OnlyData(StoredAt(m.data, a, <<v>>))
      /\ Cell(m.data, a) = v => r.memory = m
  BY <1>1, <1>2, PlainInsert
<1> HIDE DEF r
<1>7. At(h, off) = v => r.memory = OnlyData(Both(f, PutAt(h, off, v)))
  BY <1>3, <1>5, <1>6 DEF m
<1> QED
  BY <1>3, <1>4, <1>6, <1>7 DEF m, a, r
-----------------------------------------------------------------------------
(* The vm.                                                                 *)

\* The fields of a vm that VmWith builds.
LEMMA VmFields ==
  ASSUME NEW v, NEW f \in Seq(Elements), NEW h \in Seq(Elements), NEW s, NEW o, NEW p,
         NEW w, w = VmWith(v, f, h, s, o, p)
  PROVE  /\ w.memory = OnlyData(Both(f, h)) /\ w.memory.data = Both(f, h)
         /\ w.memory.data[1] = f /\ w.memory.data[2] = h /\ PlainMemory(w.memory)
         /\ w.scopes = s /\ w.ap = P(0, o) /\ w.ap.off = o /\ w.fp = p
         /\ w.references = References
<1>1. Both(f, h) \in Seq(Seq(Elements)) /\ Both(f, h)[1] = f /\ Both(f, h)[2] = h
  BY TwoSegments
<1>2. /\ w.memory = OnlyData(Both(f, h)) /\ w.scopes = s /\ w.ap = P(0, o) /\ w.fp = p
      /\ w.references = References
      /\ w.trackers = v.trackers /\ w.builtin_runners = v.builtin_runners
  BY DEF VmWith
<1>3. w.memory.data = Both(f, h) /\ PlainMemory(w.memory)
  BY <1>1, <1>2 DEF OnlyData, PlainMemory
<1>4. P(0, o).off = o
  BY DEF P, RelocatableValue
<1> QED
  BY <1>1, <1>2, <1>3, <1>4

\* Building on it is building anew.
LEMMA VmAgain ==
  ASSUME NEW v, NEW f, NEW h, NEW s, NEW o, NEW p, NEW w, w = VmWith(v, f, h, s, o, p)
  PROVE  \A ff, hh, ss, oo, pp : VmWith(w, ff, hh, ss, oo, pp) = VmWith(v, ff, hh, ss, oo, pp)
  BY DEF VmWith

\* A vm with other scopes, another fp, another memory, and another ap too.
Rescoped(w, s)    == [w EXCEPT !.scopes = s]
Returned(w, p)    == [w EXCEPT !.fp = p]
Rewritten(w, m)   == [w EXCEPT !.memory = m]
Moved(w, o)       == [w EXCEPT !.ap.off = o]
Extended(w, m, o) == [w EXCEPT !.memory = m, !.ap.off = o]

\* The operators that change one field of it.
LEMMA VmChanged ==
  ASSUME NEW v, NEW f, NEW h, NEW s, NEW o, NEW p, NEW w, w = VmWith(v, f, h, s, o, p)
  PROVE  /\ \A x : Rescoped(w, x) = VmWith(v, f, h, x, o, p)
         /\ \A x : Returned(w, x) = VmWith(v, f, h, s, o, x)
         /\ \A x : Moved(w, x) = VmWith(v, f, h, s, x, p)
         /\ \A g, k : Rewritten(w, OnlyData(Both(g, k))) = VmWith(v, g, k, s, o, p)
         /\ \A g, k, x : Extended(w, OnlyData(Both(g, k)), x) = VmWith(v, g, k, s, x, p)
<1>1. w = [memory |-> OnlyData(Both(f, h)), trackers |-> v.trackers, scopes |-> s, ap |-> P(0, o),
           fp |-> p, builtin_runners |-> v.builtin_runners, references |-> References]
  BY DEF VmWith
<1>2. \A x : Rescoped(w, x) = VmWith(v, f, h, x, o, p)
  BY <1>1 DEF VmWith, Rescoped
<1>3. \A x : Returned(w, x) = VmWith(v, f, h, s, o, x)
  BY <1>1 DEF VmWith, Returned
<1>4. \A g, k : Rewritten(w, OnlyData(Both(g, k))) = VmWith(v, g, k, s, o, p)
  BY <1>1 DEF VmWith, Rewritten
<1>5. \A x : [P(0, o) EXCEPT !.off = x] = P(0, x)
  BY DEF P, RelocatableValue
<1>6. \A g, k, x : Moved(VmWith(v, g, k, s, o, p), x) = VmWith(v, g, k, s, x, p)
  <2> TAKE g, k, x
  <2>1. \A a : [VmWith(v, g, k, s, o, p) EXCEPT !.ap = a]
          = [memory |-> OnlyData(Both(g, k)), trackers |-> v.trackers, scopes |-> s, ap |-> a,
             fp |-> p, builtin_runners |-> v.builtin_runners, references |-> References]
    BY DEF VmWith
  <2>2. [VmWith(v, g, k, s, o, p) EXCEPT !.ap.off = x]
          = [VmWith(v, g, k, s, o, p) EXCEPT !.ap = [P(0, o) EXCEPT !.off = x]]
    BY DEF VmWith
  <2> QED
    BY <1>5, <2>1, <2>2 DEF VmWith, Moved
<1>7. \A m, x : Extended(w, m, x) = Moved(Rewritten(w, m), x)
  BY DEF Extended, Moved, Rewritten
<1> QED
  BY <1>2, <1>3, <1>4, <1>6, <1>7

-----------------------------------------------------------------------------
(* The variables of the hints.                                             *)

\* An offset that a usize holds is itself.
LEMMA SmallOffset ==
  ASSUME NEW off \in 0..UsizeMax
  PROVE  AsOffset(off) = off
<1> DEFINE W == UsizeMax + 1
<1>1. W \in Nat /\ W > 0 /\ off \in 0..(W - 1) /\ off - W * 0 = off
  BY FieldAssumption
<1> HIDE DEF W
<1>2. off % W = off
  BY <1>1, ResidueAt
<1> QED
  BY <1>2 DEF AsOffset, W

\* The two references.
LEMMA TwoReferences ==
  /\ 0 \in DOMAIN References /\ 1 \in DOMAIN References
  /\ Cardinality(DOMAIN References) = 2
  /\ References[0] = Fp(-3) /\ References[1] = Ap(0, Tracking(1, 0))
<1>1. DOMAIN References = 0..1
  BY DEF References
<1>2. Cardinality(0..1) = 2
  <2> DEFINE n == 1
  <2>1. n \in Int /\ 0 \in Int /\ (IF 0 > n THEN 0 ELSE n - 0 + 1) = 2
    OBVIOUS
  <2> HIDE DEF n
  <2>2. Cardinality(0..n) = IF 0 > n THEN 0 ELSE n - 0 + 1
    BY <2>1, FS_Interval
  <2> QED
    BY <2>1, <2>2 DEF n
<1> QED
  BY <1>1, <1>2 DEF References

\* The last argument of a call is three below fp.
LEMMA LastArgument ==
  ASSUME NEW v, v.references = References, NEW n \in Nat, NEW off \in 3..UsizeMax,
         v.fp = P(n, off), NEW tracking
  PROVE  GetAddress(v, 0, tracking) = Ok(P(n, off - 3))
<1> DEFINE at == off - 3
<1>1. at \in 0..UsizeMax /\ off + (-3) = at /\ ~(at < 0) /\ at + 0 = at /\ off \in Nat
  BY FieldAssumption
<1>2. IsRel(P(n, off)) /\ P(n, off).seg = n /\ P(n, off).off = off
  BY <1>1, AddressOfSegment
<1>3. GetAddress(v, 0, tracking) = ComputeAddr(v, Fp(-3), tracking)
  BY TwoReferences DEF GetAddress
<1>4. /\ Fp(-3).address.register = "FP" /\ Fp(-3).address.inner_dereference = FALSE
      /\ Fp(-3).address.offset1 = -3 /\ Fp(-3).address.offset2 = 0
  BY DEF Fp, Address
<1>5. BaseAddress(v, Fp(-3), tracking) = Ok(v.fp)
  BY <1>4 DEF BaseAddress
<1>6. ComputeAddr(v, Fp(-3), tracking) = Ok(AddressFrom(v, v.fp, Fp(-3).address))
  BY <1>5 DEF ComputeAddr, Ok
<1> HIDE DEF at
<1>7. AddressFrom(v, v.fp, Fp(-3).address) = RelocatableValue(n, AsOffset(at))
  BY <1>1, <1>2, <1>4 DEF AddressFrom
<1>8. AsOffset(at) = at
  BY <1>1, SmallOffset
<1> QED
  BY <1>3, <1>6, <1>7, <1>8 DEF P, at

\* The cell that ap pointed to when the round began is n below ap.
LEMMA RoundStart ==
  ASSUME NEW v, v.references = References, NEW off \in 0..UsizeMax, NEW n \in 0..off,
         v.ap = P(0, off)
  PROVE  GetAddress(v, 1, Tracking(1, n)) = Ok(P(0, off - n))
<1> DEFINE at  == off - n
           ref == Ap(0, Tracking(1, 0))
           now == Tracking(1, n)
<1>1. /\ at \in 0..UsizeMax /\ n \in 0..UsizeMax /\ at + 0 = at /\ ~(at < 0) /\ n - 0 = n
      /\ off \in Nat /\ at \in Nat
  BY FieldAssumption
<1>2. IsRel(P(0, off)) /\ P(0, off).seg = 0 /\ P(0, off).off = off /\ ~IsInt(P(0, off))
  BY <1>1, AddressOfSegment DEF IsInt, IsRel
<1>3. /\ IsRel(P(0, at)) /\ P(0, at).seg = 0 /\ P(0, at).off = at
  BY <1>1, AddressOfSegment
<1>4. GetAddress(v, 1, now) = ComputeAddr(v, ref, now)
  BY TwoReferences DEF GetAddress
<1>5. /\ ref.address.register = "AP" /\ ref.address.inner_dereference = FALSE
      /\ ref.address.offset1 = 0 /\ ref.address.offset2 = 0
      /\ ref.ap_tracking_data = Tracking(1, 0)
  BY DEF Ap, Address
<1>6. Tracking(1, 0) # None /\ now # None
  <2>1. \A m \in Nat : Tracking(1, m) # None
    BY LoopsAssumption DEF Tracking
  <2> QED
    BY <1>1, <2>1
<1>7. BaseAddress(v, ref, now) = CorrectedAp(v.ap, ref.ap_tracking_data, now)
  BY <1>2, <1>5, <1>6 DEF BaseAddress
<1>8. CorrectedAp(v.ap, ref.ap_tracking_data, now) = Ok(P(0, at))
  <2>1. Usize(n) = Ok(n) /\ Usize(at) = Ok(at)
    BY <1>1 DEF Usize
  <2>2. /\ now.group = 1 /\ now.offset = n
        /\ Tracking(1, 0).group = 1 /\ Tracking(1, 0).offset = 0
    BY DEF Tracking
  <2>3. Ok(n).err = "ok" /\ Ok(n).val = n /\ Ok(at).err = "ok" /\ Ok(at).val = at
    BY DEF Ok
  <2> HIDE DEF now, ref
  <2>4. Usize(now.offset - Tracking(1, 0).offset) = Ok(n)
    BY <1>1, <2>1, <2>2
  <2>5. Usize(v.ap.off - Ok(n).val) = Ok(at)
    BY <1>2, <2>1, <2>3 DEF at
  <2> QED
    BY <1>2, <1>5, <2>2, <2>3, <2>4, <2>5 DEF CorrectedAp, P
<1> HIDE DEF at, ref, now
<1>9. ComputeAddr(v, ref, now) = Ok(AddressFrom(v, P(0, at), ref.address))
  BY <1>7, <1>8 DEF ComputeAddr, Ok
<1>10. AddressFrom(v, P(0, at), ref.address) = RelocatableValue(0, AsOffset(at))
  BY <1>1, <1>3, <1>5 DEF AddressFrom
<1>11. AsOffset(at) = at
  BY <1>1, SmallOffset
<1> QED
  BY <1>4, <1>9, <1>10, <1>11 DEF P, at, ref, now

\* The map of a hint of one variable.
IdsOf(name, index) == [x \in {name} |-> index]

\* It looks the variable up.
LEMMA VariableFound ==
  ASSUME NEW v, NEW name, NEW index, NEW tracking, NEW a \in Values,
         GetAddress(v, index, tracking) = Ok(a)
  PROVE  LET r == LocatedInTurn(v, IdsOf(name, index), <<name>>, tracking)
         IN  r.err = "ok" /\ r.val[name] = a
<1> DEFINE ids == IdsOf(name, index)
<1>1. Ok(a).err = "ok" /\ Ok(a).val = a /\ a # None
  BY NoneAssumption DEF Ok
<1>2. name \in DOMAIN ids /\ ids[name] = index
  BY DEF IdsOf
<1> HIDE DEF ids
<1>3. AddressOfName(v, name, ids, tracking) = Ok(a)
  BY <1>1, <1>2 DEF AddressOfName
<1>4. Range(<<name>>) = {name} /\ Len(<<name>>) = 1 /\ <<name>>[1] = name
  BY DEF Range
<1>5. LocatedInTurn(v, ids, <<name>>, tracking) = Ok([x \in {name} |-> a])
  BY <1>1, <1>3, <1>4 DEF LocatedInTurn
<1>6. /\ Ok([x \in {name} |-> a]).err = "ok"
      /\ Ok([x \in {name} |-> a]).val[name] = a
  BY DEF Ok
<1> QED
  BY <1>5, <1>6 DEF ids

\* The first hint of a call.
LEMMA EnterHintRuns ==
  ASSUME NEW v, v.references = References, NEW off \in 3..UsizeMax, v.fp = P(0, off)
  PROVE  Execute(v, EnterHint, 0, 0) = EnterLoop(v, P(0, off - 3))
<1> DEFINE t == Tracking(1, 0)
           a == P(0, off - 3)
<1>1. GetAddress(v, 0, t) = Ok(a)
  BY LastArgument
<1>2. a \in Values
  <2>1. off - 3 \in Nat
    BY FieldAssumption
  <2> QED
    BY <2>1, AddressOfSegment
<1> HIDE DEF t, a
<1>3. \A name : LET r == LocatedInTurn(v, IdsOf(name, 0), <<name>>, t)
                IN  r.err = "ok" /\ r.val[name] = a
  BY <1>1, <1>2, VariableFound
<1>4. \A ids : LocatedInTurn(v, ids, <<"len">>, t).err = "ok" =>
                 RunHint(v, "memcpy_enter_scope", ids, t)
                   = EnterLoop(v, LocatedInTurn(v, ids, <<"len">>, t).val["len"])
  BY DEF RunHint
<1>5. \A ids : LocatedInTurn(v, ids, <<"n">>, t).err = "ok" =>
                 RunHint(v, "memset_enter_scope", ids, t)
                   = EnterLoop(v, LocatedInTurn(v, ids, <<"n">>, t).val["n"])
  BY DEF RunHint
<1>6. \A ids : /\ ExecuteHint(v, "memcpy_enter_scope", ids, t)
                    = RunHint(v, "memcpy_enter_scope", ids, t)
               /\ ExecuteHint(v, "memset_enter_scope", ids, t)
                    = RunHint(v, "memset_enter_scope", ids, t)
  BY DEF ExecuteHint
<1>7. \A hint : Execute(v, hint, 0, 0) = ExecuteHint(v, hint[1], IdsOf(hint[2], 0), t)
  BY DEF Execute, IdsOf, t
<1>8. Execute(v, <<"memcpy_enter_scope", "len">>, 0, 0) = EnterLoop(v, a)
  BY <1>3, <1>4, <1>6, <1>7
<1>9. Execute(v, <<"memset_enter_scope", "n">>, 0, 0) = EnterLoop(v, a)
  BY <1>3, <1>5, <1>6, <1>7
<1> QED
  BY <1>8, <1>9 DEF EnterHint, a

\* The hint that ends a round.
LEMMA EndRoundRuns ==
  ASSUME NEW v, v.references = References, NEW off \in 0..UsizeMax, v.ap = P(0, off),
         Pointers <= off
  PROVE  EndRound(v) = NextRound(v, P(0, off - Pointers))
<1> DEFINE n == Pointers
           t == Tracking(1, n)
           a == P(0, off - n)
<1>1. n \in 0..off /\ off \in Nat
  BY FieldAssumption DEF Pointers
<1> HIDE DEF n
<1>2. GetAddress(v, 1, t) = Ok(a)
  BY <1>1, RoundStart
<1>3. a \in Values
  <2>1. off - n \in Nat
    BY <1>1
  <2> QED
    BY <2>1, AddressOfSegment
<1> HIDE DEF t, a
<1>4. \A name : LET r == LocatedInTurn(v, IdsOf(name, 1), <<name>>, t)
                IN  r.err = "ok" /\ r.val[name] = a
  BY <1>2, <1>3, VariableFound
<1>5. \A ids : LocatedInTurn(v, ids, <<"continue_copying">>, t).err = "ok" =>
        RunHint(v, "memcpy_continue_copying", ids, t)
          = NextRound(v, LocatedInTurn(v, ids, <<"continue_copying">>, t).val["continue_copying"])
  BY DEF RunHint
<1>6. \A ids : LocatedInTurn(v, ids, <<"continue_loop">>, t).err = "ok" =>
        RunHint(v, "memset_continue_loop", ids, t)
          = NextRound(v, LocatedInTurn(v, ids, <<"continue_loop">>, t).val["continue_loop"])
  BY DEF RunHint
<1>7. \A ids : /\ ExecuteHint(v, "memcpy_continue_copying", ids, t)
                    = RunHint(v, "memcpy_continue_copying", ids, t)
               /\ ExecuteHint(v, "memset_continue_loop", ids, t)
                    = RunHint(v, "memset_continue_loop", ids, t)
  BY DEF ExecuteHint
<1>8. \A hint : Execute(v, hint, 1, n) = ExecuteHint(v, hint[1], IdsOf(hint[2], 1), t)
  BY DEF Execute, IdsOf, t
<1>9. Execute(v, <<"memcpy_continue_copying", "continue_copying">>, 1, n) = NextRound(v, a)
  BY <1>4, <1>5, <1>7, <1>8
<1>10. Execute(v, <<"memset_continue_loop", "continue_loop">>, 1, n) = NextRound(v, a)
  BY <1>4, <1>6, <1>7, <1>8
<1> QED
  BY <1>9, <1>10 DEF EndRound, EndHint, a, n
-----------------------------------------------------------------------------
(* What the hints and the instructions of a call do to the vm.             *)

\* Values are loaded after the frames.
LEMMA LoadedAbove ==
  ASSUME NEW f \in Seq(Elements), NEW h \in Seq(Elements), NEW at \in Nat, at >= Len(f),
         NEW vals \in Seq(Values), Len(vals) > 0
  PROVE  LoadData(OnlyData(Both(f, h)), P(0, at), vals).memory = OnlyData(Both(Stored(f, at, vals), h))
<1> DEFINE m   == OnlyData(Both(f, h))
           ptr == P(0, at)
<1>1. m.data = Both(f, h) /\ PlainMemory(m)
  BY TwoSegments DEF OnlyData, PlainMemory
<1>2. Len(m.data) = 2 /\ ptr \in Relocatables /\ ptr.seg = 0 /\ ptr.off = at
  <2>1. ptr \in Relocatables /\ ptr.seg = 0 /\ ptr.off = at
    BY AddressOfSegment
  <2>2. Len(m.data) = 2
    BY <1>1, TwoSegments, SMTT(30)
  <2> QED
    BY <2>1, <2>2
<1>3. ASSUME NEW b \in Relocatables, b.seg = ptr.seg, b.off >= ptr.off
      PROVE  Cell(m.data, b) = None
  <2>1. b = P(0, b.off) /\ b.off \in Nat /\ b.off >= at
    BY <1>2, <1>3, RelocatableFields DEF P
  <2>2. Cell(Both(f, h), P(0, b.off)) = At(f, b.off)
    BY <2>1, TwoSegments
  <2>3. Len(f) \in Nat /\ ~(b.off < Len(f))
    BY <2>1, LenProperties
  <2> QED
    BY <1>1, <2>1, <2>2, <2>3 DEF At
<1>4. StoredAt(m.data, ptr, vals) = Both(Stored(f, at, vals), h)
  BY <1>1, TwoSegments
<1> HIDE DEF m, ptr
<1>5. LoadData(m, ptr, vals) = [memory |-> OnlyData(StoredAt(m.data, ptr, vals)), err |-> "ok"]
  <2>1. ptr.seg < Len(m.data)
    BY <1>2
  <2> QED
    BY <1>1, <1>2, <1>3, <2>1, PlainLoad
<1> QED
  BY <1>4, <1>5 DEF m, ptr

\* A push leaves ap after what is pushed.
LEMMA Pushed ==
  ASSUME NEW v, NEW f \in Seq(Elements), NEW h \in Seq(Elements), NEW s, NEW p,
         NEW w, w = VmWith(v, f, h, s, Len(f), p), NEW vals \in Seq(Values), Len(vals) > 0
  PROVE  Push(w, vals) = VmWith(v, Stored(f, Len(f), vals), h, s, Len(f) + Len(vals), p)
<1>1. w.memory = OnlyData(Both(f, h)) /\ w.ap = P(0, Len(f)) /\ w.ap.off = Len(f)
  BY VmFields
<1>2. LoadData(w.memory, w.ap, vals).memory = OnlyData(Both(Stored(f, Len(f), vals), h))
  <2>1. Len(f) \in Nat /\ Len(f) >= Len(f)
    BY LenProperties
  <2> QED
    BY <1>1, <2>1, LoadedAbove
<1>3. Push(w, vals) = Extended(w, OnlyData(Both(Stored(f, Len(f), vals), h)),
                               Len(f) + Len(vals))
  BY <1>1, <1>2 DEF Push, Extended
<1> QED
  BY <1>3, VmChanged

\* The pointers are advanced.
Advance(frame) == [i \in 1..Len(frame) |-> Field(frame[i], 1)]

\* An iteration stores the next frame after the last one.
LEMMA FrameAdvanced ==
  ASSUME NEW v, NEW f \in Seq(Elements), NEW h \in Seq(Elements), NEW s, NEW p,
         NEW w, w = VmWith(v, f, h, s, Len(f), p), NEW frame, Len(frame) > 0,
         NEW next, next = Advance(frame),
         next \in Seq(Values), Len(next) = Len(frame)
  PROVE  Advanced(w, frame)
           = VmWith(v, Stored(f, Len(f) + 1, next), h, s, Len(f) + Len(frame), p)
<1>1. w.memory = OnlyData(Both(f, h)) /\ w.ap = P(0, Len(f)) /\ w.ap.off = Len(f)
  BY VmFields
<1>2. Len(f) \in Nat /\ Len(f) + 1 \in Nat /\ Len(f) + 1 >= Len(f)
  BY LenProperties
<1>3. Field(w.ap, 1) = P(0, Len(f) + 1)
  BY <1>1, <1>2, AddressOfSegment
<1>4. LoadData(w.memory, Field(w.ap, 1), next).memory
        = OnlyData(Both(Stored(f, Len(f) + 1, next), h))
  <2> DEFINE at == Len(f) + 1
  <2> HIDE DEF at
  <2>1. LoadData(OnlyData(Both(f, h)), P(0, at), next).memory = OnlyData(Both(Stored(f, at, next), h))
    BY <1>2, LoadedAbove DEF at
  <2> QED
    BY <1>1, <1>3, <2>1 DEF at
<1>5. Advanced(w, frame) = Extended(w, OnlyData(Both(Stored(f, Len(f) + 1, next), h)),
                                    Len(f) + Len(frame))
  BY <1>1, <1>4 DEF Advance, Advanced, Extended
<1> QED
  BY <1>5, VmChanged

\* Two checks, the first of which passes.
LEMMA SecondCheck ==
  ASSUME NEW b1 \in BOOLEAN, NEW b2 \in BOOLEAN, ~b1, NEW e1, NEW e2
  PROVE  FirstError(<< <<b1, e1>>, <<b2, e2>> >>) = IF b2 THEN e2 ELSE "ok"
<1> DEFINE checks == << <<b1, e1>>, <<b2, e2>> >>
           failed == {i \in 1..Len(checks) : checks[i][1]}
<1>1. Len(checks) = 2 /\ checks[1] = <<b1, e1>> /\ checks[2] = <<b2, e2>>
  OBVIOUS
<1>2. <<b1, e1>>[1] = b1 /\ <<b2, e2>>[1] = b2 /\ <<b2, e2>>[2] = e2
  OBVIOUS
<1>3. 1..Len(checks) = {1, 2} /\ 1 # 2
  BY <1>1
<1>4. checks[1][1] = b1 /\ checks[2][1] = b2 /\ checks[2][2] = e2
  BY <1>1, <1>2
<1>5. FirstError(checks) = IF failed = {} THEN "ok" ELSE checks[Min(failed)][2]
  BY DEF FirstError
<1> HIDE DEF checks
<1>6. ASSUME ~b2
      PROVE  FirstError(checks) = "ok"
  <2>1. failed = {}
    BY <1>3, <1>4, <1>6
  <2> QED
    BY <1>5, <2>1
<1>7. ASSUME b2
      PROVE  FirstError(checks) = e2
  <2>1. failed = {2}
    BY <1>3, <1>4, <1>7
  <2>2. Min({2}) = 2
    BY DEF Min
  <2> QED
    BY <1>4, <1>5, <2>1, <2>2
<1> QED
  BY <1>6, <1>7 DEF checks

\* The first hint of a call opens its scope if it is given a number.
LEMMA LoopEntered ==
  ASSUME NEW v, NEW f, NEW h, NEW s, NEW o, NEW p, NEW w, w = VmWith(v, f, h, s, o, p),
         NEW a, Value(w, a) \in Values
  PROVE  /\ ~IsInt(Value(w, a)) => EnterLoop(w, a).err # "ok"
         /\ IsInt(Value(w, a)) =>
              EnterLoop(w, a)
                = Answer(VmWith(v, f, h, Append(s, Counter(Value(w, a).num)), o, p), "ok", None)
<1> DEFINE n      == Value(w, a)
           checks == << <<n = None, "FailedToGetIds">>, <<~IsInt(n), "ExpectedInteger">> >>
           opened == Answer([w EXCEPT !.scopes = Append(@, [name \in {"n"} |-> Num(n)])],
                            "ok", None)
<1>1. n # None
  BY NoneAssumption
<1>2. EnterLoop(w, a) = IF FirstError(checks) = "ok" THEN opened
                        ELSE Answer(w, FirstError(checks), None)
  BY DEF EnterLoop, Checked, Refuse
<1>0. FirstError(checks) = IF IsInt(n) THEN "ok" ELSE "ExpectedInteger"
  <2> DEFINE b1 == n = None
             b2 == ~IsInt(n)
  <2>1. b1 \in BOOLEAN /\ b2 \in BOOLEAN /\ ~b1
    BY <1>1 DEF IsInt
  <2> HIDE DEF b1, b2, n
  <2>2. FirstError(<< <<b1, "FailedToGetIds">>, <<b2, "ExpectedInteger">> >>)
          = IF b2 THEN "ExpectedInteger" ELSE "ok"
    BY <2>1, SecondCheck
  <2> QED
    BY <2>2 DEF b1, b2
<1>3. CASE IsInt(n)
  <2>1. FirstError(checks) = "ok"
    BY <1>0, <1>3
  <2>2. w.scopes = s
    BY DEF VmWith
  <2>3. [w EXCEPT !.scopes = Append(@, [name \in {"n"} |-> Num(n)])]
          = Rescoped(w, Append(s, Counter(n.num)))
    BY <1>3, <2>2 DEF Counter, Num, Rescoped
  <2> HIDE DEF checks
  <2> QED
    BY <1>2, <1>3, <2>1, <2>3, VmChanged
<1>4. CASE ~IsInt(n)
  <2>3. FirstError(checks) = "ExpectedInteger"
    BY <1>0, <1>4
  <2> HIDE DEF checks, opened
  <2> QED
    BY <1>2, <1>4, <2>3 DEF Answer
<1> QED
  BY <1>3, <1>4

\* The hint that ends a round writes whether there is another, and counts.
LEMMA RoundCounted ==
  ASSUME NEW v, NEW f \in Seq(Elements), NEW h \in Seq(Elements), NEW s, IsSequence(s), NEW o,
         NEW p, NEW n \in Int, NEW w, w = VmWith(v, f, h, Append(s, Counter(n)), o, p),
         NEW at \in Nat, At(f, at) = None
  PROVE  NextRound(w, P(0, at))
           = Answer(VmWith(v, PutAt(f, at, Flag(n - 1 > 0)), h,
                           Append(s, Counter(n - 1)), o, p), "ok", None)
<1> DEFINE a     == P(0, at)
           flag  == Flag(n - 1 > 0)
           g     == PutAt(f, at, flag)
           asked == Assign(w, a, flag)
<1>1. flag \in Values
  BY DEF Flag, IntValue, Values, Ints
<1>2. w.memory = OnlyData(Both(f, h)) /\ w.memory.data = Both(f, h) /\ PlainMemory(w.memory)
      /\ w.scopes = Append(s, Counter(n))
  <2> DEFINE t == Append(s, Counter(n))
  <2> HIDE DEF t
  <2>1. w = VmWith(v, f, h, t, o, p)
    BY DEF t
  <2>2. w.memory = OnlyData(Both(f, h)) /\ w.memory.data = Both(f, h) /\ PlainMemory(w.memory)
        /\ w.scopes = t
    BY <2>1, VmFields
  <2> QED
    BY <2>2 DEF t
<1>3. Local(w, "n") = n
  <2>1. Last(w.scopes) = Counter(n)
    BY <1>2, ScopeEntered
  <2> QED
    BY <2>1 DEF Local, Counter
<1>4. n # None
  BY LoopsAssumption
<1>5. asked = Answer(VmWith(v, g, h, Append(s, Counter(n)), o, p), "ok", None)
  <2>1. /\ Insert(w.memory, a, flag).err = "ok"
        /\ Insert(w.memory, a, flag).memory = OnlyData(Both(g, h))
    BY <1>1, <1>2, InsertInFrames
  <2> HIDE DEF a, flag, g
  <2>2. asked = Answer(Rewritten(w, OnlyData(Both(g, h))), "ok", None)
    BY <2>1 DEF Assign, Rewritten
  <2> QED
    BY <2>2, VmChanged
<1> HIDE DEF asked
<1>6. asked.err = "ok" /\ asked.vm = VmWith(v, g, h, Append(s, Counter(n)), o, p)
  BY <1>5 DEF Answer
<1>7. AssignVariable(asked.vm, "n", n - 1) = VmWith(v, g, h, Append(s, Counter(n - 1)), o, p)
  <2> DEFINE u == asked.vm
             t == Append(s, Counter(n))
  <2>1. u.scopes = t /\ Len(t) = Len(s) + 1
    BY <1>6, ScopeEntered DEF VmWith
  <2>2. t[Len(s) + 1] = Counter(n)
    BY <2>1, ScopeEntered DEF Last
  <2>3. Put(Counter(n), "n", n - 1) = Counter(n - 1)
    BY DEF Put, Counter
  <2>4. Relaid(t, Counter(n - 1)) = Append(s, Counter(n - 1))
    BY ScopeEntered
  <2> HIDE DEF u, t
  <2>5. AssignVariable(u, "n", n - 1)
          = Rescoped(u, Relaid(t, Counter(n - 1)))
    BY <2>1, <2>2, <2>3 DEF AssignVariable, Rescoped, Relaid
  <2>6. Rescoped(u, Append(s, Counter(n - 1)))
          = VmWith(v, g, h, Append(s, Counter(n - 1)), o, p)
    BY <1>6, VmChanged DEF u
  <2> QED
    BY <2>4, <2>5, <2>6 DEF u
<1>8. NextRound(w, a) = Answer(AssignVariable(asked.vm, "n", n - 1), "ok", None)
  BY <1>3, <1>4, <1>6 DEF NextRound, asked
<1> QED
  BY <1>7, <1>8
-----------------------------------------------------------------------------
(* The heap as a call fills it.                                            *)

\* What a call is made with.
LEMMA ArgumentsKnown ==
  ASSUME NEW name, NEW call, IsCall(name, call), NEW arguments, arguments = call.arguments
  PROVE  /\ arguments \in Seq(Values) /\ Len(arguments) = 3
         /\ \A i \in 1..3 : arguments[i] \in Values
         /\ arguments[1].off \in Nat /\ arguments[1] = P(1, arguments[1].off)
         /\ name # "memset" => arguments[2].off \in Nat /\ arguments[2] = P(1, arguments[2].off)
         /\ IsInt(arguments[3]) =>
              arguments[3].num \in Nat /\ arguments[3] = I(arguments[3].num)
<1>1. arguments \in Copies \union Sets /\ (name # "memset" => arguments \in Copies)
  BY DEF IsCall
<1>2. /\ arguments \in Seq(Values) /\ Len(arguments) = 3
      /\ IsRel(arguments[1]) /\ arguments[1].seg = 1
      /\ IsInt(arguments[3]) => arguments[3].num \in Nat
  BY <1>1, LoopsAssumption
<1>3. name # "memset" => IsRel(arguments[2]) /\ arguments[2].seg = 1
  BY <1>1, LoopsAssumption
<1>4. \A i \in 1..3 : arguments[i] \in Values
  BY <1>2, ElementOfSeq
<1>5. \A v \in Values : IsRel(v) /\ v.seg = 1 => v.off \in Nat /\ v = P(1, v.off)
  BY DEF Values, Ints, Relocatables, IsRel, P, RelocatableValue
<1>6. \A v \in Values : IsInt(v) => v = I(v.num)
  BY DEF Values, Ints, Relocatables, IsInt, I, IntValue
<1> HIDE DEF IsCall
<1> QED
  BY <1>2, <1>3, <1>4, <1>5, <1>6

\* One more cell is filled.
FilledMore(h, target, value) ==
  IF value = None \/ At(h, target) \notin {None, value} THEN Err("CannotFill")
  ELSE Ok(PutAt(h, target, value))

\* The cell that an iteration of either loop writes.
LEMMA FillStep ==
  ASSUME NEW name, NEW call, IsCall(name, call), NEW arguments, arguments = call.arguments,
         NEW h \in Seq(Elements), NEW i \in Nat \ {0}
  PROVE  FillNext(name, arguments, Ok(h), i)
           = FilledMore(h, arguments[1].off + i - 1,
                        IF name = "memset" THEN arguments[2]
                        ELSE At(h, arguments[2].off + i - 1))
<1> DEFINE n == i - 1
           d == arguments[1].off
           s == arguments[2].off
           e == << >>
           value == IF name = "memset" THEN arguments[2] ELSE At(h, s + n)
<1>1. n \in Nat /\ d \in Nat /\ arguments[1] = P(1, d)
      /\ (name # "memset" => s \in Nat /\ arguments[2] = P(1, s))
  BY ArgumentsKnown
<1>2. d + n \in Nat /\ (name # "memset" => s + n \in Nat) /\ d + i - 1 = d + n
      /\ (name # "memset" => s + i - 1 = s + n)
  BY <1>1
<1>3. e \in Seq(Elements)
  BY EmptySeq
<1> HIDE DEF e
<1>4. \A k \in Nat : /\ Cell(Both(e, h), P(1, k)) = At(h, k)
                     /\ \A vals : StoredAt(Both(e, h), P(1, k), vals) = Both(e, Stored(h, k, vals))
  BY <1>3, TwoSegments
<1>5. \A x : Both(e, x)[2] = x
  BY DEF Both
<1> HIDE DEF d, s, n
<1>6. Field(arguments[1], n) = P(1, d + n)
      /\ (name # "memset" => Field(arguments[2], n) = P(1, s + n))
  <2>1. \A k \in Nat : Field(P(1, k), n) = P(1, k + n)
    BY <1>1, AddressOfSegment
  <2> QED
    BY <1>1, <2>1
<1>7. Cell(Both(e, h), Field(arguments[1], n)) = At(h, d + n)
      /\ (name # "memset" => Cell(Both(e, h), Field(arguments[2], n)) = At(h, s + n))
  BY <1>2, <1>4, <1>6
<1>8. \A x : StoredAt(Both(e, h), Field(arguments[1], n), <<x>>)[2] = PutAt(h, d + n, x)
  <2> TAKE x
  <2> DEFINE vals == <<x>>
  <2> HIDE DEF vals
  <2>1. StoredAt(Both(e, h), Field(arguments[1], n), vals) = Both(e, Stored(h, d + n, vals))
    BY <1>2, <1>4, <1>6
  <2>2. StoredAt(Both(e, h), Field(arguments[1], n), vals)[2] = Stored(h, d + n, vals)
    BY <1>5, <2>1
  <2> QED
    BY <2>2 DEF vals, PutAt
<1>9. Ok(h).err = "ok" /\ Ok(h).val = h
  BY DEF Ok
<1>10. FillNext(name, arguments, Ok(h), i)
         = IF value = None \/ At(h, d + n) \notin {None, value} THEN Err("CannotFill")
           ELSE Ok(PutAt(h, d + n, value))
  <2>1. << << >>, Ok(h).val>> = Both(e, h)
    BY <1>9 DEF Both, e
  <2>2. FillNext(name, arguments, Ok(h), i)
          = LET val == IF name = "memset" THEN arguments[2]
                       ELSE Cell(Both(e, h), Field(arguments[2], n))
            IN  IF val = None \/ Cell(Both(e, h), Field(arguments[1], n)) \notin {None, val}
                THEN Err("CannotFill")
                ELSE Ok(StoredAt(Both(e, h), Field(arguments[1], n), <<val>>)[2])
    BY <1>9, <2>1 DEF FillNext, n
  <2> QED
    BY <1>7, <1>8, <2>2
<1> QED
  BY <1>2, <1>10 DEF FilledMore, d, s, n

\* The heaps of a call, one for each number of cells that are filled.
LEMMA FilledInTurn ==
  ASSUME NEW name, NEW call, IsCall(name, call), IsInt(call.arguments[3])
  PROVE  LET n == call.arguments[3].num
             f == Filled(name, call)
         IN  /\ n \in Nat
             /\ f[0] = Ok(call.heap)
             /\ \A i \in 1..n : f[i] = FillNext(name, call.arguments, f[i - 1], i)
             /\ \A k \in 0..n : f[k].err # "ok" => f[n].err # "ok"
<1> DEFINE N       == call.arguments[3].num
           first   == Ok(call.heap)
           F(i, x) == FillNext(name, call.arguments, x, i)
           E(f)    == [i \in 0..N |-> IF i = 0 THEN first ELSE F(i, f[i - 1])]
           filled  == CHOOSE f : f = E(f)
           S       == {Ok(h) : h \in Seq(Elements)} \union {Err("CannotFill")}
           step    == [i \in 1..N |-> [x \in S |-> F(i, x)]]
<1>1. Filled(name, call) = filled
  BY DEF Filled
<1>2. N \in Nat /\ first \in S
  BY ArgumentsKnown DEF IsCall
<1>3. \A i : \A x : x.err # "ok" => F(i, x) = x
  BY DEF FillNext
<1>4. \A i \in 1..N : \A x \in S : F(i, x) \in S
  <2> SUFFICES ASSUME NEW i \in 1..N, NEW x \in S
               PROVE  F(i, x) \in S
    OBVIOUS
  <2>1. CASE x = Err("CannotFill")
    <3>1. x.err # "ok"
      BY <2>1 DEF Err
    <3> QED
      BY <1>3, <3>1
  <2>2. ASSUME NEW h \in Seq(Elements), x = Ok(h)
        PROVE  F(i, x) \in S
    <3> DEFINE target == call.arguments[1].off + i - 1
               value  == IF name = "memset" THEN call.arguments[2]
                         ELSE At(h, call.arguments[2].off + i - 1)
    <3>1. i \in Nat \ {0}
      BY <1>2
    <3>2. F(i, x) = FilledMore(h, target, value)
      BY <2>2, <3>1, FillStep
    <3>3. call.arguments[1].off \in Nat /\ target \in Nat
          /\ (name # "memset" => call.arguments[2].off + i - 1 \in Nat)
          /\ call.arguments[2] \in Values
      BY <3>1, ArgumentsKnown, SMTT(30)
    <3>4. value \in Elements
      <4>1. \A k \in Nat : At(h, k) \in Elements
        <5> TAKE k \in Nat
        <5>1. k < Len(h) => k + 1 \in 1..Len(h)
          BY LenProperties
        <5> QED
          BY <5>1, ElementOfSeq DEF At, Elements
      <4> QED
        BY <3>3, <4>1 DEF Elements
    <3> HIDE DEF target, value
    <3>5. value # None => PutAt(h, target, value) \in Seq(Elements)
      BY <3>3, <3>4, OnePlaced DEF Elements
    <3> HIDE DEF F
    <3> QED
      BY <3>2, <3>5 DEF FilledMore
  <2> QED
    BY <2>1, <2>2
<1> HIDE DEF first, F, N, S
<1>5. step \in [1..N -> [S -> S]]
  BY <1>4
<1>6. \A i \in 1..N : \A x \in S : step[i][x] = F(i, x)
  OBVIOUS
<1> HIDE DEF step
<1>7. Recursions(N, S, first, step) # {}
  BY <1>2, <1>5, RecursionExists
<1>8. PICK f \in [0..N -> S] : f[0] = first /\ \A i \in 1..N : f[i] = step[i][f[i - 1]]
  BY <1>7 DEF Recursions
<1>9. f = E(f)
  <2>1. \A i \in 0..N : f[i] = IF i = 0 THEN first ELSE F(i, f[i - 1])
    BY <1>2, <1>6, <1>8
  <2> QED
    BY <2>1, <1>8
<1>10. filled = E(filled)
  BY <1>9
<1> HIDE DEF filled
<1>11. filled[0] = first /\ \A i \in 1..N : filled[i] = F(i, filled[i - 1])
  BY <1>2, <1>10
<1>12. ASSUME NEW k \in 0..N, filled[k].err # "ok"
       PROVE  filled[N].err # "ok"
  <2> DEFINE M == N - k
             T == {x \in {filled[i] : i \in 0..N} : x.err # "ok"}
             g == [i \in 0..M |-> filled[k + i]]
  <2>1. M \in Nat /\ k + M = N /\ \A i \in 0..M : k + i \in 0..N
    BY <1>2
  <2>2. g[0] \in T
    BY <1>2, <1>12, <2>1
  <2>3. ASSUME NEW i \in 1..M, g[i - 1] \in T
        PROVE  g[i] \in T
    <3>1. /\ i - 1 \in 0..M /\ k + (i - 1) = (k + i) - 1 /\ k + i \in 1..N
      BY <2>1
    <3>2. g[i - 1] = filled[(k + i) - 1] /\ g[i] = filled[k + i]
      BY <3>1
    <3>3. filled[k + i] = F(k + i, filled[(k + i) - 1])
      BY <1>11, <3>1
    <3>4. filled[(k + i) - 1].err # "ok"
      BY <2>3, <3>2
    <3>5. filled[k + i] = filled[(k + i) - 1]
      BY <1>3, <3>3, <3>4 DEF F
    <3> QED
      BY <2>3, <3>2, <3>5
  <2> HIDE DEF M, T, g
  <2>4. \A i \in 0..M : g[i] \in T
    BY <2>1, <2>2, <2>3, RecursionStays
  <2>5. g[M] \in T
    BY <2>1, <2>4
  <2>6. g[M] = filled[N]
    BY <2>1 DEF g
  <2> QED
    BY <2>5, <2>6 DEF T
<1> QED
  BY <1>1, <1>2, <1>11, <1>12 DEF N, F, first
-----------------------------------------------------------------------------
(* Between the calls.                                                      *)

\* The frames of the calls are inside of a segment.
LEMMA CallsFit ==
  ASSUME NEW n \in 1..MaxCalls
  PROVE  /\ CallSize = 5 + 3 * MaxSteps /\ CallSize \in Nat /\ MaxSteps \in Nat
         /\ n * CallSize \in Nat /\ n * CallSize <= UsizeMax /\ UsizeMax \in Nat
         /\ (n - 1) * CallSize \in Nat /\ (n - 1) * CallSize + CallSize = n * CallSize
<1> DEFINE C == CallSize
<1>1. /\ MaxCalls \in Nat /\ MaxSteps \in Nat /\ MaxCalls * C <= UsizeMax /\ UsizeMax \in Nat
      /\ C = 5 + 3 * MaxSteps /\ C \in Nat
  BY LoopsAssumption, FieldAssumption DEF CallSize
<1> HIDE DEF C
<1>2. n \in Nat /\ n - 1 \in Nat /\ MaxCalls - n \in Nat
  BY <1>1
<1>3. \A a, b \in Nat : a * b \in Nat
  OBVIOUS
<1>4. n * C \in Nat /\ (n - 1) * C \in Nat /\ (MaxCalls - n) * C \in Nat /\ MaxCalls * C \in Nat
  BY <1>1, <1>2, <1>3
<1>5. (n - 1) * C = n * C - C /\ (MaxCalls - n) * C = MaxCalls * C - n * C
  BY <1>1, <1>2
<1>6. n * C <= UsizeMax /\ (n - 1) * C + C = n * C
  BY <1>1, <1>4, <1>5
<1> QED
  BY <1>1, <1>4, <1>6 DEF C

\* The hints of a scope.
LEMMA ScopeHints ==
  ASSUME NEW w, NEW ids, NEW t
  PROVE  /\ ExecuteHint(w, "enter_scope", ids, t).vm = Rescoped(w, Append(w.scopes, NoScope))
         /\ Len(w.scopes) = 1 => ExecuteHint(w, "exit_scope", ids, t).err # "ok"
         /\ Len(w.scopes) # 1 =>
              /\ ExecuteHint(w, "exit_scope", ids, t).vm = Rescoped(w, Front(w.scopes))
              /\ ExecuteHint(w, "exit_scope", ids, t).err = "ok"
<1>1. ExecuteHint(w, "enter_scope", ids, t) = RunHint(w, "enter_scope", ids, t)
      /\ ExecuteHint(w, "exit_scope", ids, t) = RunHint(w, "exit_scope", ids, t)
  BY DEF ExecuteHint
<1>2. RunHint(w, "enter_scope", ids, t) = Answer(EnterScope(w), "ok", None)
  BY DEF RunHint
<1>3. RunHint(w, "exit_scope", ids, t) = ExitScope(w)
  BY DEF RunHint
<1>4. EnterScope(w) = Rescoped(w, Append(w.scopes, NoScope))
  BY DEF EnterScope, Rescoped, NoScope
<1>5. /\ Len(w.scopes) = 1 => ExitScope(w).err # "ok"
      /\ Len(w.scopes) # 1 => /\ ExitScope(w).vm = Rescoped(w, Front(w.scopes))
                              /\ ExitScope(w).err = "ok"
  BY DEF ExitScope, Rescoped, Refuse, Answer
<1>6. Answer(EnterScope(w), "ok", None).vm = EnterScope(w)
  BY DEF Answer
<1> QED
  BY <1>1, <1>2, <1>3, <1>4, <1>5, <1>6

\* The vm after a step.
LEMMA VmNext ==
  ASSUME NEW f \in Seq(Elements), NEW h \in Seq(Elements), NEW s, IsSequence(s), s # << >>,
         NEW p \in Values, vm' = VmWith(vm, f, h, s, Len(f), p)
  PROVE  /\ VmInv'
         /\ Frames' = f /\ Filling' = h /\ vm'.scopes = s /\ vm'.fp = p /\ Depth' = Len(f)
<1>1. vm'.memory.data[1] = f /\ vm'.memory.data[2] = h /\ vm'.scopes = s /\ vm'.fp = p
  BY VmFields
<1>2. VmWith(vm', f, h, s, Len(f), p) = VmWith(vm, f, h, s, Len(f), p)
  BY VmAgain
<1>3. Frames' = f /\ Filling' = h /\ Depth' = Len(f)
  BY <1>1 DEF Frames, Filling, Depth
<1> QED
  BY <1>1, <1>2, <1>3 DEF VmInv

\* What the invariant says of the vm.
LEMMA VmKnown ==
  ASSUME VmInv
  PROVE  /\ vm.memory = OnlyData(Both(Frames, Filling)) /\ vm.ap = P(0, Depth)
         /\ vm.ap.off = Depth /\ vm.references = References
         /\ Depth \in Nat
         /\ \A k \in Nat : /\ Value(vm, P(0, k)) = At(Frames, k)
                           /\ Value(vm, P(1, k)) = At(Filling, k)
<1>1. /\ vm.memory = OnlyData(Both(Frames, Filling)) /\ vm.memory.data = Both(Frames, Filling)
      /\ vm.ap = P(0, Depth) /\ vm.ap.off = Depth /\ vm.references = References
  <2> DEFINE f == Frames
             h == Filling
             s == vm.scopes
             o == Depth
             p == vm.fp
  <2>1. f \in Seq(Elements) /\ h \in Seq(Elements) /\ vm = VmWith(vm, f, h, s, o, p)
    BY DEF VmInv
  <2> HIDE DEF f, h, s, o, p
  <2>2. /\ vm.memory = OnlyData(Both(f, h)) /\ vm.memory.data = Both(f, h)
        /\ vm.ap = P(0, o) /\ vm.ap.off = o /\ vm.references = References
    BY <2>1, VmFields
  <2> QED
    BY <2>2 DEF f, h, o
<1>2. Depth \in Nat
  BY LenProperties DEF VmInv, Depth
<1>3. \A k \in Nat : /\ Value(vm, P(0, k)) = At(Frames, k)
                     /\ Value(vm, P(1, k)) = At(Filling, k)
  BY <1>1, TwoSegments DEF VmInv, Value
<1> QED
  BY <1>1, <1>2, <1>3

\* A run begins with empty frames.
LEMMA InitKept == Init => LoopsInv
<1> SUFFICES ASSUME Init PROVE LoopsInv
  OBVIOUS
<1>1. PICK heap \in Heaps, scopes \in Scopes :
        vm = [memory |-> [EmptyMemory EXCEPT !.data = << << >>, heap>>], trackers |-> << >>,
              scopes |-> scopes, ap |-> P(0, 0), fp |-> P(0, 0),
              builtin_runners |-> << >>, references |-> References]
  BY DEF Init
<1>2. heap \in Seq(Elements) /\ IsSequence(scopes) /\ scopes # << >>
  BY LoopsAssumption DEF Elements, IsSequence
<1> DEFINE f == << >>
<1>3. f \in Seq(Elements) /\ Len(f) = 0
  BY EmptySeq
<1>4. [EmptyMemory EXCEPT !.data = << << >>, heap>>] = OnlyData(Both(f, heap))
  <2>1. \A c, x, y, d : [[data |-> c, validated_addresses |-> x, validation_rules |-> y]
                            EXCEPT !.data = d]
                         = [data |-> d, validated_addresses |-> x, validation_rules |-> y]
    OBVIOUS
  <2>2. \A d : [EmptyMemory EXCEPT !.data = d] = OnlyData(d)
    BY <2>1 DEF EmptyMemory, OnlyData
  <2> QED
    BY <2>2 DEF Both, f
<1> HIDE DEF f
<1>5. vm = VmWith(vm, f, heap, scopes, 0, P(0, 0))
  BY <1>1, <1>4 DEF VmWith
<1>6. /\ Frames = f /\ Filling = heap /\ vm.scopes = scopes /\ vm.fp = P(0, 0) /\ Depth = 0
  <2> DEFINE p == P(0, 0)
             o == 0
             w == vm
  <2> HIDE DEF p, o, w
  <2>1. w = VmWith(vm, f, heap, scopes, o, p) /\ f \in Seq(Elements) /\ heap \in Seq(Elements)
    BY <1>2, <1>3, <1>5 DEF o, p, w
  <2>2. w.memory.data[1] = f /\ w.memory.data[2] = heap /\ w.scopes = scopes /\ w.fp = p
    BY <2>1, VmFields
  <2> QED
    BY <1>3, <2>2 DEF Frames, Filling, Depth, p, w
<1>7. P(0, 0) \in Values
  BY AddressOfSegment
<1>8. VmInv
  BY <1>2, <1>3, <1>5, <1>6, <1>7 DEF VmInv
<1>9. calls = 0 /\ pc = "main" /\ error = "ok" /\ MaxCalls \in Nat /\ CallSize \in Nat
  BY LoopsAssumption DEF Init, CallSize
<1>10. InMain
  BY <1>6, <1>9 DEF InMain
<1> QED
  BY <1>8, <1>9, <1>10 DEF LoopsInv

\* What holds between the calls does not depend on the scopes.
LEMMA ScopesKept ==
  ASSUME LoopsInv, error = "ok", pc = "main", error' = "ok", pc' = pc, calls' = calls,
         routine' = routine, before' = before, NEW s, IsSequence(s), s # << >>,
         vm' = Rescoped(vm, s)
  PROVE  LoopsInv'
<1>1. VmInv /\ InMain /\ calls \in 0..MaxCalls
  BY DEF LoopsInv
<1>2. vm' = VmWith(vm, Frames, Filling, s, Depth, vm.fp)
  BY <1>1, VmChanged DEF VmInv
<1>3. Frames \in Seq(Elements) /\ Filling \in Seq(Elements) /\ vm.fp \in Values
  BY <1>1 DEF VmInv
<1>4. VmInv' /\ Frames' = Frames /\ Filling' = Filling /\ Depth' = Depth
  BY <1>2, <1>3, VmNext DEF Depth
<1>5. Wanted' = Wanted
  BY DEF Wanted
<1>6. CallInv' <=> CallInv
  BY DEF CallInv
<1>7. InMain'
  BY <1>1, <1>4, <1>5, <1>6 DEF InMain
<1> QED
  BY <1>1, <1>4, <1>7 DEF LoopsInv

\* Opening a scope keeps the invariant.
LEMMA OpenScopeKept == LoopsInv /\ OpenScope => LoopsInv'
<1> SUFFICES ASSUME LoopsInv, OpenScope PROVE LoopsInv'
  OBVIOUS
<1> DEFINE s == Append(vm.scopes, NoScope)
<1>1. /\ error = "ok" /\ pc = "main" /\ error' = "ok" /\ pc' = pc /\ calls' = calls
      /\ routine' = routine /\ before' = before
      /\ vm' = ExecuteHint(vm, "enter_scope", NoScope, NoTracking).vm
  BY DEF OpenScope
<1>2. vm' = Rescoped(vm, s)
  BY <1>1, ScopeHints
<1>3. IsSequence(s) /\ s # << >>
  BY <1>1, ScopeEntered DEF LoopsInv, VmInv
<1> HIDE DEF s
<1> QED
  BY <1>1, <1>2, <1>3, ScopesKept

\* Closing one keeps it.
LEMMA CloseScopeKept == LoopsInv /\ CloseScope => LoopsInv'
<1> SUFFICES ASSUME LoopsInv, CloseScope PROVE LoopsInv'
  OBVIOUS
<1> DEFINE s == Front(vm.scopes)
           r == ExecuteHint(vm, "exit_scope", NoScope, NoTracking)
<1>1. /\ error = "ok" /\ pc = "main" /\ pc' = pc /\ calls' = calls
      /\ routine' = routine /\ before' = before /\ vm' = r.vm /\ error' = r.err
  BY DEF CloseScope
<1>2. IsSequence(vm.scopes) /\ vm.scopes # << >>
  BY <1>1 DEF LoopsInv, VmInv
<1>3. CASE Len(vm.scopes) = 1
  <2>1. error' # "ok"
    BY <1>1, <1>3, ScopeHints
  <2> QED
    BY <1>1, <2>1 DEF LoopsInv
<1>4. CASE Len(vm.scopes) # 1
  <2>1. vm' = Rescoped(vm, s) /\ error' = "ok"
    BY <1>1, <1>4, ScopeHints
  <2>2. IsSequence(s) /\ s # << >>
    BY <1>2, <1>4, ScopeLeft
  <2> HIDE DEF s
  <2> QED
    BY <1>1, <2>1, <2>2, ScopesKept
<1> QED
  BY <1>3, <1>4

\* The frame that a call pushes.
Beginning(arguments, fp, zero) == arguments \o <<fp, zero>>

\* The frame that a call pushes.
LEMMA FramePushed ==
  ASSUME NEW f \in Seq(Elements), NEW arguments \in Seq(Values), Len(arguments) = 3,
         NEW fp \in Values, NEW zero \in Values,
         NEW vals, vals = Beginning(arguments, fp, zero)
  PROVE  /\ vals \in Seq(Values) /\ Len(vals) = 5
         /\ Stored(f, Len(f), vals) \in Seq(Elements)
         /\ Len(Stored(f, Len(f), vals)) = Len(f) + 5 /\ Len(f) \in Nat
         /\ IsFrame(Stored(f, Len(f), vals), Len(f) + 5, arguments)
<1> DEFINE more == <<fp, zero>>
           n == Len(f)
           g == Stored(f, n, vals)
<1>1. more \in Seq(Values) /\ Len(more) = 2 /\ more[1] = fp /\ vals = arguments \o more
  BY DEF Beginning
<1> HIDE DEF more
<1>2. /\ vals \in Seq(Values) /\ Len(vals) = Len(arguments) + Len(more)
      /\ \A i \in 1..Len(arguments) + Len(more) :
           vals[i] = IF i <= Len(arguments) THEN arguments[i] ELSE more[i - Len(arguments)]
  <2> DEFINE all == arguments \o more
  <2>1. /\ all \in Seq(Values) /\ Len(all) = Len(arguments) + Len(more)
        /\ \A i \in 1..Len(arguments) + Len(more) :
             all[i] = IF i <= Len(arguments) THEN arguments[i] ELSE more[i - Len(arguments)]
    BY <1>1, ConcatProperties
  <2>2. vals = all
    BY <1>1
  <2> HIDE DEF all
  <2> QED
    BY <2>1, <2>2
<1>3. Len(vals) = 5 /\ vals[4] = fp /\ \A i \in 1..3 : vals[i] = arguments[i]
  BY <1>1, <1>2
<1>4. /\ g \in Seq(Elements) /\ n \in Nat
      /\ Len(g) = IF n < n + Len(vals) THEN n + Len(vals) ELSE n
      /\ \A k \in Nat : At(g, k) =
           IF k >= n /\ k < n + Len(vals) THEN vals[k - n + 1] ELSE At(f, k)
  BY <1>2, Placed
<1> HIDE DEF g, n
<1>5. Len(g) = n + 5
  BY <1>3, <1>4
<1>6. ASSUME NEW i \in 1..5
      PROVE  At(g, n + 5 + i - 6) = vals[i]
  <2> DEFINE k == n + 5 + i - 6
  <2>1. k \in Nat /\ k >= n /\ k < n + Len(vals) /\ k - n + 1 = i
    BY <1>3, <1>4
  <2> HIDE DEF k
  <2> QED
    BY <1>4, <2>1 DEF k
<1>7. At(g, n + 5 - 2) = fp /\ \A i \in 1..3 : At(g, n + 5 + i - 6) = arguments[i]
  <2>1. n + 5 - 2 = n + 5 + 4 - 6 /\ 4 \in 1..5 /\ 1..3 \subseteq 1..5
    BY <1>4
  <2> QED
    BY <1>3, <1>6, <2>1
<1>8. IsFrame(g, n + 5, arguments)
  BY <1>4, <1>5, <1>7 DEF IsFrame
<1> QED
  BY <1>2, <1>3, <1>4, <1>5, <1>8 DEF g, n

\* A call that begins keeps the invariant.
LEMMA BeginKept ==
  ASSUME LoopsInv, NEW name \in {"memcpy", "memset"},
         NEW arguments \in IF name = "memcpy" THEN Copies ELSE Sets, Begin(name, arguments)
  PROVE  LoopsInv'
<1> DEFINE vals == arguments \o <<vm.fp, I(0)>>
           m    == Push(vm, vals)
           g    == Stored(Frames, Depth, vals)
           call == [heap |-> Filling, scopes |-> vm.scopes, arguments |-> arguments]
           done == arguments[3] = I(0)
<1>1. /\ error = "ok" /\ pc = "main" /\ error' = "ok" /\ calls < MaxCalls
      /\ vm' = IF done THEN m ELSE [m EXCEPT !.fp = m.ap]
      /\ pc' = IF done THEN "main" ELSE "enter"
      /\ routine' = name /\ calls' = calls + 1 /\ steps' = 0 /\ before' = call
  BY DEF Begin, Filling
<1>2. VmInv /\ InMain /\ calls \in 0..MaxCalls
  BY <1>1 DEF LoopsInv
<1>3. /\ Frames \in Seq(Elements) /\ Filling \in Seq(Elements) /\ vm.fp \in Values
      /\ IsSequence(vm.scopes) /\ vm.scopes # << >> /\ Depth \in Nat
  BY <1>2, VmKnown DEF VmInv
<1>4. call.heap = Filling /\ call.scopes = vm.scopes /\ call.arguments = arguments
  OBVIOUS
<1> HIDE DEF call
<1>5. IsCall(name, call)
  BY <1>3, <1>4 DEF IsCall
<1>6. arguments \in Seq(Values) /\ Len(arguments) = 3
  BY <1>4, <1>5, ArgumentsKnown
<1>7. I(0) \in Values
  BY DEF I, IntValue, Values, Ints
<1> HIDE DEF vals
<1>8. /\ vals \in Seq(Values) /\ Len(vals) = 5 /\ g \in Seq(Elements) /\ Len(g) = Depth + 5
      /\ IsFrame(g, Depth + 5, arguments)
  <2> DEFINE fp == vm.fp
             zero == I(0)
             f == Frames
  <2>1. fp \in Values /\ zero \in Values /\ vals = Beginning(arguments, fp, zero)
        /\ f \in Seq(Elements) /\ g = Stored(f, Len(f), vals) /\ Depth = Len(f)
    BY <1>3, <1>7 DEF vals, Depth, Beginning
  <2> HIDE DEF fp, zero, f, g
  <2>2. /\ vals \in Seq(Values) /\ Len(vals) = 5
        /\ Stored(f, Len(f), vals) \in Seq(Elements)
        /\ Len(Stored(f, Len(f), vals)) = Len(f) + 5
        /\ IsFrame(Stored(f, Len(f), vals), Len(f) + 5, arguments)
    BY <1>6, <2>1, FramePushed
  <2> QED
    BY <2>1, <2>2
<1>9. m = VmWith(vm, g, Filling, vm.scopes, Len(g), vm.fp)
  <2> DEFINE w == vm
             v == vm
             s == vm.scopes
             p == vm.fp
             f == Frames
             h == Filling
  <2>1. w = VmWith(v, f, h, s, Len(f), p) /\ f \in Seq(Elements) /\ h \in Seq(Elements)
    BY <1>2, <1>3 DEF VmInv, Depth
  <2> HIDE DEF w, v, s, p, f, h, g
  <2>2. vals \in Seq(Values) /\ Len(vals) > 0
    BY <1>8
  <2>3. Push(w, vals) = VmWith(v, Stored(f, Len(f), vals), h, s, Len(f) + Len(vals), p)
    BY <2>1, <2>2, Pushed
  <2> QED
    BY <1>8, <2>3 DEF w, v, s, p, f, h, g, Depth
<1> HIDE DEF m, g
<1>10. /\ calls' \in 1..MaxCalls /\ calls' - 1 = calls /\ Depth <= (calls' - 1) * CallSize
  BY <1>1, <1>2, LoopsAssumption DEF InMain
<1>11. CallInv'
  BY <1>1, <1>5, <1>10 DEF CallInv
<1>12. CASE done
  <2>1. vm' = VmWith(vm, g, Filling, vm.scopes, Len(g), vm.fp) /\ pc' = "main"
    BY <1>1, <1>9, <1>12
  <2>2. VmInv' /\ Depth' = Len(g) /\ Filling' = Filling
    BY <1>3, <1>8, <2>1, VmNext
  <2>3. Depth' <= calls' * CallSize
    <3> DEFINE c == (calls' - 1) * CallSize
    <3>1. /\ c \in Nat /\ c + CallSize = calls' * CallSize /\ CallSize = 5 + 3 * MaxSteps
          /\ MaxSteps \in Nat /\ Depth <= c
      BY <1>10, CallsFit
    <3> HIDE DEF c
    <3>2. Depth + 5 <= c + CallSize
      BY <1>3, <3>1
    <3> QED
      BY <1>8, <2>2, <3>1, <3>2
  <2>4. IsInt(arguments[3]) /\ arguments[3].num = 0
    BY <1>7, <1>12, NoneAssumption DEF I, IntValue, IsInt
  <2>5. Filled(name, call)[0] = Ok(Filling)
    BY <1>4, <1>5, <2>4, FilledInTurn
  <2>6. Wanted' = Ok(Filling)
    BY <1>1, <1>4, <2>4, <2>5 DEF Wanted
  <2>7. InMain'
    BY <1>11, <2>2, <2>3, <2>6 DEF InMain
  <2> QED
    BY <1>1, <1>10, <2>1, <2>2, <2>7, LoopsAssumption DEF LoopsInv
<1>13. CASE ~done
  <2> DEFINE p == P(0, Len(g))
  <2>1. m.ap = p
    BY <1>9 DEF VmWith
  <2>2. vm' = VmWith(vm, g, Filling, vm.scopes, Len(g), p) /\ pc' = "enter"
    <3>1. vm' = Returned(m, p)
      BY <1>1, <1>13, <2>1 DEF Returned
    <3> QED
      BY <1>1, <1>9, <1>13, <3>1, VmChanged
  <2>3. p \in Values /\ p.off = Len(g) /\ Len(g) \in Nat
    <3> DEFINE n == Len(g)
    <3>1. n \in Nat
      BY <1>3, <1>8
    <3> HIDE DEF n
    <3>2. P(0, n) \in Values /\ P(0, n).off = n
      BY <3>1, AddressOfSegment
    <3> QED
      BY <3>1, <3>2 DEF n
  <2>4. /\ VmInv' /\ Depth' = Len(g) /\ Filling' = Filling /\ Frames' = g
        /\ vm'.scopes = vm.scopes /\ vm'.fp = p
    BY <1>3, <1>8, <2>2, <2>3, VmNext
  <2>5. Depth' <= (calls' - 1) * CallSize + 5 + 3 * steps'
    <3> DEFINE c == (calls' - 1) * CallSize
    <3>1. c \in Nat /\ Depth <= c
      BY <1>10, CallsFit
    <3> HIDE DEF c
    <3>2. Depth + 5 <= c + 5 + 3 * 0
      BY <1>3, <3>1
    <3> QED
      BY <1>1, <1>8, <2>4, <3>2 DEF c
  <2>6. InFrame'
    <3>1. steps' \in 0..MaxSteps
      BY <1>1, LoopsAssumption
    <3>2. vm'.fp = P(0, vm'.fp.off) /\ vm'.fp.off = Len(g)
      BY <2>3, <2>4
    <3>3. IsFrame(g, Len(g), arguments)
      BY <1>8
    <3>4. before'.arguments = arguments
      BY <1>1, <1>4
    <3> QED
      BY <1>11, <2>4, <2>5, <3>1, <3>2, <3>3, <3>4 DEF InFrame
  <2>7. Entering'
    BY <1>1, <1>4, <1>13, <2>4, <2>6 DEF Entering
  <2> QED
    BY <1>1, <1>10, <2>2, <2>4, <2>7, LoopsAssumption DEF LoopsInv
<1> QED
  BY <1>12, <1>13
-----------------------------------------------------------------------------
(* In a call.                                                              *)

\* A frame stays when cells are added after it.
LEMMA FrameStays ==
  ASSUME NEW f, NEW g, NEW fp, NEW arguments, IsFrame(f, fp, arguments),
         Len(f) \in Nat, Len(g) \in Nat, Len(f) <= Len(g),
         \A k \in Nat : k < Len(f) => At(g, k) = At(f, k)
  PROVE  IsFrame(g, fp, arguments)
<1>1. fp \in 5..Len(f) /\ fp \in 5..Len(g) /\ fp - 2 \in Nat /\ fp - 2 < Len(f)
  BY DEF IsFrame
<1>2. \A i \in 1..3 : fp + i - 6 \in Nat /\ fp + i - 6 < Len(f)
  BY <1>1
<1>3. \A i \in 1..3 : At(g, fp + i - 6) = arguments[i]
  BY <1>2 DEF IsFrame
<1>4. At(g, fp - 2) \in Values
  BY <1>1 DEF IsFrame
<1> QED
  BY <1>1, <1>3, <1>4 DEF IsFrame

\* What a call finds in its frame.
LEMMA FrameKnown ==
  ASSUME VmInv, InFrame
  PROVE  /\ vm.fp.off \in 5..Depth /\ Depth \in Nat
         /\ \A i \in 1..3 : Argument(i) = before.arguments[i] /\ Argument(i) \in Values
         /\ Value(vm, Field(vm.fp, -2)) \in Values
         /\ Pointers \in 1..2
         /\ \A i \in 1..Pointers :
              /\ before.arguments[i].off \in Nat
              /\ before.arguments[i] = P(1, before.arguments[i].off)
<1> DEFINE q == vm.fp.off
           arguments == before.arguments
<1>1. /\ vm.fp = P(0, q) /\ q \in 5..Depth /\ IsCall(routine, before)
      /\ \A i \in 1..3 : At(Frames, q + i - 6) = arguments[i]
      /\ At(Frames, q - 2) \in Values
  BY DEF InFrame, CallInv, IsFrame, Depth
<1>2. Depth \in Nat /\ \A k \in Nat : Value(vm, P(0, k)) = At(Frames, k)
  BY VmKnown
<1> HIDE DEF q
<1>3. \A i \in Int : Field(P(0, q), i) = P(0, q + i)
  <2>1. q \in Nat
    BY <1>1, <1>2
  <2> QED
    BY <2>1, AddressOfSegment
<1>4. ASSUME NEW i \in 1..3
      PROVE  Argument(i) = arguments[i]
  <2>1. i - 6 \in Int /\ q + (i - 6) = q + i - 6 /\ q + i - 6 \in Nat
    BY <1>1, <1>2
  <2>2. Field(vm.fp, i - 6) = P(0, q + i - 6)
    BY <1>1, <1>3, <2>1
  <2> QED
    BY <1>1, <1>2, <2>1, <2>2 DEF Argument
<1>5. Value(vm, Field(vm.fp, -2)) \in Values
  <2>1. -2 \in Int /\ q + (-2) = q - 2 /\ q - 2 \in Nat
    BY <1>1, <1>2
  <2>2. Field(vm.fp, -2) = P(0, q - 2)
    BY <1>1, <1>3, <2>1
  <2> QED
    BY <1>1, <1>2, <2>1, <2>2
<1>6. \A i \in 1..3 : arguments[i] \in Values
  BY <1>1, ArgumentsKnown
<1>7. routine \in {"memcpy", "memset"}
  BY <1>1 DEF IsCall
<1>8. Pointers = IF routine = "memset" THEN 1 ELSE 2
  BY <1>7 DEF Pointers
<1>9. /\ arguments[1].off \in Nat /\ arguments[1] = P(1, arguments[1].off)
      /\ routine # "memset" => arguments[2].off \in Nat /\ arguments[2] = P(1, arguments[2].off)
  BY <1>1, ArgumentsKnown
<1>10. \A i \in 1..Pointers : arguments[i].off \in Nat /\ arguments[i] = P(1, arguments[i].off)
  <2>1. CASE routine = "memset"
    <3>1. \A i \in 1..Pointers : i = 1
      BY <1>8, <2>1
    <3> QED
      BY <1>9, <3>1
  <2>2. CASE routine # "memset"
    <3>1. \A i \in 1..Pointers : i = 1 \/ i = 2
      BY <1>8, <2>2
    <3> QED
      BY <1>9, <2>2, <3>1
  <2> QED
    BY <2>1, <2>2
<1>11. Pointers \in 1..2
  BY <1>8
<1> QED
  BY <1>1, <1>2, <1>4, <1>5, <1>6, <1>10, <1>11 DEF q

\* The pointers of a round.
LEMMA PointersKnown ==
  ASSUME VmInv, InFrame, NEW k \in Nat, HasPointers(Frames, vm.fp.off, Pointers, before.arguments, k)
  PROVE  /\ Len(Frame) = Pointers /\ vm.fp.off + Pointers <= Depth
         /\ \A i \in 1..Pointers : Frame[i] = P(1, before.arguments[i].off + k)
<1> DEFINE n == Pointers
           arguments == before.arguments
<1>1. /\ n \in 1..2 /\ Depth \in Nat /\ vm.fp.off \in 5..Depth
      /\ \A i \in 1..n : arguments[i].off \in Nat /\ arguments[i] = P(1, arguments[i].off)
  BY FrameKnown
<1>2. /\ vm.fp.off + n <= Depth
      /\ \A i \in 1..n : At(Frames, Depth - n + i - 1) = Field(arguments[i], k)
  BY DEF HasPointers, Depth
<1>3. vm.ap = P(0, Depth) /\ \A j \in Nat : Value(vm, P(0, j)) = At(Frames, j)
  BY VmKnown
<1>4. Frame = [i \in 1..n |-> Value(vm, Field(vm.ap, i - 1 - n))]
  BY DEF Frame
<1> HIDE DEF n
<1>5. Len(Frame) = n
  BY <1>1, <1>4
<1>6. ASSUME NEW i \in 1..n
      PROVE  Frame[i] = P(1, arguments[i].off + k)
  <2>1. /\ i - 1 - n \in Int /\ Depth + (i - 1 - n) = Depth - n + i - 1
        /\ Depth - n + i - 1 \in Nat
    BY <1>1, <1>2
  <2>2. \A j \in Int : Field(P(0, Depth), j) = P(0, Depth + j)
    BY <1>1, AddressOfSegment
  <2>3. Field(vm.ap, i - 1 - n) = P(0, Depth - n + i - 1)
    BY <1>3, <2>1, <2>2
  <2>4. Frame[i] = Field(arguments[i], k)
    BY <1>2, <1>3, <1>4, <2>1, <2>3
  <2> DEFINE d == arguments[i].off
  <2>5. d \in Nat /\ arguments[i] = P(1, d)
    BY <1>1
  <2> HIDE DEF d
  <2>6. Field(P(1, d), k) = P(1, d + k)
    BY <2>5, AddressOfSegment
  <2> QED
    BY <2>4, <2>5, <2>6 DEF d
<1> QED
  BY <1>2, <1>5, <1>6 DEF n

\* There is room for what a hint of a call pushes.
LEMMA RoomForHint ==
  ASSUME VmInv, InFrame, Tick
  PROVE  /\ steps' \in 0..MaxSteps
         /\ \A d \in Nat : d <= Depth + 3 => d <= (calls - 1) * CallSize + 5 + 3 * steps'
         /\ Depth + 3 <= UsizeMax /\ UsizeMax \in Nat
<1> DEFINE c == (calls - 1) * CallSize
<1>1. /\ calls \in 1..MaxCalls /\ steps \in 0..MaxSteps /\ Depth <= c + 5 + 3 * steps
      /\ steps < MaxSteps /\ steps' = steps + 1
  BY DEF InFrame, CallInv, Tick
<1>2. /\ c \in Nat /\ c + CallSize = calls * CallSize /\ calls * CallSize <= UsizeMax
      /\ CallSize = 5 + 3 * MaxSteps /\ MaxSteps \in Nat /\ UsizeMax \in Nat
  BY <1>1, CallsFit
<1>3. Depth \in Nat
  BY VmKnown
<1> HIDE DEF c
<1>4. c + 5 + 3 * MaxSteps <= UsizeMax
  BY <1>2
<1>5. Depth + 3 <= c + 5 + 3 * steps' /\ steps' \in 0..MaxSteps
  BY <1>1, <1>2, <1>3
<1> DEFINE t == 3 * steps'
           u == 3 * MaxSteps
<1>6. t \in Nat /\ u \in Nat /\ t <= u
  <2> DEFINE x == steps'
  <2>1. x \in Nat /\ MaxSteps \in Nat /\ x <= MaxSteps
    BY <1>2, <1>5
  <2> HIDE DEF x
  <2>2. 3 * x \in Nat /\ 3 * MaxSteps \in Nat /\ 3 * x <= 3 * MaxSteps
    BY <2>1
  <2> QED
    BY <2>2 DEF x
<1> HIDE DEF t, u
<1>7. Depth + 3 <= c + 5 + t /\ c + 5 + u <= UsizeMax
  BY <1>4, <1>5 DEF t, u
<1>8. Depth + 3 <= UsizeMax
  BY <1>2, <1>3, <1>6, <1>7
<1>9. \A d \in Nat : d <= Depth + 3 => d <= c + 5 + t
  BY <1>2, <1>3, <1>6, <1>7
<1> QED
  BY <1>2, <1>5, <1>8, <1>9 DEF c, t

\* A call begins its rounds, or has no number of them.
LEMMA EnterKept ==
  ASSUME LoopsInv, Tick, Enter
  PROVE  LoopsInv'
<1> DEFINE arguments == before.arguments
           last == arguments[3]
           q    == vm.fp.off
           a    == P(0, q - 3)
           e    == EnterLoop(vm, a)
           vals == [i \in 1..Pointers |-> Argument(i)]
           g    == Stored(Frames, Depth, vals)
           s    == Append(vm.scopes, Counter(last.num))
           n    == Pointers
<1>1. /\ error = "ok" /\ pc = "enter" /\ pc' = "loop"
      /\ routine' = routine /\ calls' = calls /\ before' = before
      /\ error' = Execute(vm, EnterHint, 0, 0).err
      /\ vm' = IF Execute(vm, EnterHint, 0, 0).err = "ok"
               THEN Push(Execute(vm, EnterHint, 0, 0).vm, vals)
               ELSE Execute(vm, EnterHint, 0, 0).vm
  BY DEF Tick, Enter
<1>2. VmInv /\ Entering /\ InFrame
  BY <1>1 DEF LoopsInv, Entering
<1>3. /\ Frames \in Seq(Elements) /\ Filling \in Seq(Elements) /\ vm.fp \in Values
      /\ IsSequence(vm.scopes)
      /\ vm = VmWith(vm, Frames, Filling, vm.scopes, Depth, vm.fp)
  BY <1>2 DEF VmInv
<1>4. /\ q \in 5..Depth /\ Depth \in Nat /\ n \in 1..2
      /\ \A i \in 1..3 : Argument(i) = arguments[i] /\ Argument(i) \in Values
      /\ \A i \in 1..n : arguments[i].off \in Nat /\ arguments[i] = P(1, arguments[i].off)
  BY <1>2, FrameKnown
<1>5. /\ steps' \in 0..MaxSteps
      /\ \A d \in Nat : d <= Depth + 3 => d <= (calls - 1) * CallSize + 5 + 3 * steps'
      /\ Depth + 3 <= UsizeMax /\ UsizeMax \in Nat
  BY <1>2, RoomForHint
<1>6. /\ vm.references = References /\ vm.fp = P(0, q)
      /\ IsCall(routine, before) /\ IsFrame(Frames, q, arguments) /\ calls \in 1..MaxCalls
  BY <1>2, VmKnown DEF InFrame, CallInv
<1> HIDE DEF q, n, vals, g
<1>7. Execute(vm, EnterHint, 0, 0) = e
  <2>1. q \in 3..UsizeMax
    BY <1>4, <1>5
  <2> QED
    BY <1>6, <2>1, EnterHintRuns
<1>8. Value(vm, a) = last
  <2>1. Field(P(0, q), 3 - 6) = a
    <3>1. q \in Nat /\ 3 - 6 \in Int /\ q + (3 - 6) = q - 3
      BY <1>4
    <3> HIDE DEF a
    <3>2. Field(P(0, q), 3 - 6) = P(0, q + (3 - 6))
      BY <3>1, AddressOfSegment
    <3> QED
      BY <3>1, <3>2 DEF a
  <2>2. Argument(3) = Value(vm, a)
    BY <1>6, <2>1 DEF Argument
  <2> QED
    BY <1>4, <2>2
<1>9. last \in Values /\ last # I(0) /\ vm.scopes = before.scopes /\ Filling = before.heap
  BY <1>2, <1>4 DEF Entering
<1> HIDE DEF a, e, s, last
<1>10. /\ ~IsInt(last) => e.err # "ok"
       /\ IsInt(last) => e = Answer(VmWith(vm, Frames, Filling, s, Depth, vm.fp), "ok", None)
  <2> DEFINE v == vm
             f == Frames
             h == Filling
             t == vm.scopes
             o == Depth
             p == vm.fp
             w == vm
  <2>1. w = VmWith(v, f, h, t, o, p) /\ Value(w, a) \in Values /\ Value(w, a) = last
    BY <1>3, <1>8, <1>9
  <2> HIDE DEF v, f, h, t, o, p, w
  <2>2. /\ ~IsInt(Value(w, a)) => EnterLoop(w, a).err # "ok"
        /\ IsInt(Value(w, a)) =>
             EnterLoop(w, a)
               = Answer(VmWith(v, f, h, Append(t, Counter(Value(w, a).num)), o, p), "ok", None)
    BY <2>1, LoopEntered
  <2>3. EnterLoop(w, a) = e /\ Append(t, Counter(last.num)) = s
    BY DEF e, s, t, w
  <2>4. /\ ~IsInt(last) => e.err # "ok"
        /\ IsInt(last) => e = Answer(VmWith(v, f, h, s, o, p), "ok", None)
    BY <2>1, <2>2, <2>3
  <2> QED
    BY <2>4 DEF v, f, h, o, p
<1>11. CASE ~IsInt(last)
  <2>1. error' # "ok"
    BY <1>1, <1>7, <1>10, <1>11
  <2>2. Wanted'.err # "ok"
    BY <1>1, <1>11 DEF Wanted, Err, last
  <2> QED
    BY <2>1, <2>2 DEF LoopsInv
<1>12. CASE IsInt(last)
  <2>1. vals \in Seq(Values) /\ Len(vals) = n /\ \A i \in 1..n : vals[i] = arguments[i]
    BY <1>4 DEF vals, n
  <2>2. error' = "ok" /\ vm' = Push(VmWith(vm, Frames, Filling, s, Depth, vm.fp), vals)
    BY <1>1, <1>7, <1>10, <1>12 DEF Answer
  <2>3. vm' = VmWith(vm, g, Filling, s, Depth + n, vm.fp)
    <3> DEFINE v == vm
               f == Frames
               h == Filling
               p == vm.fp
               w == VmWith(vm, Frames, Filling, s, Depth, vm.fp)
    <3>1. w = VmWith(v, f, h, s, Len(f), p) /\ f \in Seq(Elements) /\ h \in Seq(Elements)
      BY <1>3 DEF Depth
    <3>2. Len(vals) > 0
      BY <1>4, <2>1
    <3> HIDE DEF v, f, h, p, w
    <3>3. Push(w, vals) = VmWith(v, Stored(f, Len(f), vals), h, s, Len(f) + Len(vals), p)
      BY <2>1, <3>1, <3>2, Pushed
    <3> QED
      BY <2>1, <2>2, <3>3 DEF v, f, h, p, w, Depth, g
  <2>4. /\ g \in Seq(Elements) /\ Len(g) = Depth + n
        /\ \A k \in Nat : At(g, k) =
             IF k >= Depth /\ k < Depth + n THEN vals[k - Depth + 1] ELSE At(Frames, k)
    <3> DEFINE o == Depth
    <3>1. /\ Stored(Frames, o, vals) \in Seq(Elements)
          /\ Len(Stored(Frames, o, vals)) = IF Len(Frames) < o + Len(vals) THEN o + Len(vals)
                                            ELSE Len(Frames)
          /\ \A k \in Nat : At(Stored(Frames, o, vals), k) =
               IF k >= o /\ k < o + Len(vals) THEN vals[k - o + 1] ELSE At(Frames, k)
      <4>1. o \in Nat
        BY <1>4
      <4> HIDE DEF o
      <4> QED
        BY <1>3, <2>1, <4>1, Placed
    <3>2. Len(g) = Depth + n
      BY <1>4, <2>1, <3>1 DEF g, Depth
    <3> QED
      BY <2>1, <3>1, <3>2 DEF g
  <2>5. IsSequence(s) /\ s # << >>
    BY <1>3, ScopeEntered DEF s
  <2>6. /\ VmInv' /\ Frames' = g /\ Filling' = Filling /\ vm'.scopes = s /\ vm'.fp = vm.fp
        /\ Depth' = Depth + n
    BY <1>3, <2>3, <2>4, <2>5, VmNext
  <2>7. IsFrame(g, q, arguments)
    <3>1. Len(Frames) = Depth /\ Depth \in Nat /\ Len(g) \in Nat /\ Len(Frames) <= Len(g)
      BY <1>4, <2>4 DEF Depth
    <3>2. \A k \in Nat : k < Len(Frames) => At(g, k) = At(Frames, k)
      BY <2>4, <3>1
    <3> QED
      BY <1>6, <3>1, <3>2, FrameStays
  <2>8. HasPointers(g, q, n, arguments, 0)
    <3>1. q + n <= Len(g)
      BY <1>4, <2>4
    <3>2. ASSUME NEW i \in 1..n
          PROVE  At(g, Len(g) - n + i - 1) = Field(arguments[i], 0)
      <4> DEFINE k == Len(g) - n + i - 1
                 d == arguments[i].off
      <4>1. k \in Nat /\ k >= Depth /\ k < Depth + n /\ k - Depth + 1 = i
        BY <1>4, <2>4
      <4>2. d \in Nat /\ arguments[i] = P(1, d)
        BY <1>4
      <4> HIDE DEF k, d
      <4>3. At(g, k) = arguments[i]
        BY <2>1, <2>4, <4>1
      <4>4. Field(P(1, d), 0) = P(1, d)
        <5>1. Field(P(1, d), 0) = P(1, d + 0) /\ d + 0 = d
          BY <4>2, AddressOfSegment
        <5> QED
          BY <5>1
      <4> QED
        BY <4>2, <4>3, <4>4 DEF k
    <3> QED
      BY <3>1, <3>2 DEF HasPointers
  <2>9. InFrame'
    <3>1. Depth' <= (calls - 1) * CallSize + 5 + 3 * steps'
      <4>1. Depth + n \in Nat /\ Depth + n <= Depth + 3
        BY <1>4
      <4> QED
        BY <1>5, <2>6, <4>1
    <3>2. CallInv'
      BY <1>1, <1>6 DEF CallInv
    <3>3. vm'.fp = P(0, vm'.fp.off) /\ vm'.fp.off = q
      BY <1>6, <2>6 DEF q
    <3> QED
      BY <1>1, <1>5, <2>6, <2>7, <3>1, <3>2, <3>3 DEF InFrame
  <2>10. last.num \in Nat /\ last.num # 0 /\ last = I(last.num)
    <3>1. last.num \in Nat /\ last = I(last.num)
      BY <1>6, <1>12, ArgumentsKnown DEF last
    <3> QED
      BY <1>9, <3>1
  <2>11. Filled(routine, before)[0] = Ok(Filling)
    BY <1>6, <1>9, <1>12, FilledInTurn DEF last
  <2>12. Looping(0)'
    <3>1. s = Append(before.scopes, Counter(last.num - 0))
      BY <1>9, <2>10 DEF s
    <3>2. Pointers' = n
      BY <1>1 DEF Pointers, n
    <3>3. vm'.fp.off = q
      BY <2>6 DEF q
    <3>4. 0 \in 0..last.num /\ 0 < last.num /\ pc' = "loop"
      BY <1>1, <2>10
    <3> QED
      BY <1>1, <1>12, <2>6, <2>8, <2>9, <2>11, <3>1, <3>2, <3>3, <3>4 DEF Looping, last
  <2> QED
    BY <1>1, <1>6, <2>2, <2>6, <2>12, LoopsAssumption DEF LoopsInv
<1> QED
  BY <1>11, <1>12
-----------------------------------------------------------------------------
(* A round.                                                                *)

\* The cell that the next round of a call fills when k are filled, and what it
\* fills it with.
RoundTarget(k) == before.arguments[1].off + k
RoundValue(k)  == IF routine = "memset" THEN before.arguments[2]
                  ELSE At(Filling, before.arguments[2].off + k)

\* The hint of a round and the heap that is wanted have the same cell in mind.
LEMMA RoundFills ==
  ASSUME VmInv, pc = "loop", NEW k \in Nat, Looping(k)
  PROVE  /\ before.arguments[3].num \in Nat /\ k + 1 \in 1..before.arguments[3].num
         /\ RoundTarget(k) \in Nat /\ RoundValue(k) \in Elements
         /\ Frame[1] = P(1, RoundTarget(k))
         /\ (IF routine = "memcpy" THEN Value(vm, Frame[2]) ELSE Argument(2)) = RoundValue(k)
         /\ Filled(routine, before)[k + 1] = FilledMore(Filling, RoundTarget(k), RoundValue(k))
<1> DEFINE arguments == before.arguments
           n == arguments[3].num
           d == arguments[1].off
           s == arguments[2].off
<1>1. /\ InFrame /\ IsCall(routine, before) /\ IsInt(arguments[3]) /\ k < n
      /\ Filled(routine, before)[k] = Ok(Filling)
      /\ HasPointers(Frames, vm.fp.off, Pointers, arguments, k)
  BY DEF Looping, InFrame, CallInv
<1>2. /\ n \in Nat /\ k + 1 \in 1..n /\ k + 1 - 1 = k /\ k + 1 \in Nat \ {0}
      /\ routine \in {"memcpy", "memset"}
  <2>1. n \in Nat
    BY <1>1, ArgumentsKnown
  <2> HIDE DEF n
  <2> QED
    BY <1>1, <2>1 DEF IsCall
<1>3. /\ d \in Nat /\ arguments[2] \in Values
      /\ routine # "memset" => s \in Nat
  BY <1>1, ArgumentsKnown
<1>4. /\ d + k \in Nat /\ d + (k + 1) - 1 = d + k
      /\ routine # "memset" => s + k \in Nat /\ s + (k + 1) - 1 = s + k
  BY <1>3
<1>5. \A i \in 1..Pointers : Frame[i] = P(1, arguments[i].off + k)
  BY <1>1, PointersKnown
<1>6. Frame[1] = P(1, d + k) /\ (routine # "memset" => Frame[2] = P(1, s + k))
  <2>1. 1 \in 1..Pointers /\ (routine # "memset" => 2 \in 1..Pointers)
    BY <1>2 DEF Pointers
  <2> QED
    BY <1>5, <2>1
<1>7. Argument(2) = arguments[2]
  BY <1>1, FrameKnown
<1>8. (IF routine = "memcpy" THEN Value(vm, Frame[2]) ELSE Argument(2)) = RoundValue(k)
  BY <1>2, <1>4, <1>6, <1>7, VmKnown DEF RoundValue
<1>9. RoundValue(k) \in Elements
  <2>1. \A j \in Nat : j < Len(Filling) => j + 1 \in 1..Len(Filling)
    BY LenProperties DEF VmInv
  <2>2. \A j \in Nat : At(Filling, j) \in Elements
    BY <2>1, ElementOfSeq DEF At, Elements, VmInv
  <2> QED
    BY <1>3, <1>4, <2>2 DEF RoundValue, Elements
<1>10. FillNext(routine, arguments, Ok(Filling), k + 1)
         = FilledMore(Filling, RoundTarget(k), RoundValue(k))
  <2> DEFINE i == k + 1
             h == Filling
  <2>1. i \in Nat \ {0} /\ h \in Seq(Elements)
    BY <1>2 DEF VmInv
  <2>2. d + i - 1 = d + k /\ (routine # "memset" => s + i - 1 = s + k)
    BY <1>4
  <2> HIDE DEF i, h
  <2>3. FillNext(routine, arguments, Ok(h), i)
          = FilledMore(h, d + i - 1, IF routine = "memset" THEN arguments[2]
                                     ELSE At(h, s + i - 1))
    BY <1>1, <2>1, FillStep
  <2> QED
    BY <2>2, <2>3 DEF i, h, RoundTarget, RoundValue
<1>11. Filled(routine, before)[k + 1] = FillNext(routine, arguments, Ok(Filling), k + 1)
  <2>1. \A i \in 1..n : Filled(routine, before)[i]
                          = FillNext(routine, arguments, Filled(routine, before)[i - 1], i)
    BY <1>1, FilledInTurn
  <2> QED
    BY <1>1, <1>2, <2>1
<1> QED
  BY <1>2, <1>4, <1>6, <1>8, <1>9, <1>10, <1>11 DEF RoundTarget

\* A cell that cannot be filled is the call's failure.
LEMMA RoundFails ==
  ASSUME VmInv, pc = "loop", NEW k \in Nat, Looping(k),
         RoundValue(k) = None \/ At(Filling, RoundTarget(k)) \notin {None, RoundValue(k)}
  PROVE  Wanted.err # "ok"
<1> DEFINE n == before.arguments[3].num
<1>1. /\ k + 1 \in 0..n /\ n \in Nat
      /\ Filled(routine, before)[k + 1] = FilledMore(Filling, RoundTarget(k), RoundValue(k))
  BY RoundFills
<1>2. Filled(routine, before)[k + 1].err # "ok"
  BY <1>1 DEF FilledMore, Err
<1>3. IsCall(routine, before) /\ IsInt(before.arguments[3])
  BY DEF Looping, InFrame, CallInv
<1>4. \A j \in 0..n : Filled(routine, before)[j].err # "ok" =>
                        Filled(routine, before)[n].err # "ok"
  BY <1>3, FilledInTurn
<1> QED
  BY <1>1, <1>2, <1>3, <1>4 DEF Wanted

\* The pointers of the next round, the frames after them, and these with the
\* flag below the pointers.
NextPointers  == Advance(Frame)
NextFrames    == Stored(Frames, Depth + 1, NextPointers)
FlaggedFrames(flag) == PutAt(NextFrames, Depth, flag)

\* The frames after a round.
LEMMA RoundFrames ==
  ASSUME VmInv, InFrame, NEW k \in Nat,
         HasPointers(Frames, vm.fp.off, Pointers, before.arguments, k),
         NEW flag \in Values
  PROVE  LET g == FlaggedFrames(flag)
         IN  /\ NextPointers \in Seq(Values) /\ Len(NextPointers) = Pointers
             /\ NextFrames \in Seq(Elements) /\ At(NextFrames, Depth) = None
             /\ g \in Seq(Elements) /\ Len(g) = Depth + Pointers + 1 /\ At(g, Depth) = flag
             /\ IsFrame(g, vm.fp.off, before.arguments)
             /\ HasPointers(g, vm.fp.off, Pointers, before.arguments, k + 1)
<1> DEFINE n == Pointers
           q == vm.fp.off
           arguments == before.arguments
           next == NextPointers
           f == Frames
           o == Depth + 1
           w == NextFrames
           g == FlaggedFrames(flag)
<1>1. /\ n \in 1..2 /\ Depth \in Nat /\ Len(f) = Depth /\ f \in Seq(Elements) /\ o \in Nat
      /\ \A i \in 1..n : arguments[i].off \in Nat
  BY FrameKnown DEF VmInv, Depth
<1>2. q + n <= Depth /\ q \in Nat /\ \A i \in 1..n : Frame[i] = P(1, arguments[i].off + k)
  BY FrameKnown, PointersKnown
<1>3. IsFrame(f, q, arguments)
  BY DEF InFrame
<1> HIDE DEF q
<1>4. \A i \in 1..n : /\ Field(Frame[i], 1) = P(1, arguments[i].off + (k + 1))
                      /\ Field(arguments[i], k + 1) = P(1, arguments[i].off + (k + 1))
                      /\ P(1, arguments[i].off + (k + 1)) \in Values
  <2> TAKE i \in 1..n
  <2> DEFINE d == arguments[i].off
             j == k + 1
  <2>1. d \in Nat /\ d + k \in Nat /\ j \in Nat /\ d + j \in Nat /\ d + k + 1 = d + j
    BY <1>1
  <2>2. Frame[i] = P(1, d + k) /\ arguments[i] = P(1, d)
    BY <1>2, FrameKnown
  <2> HIDE DEF d, j
  <2>3. Field(P(1, d + k), 1) = P(1, d + k + 1)
    BY <2>1, AddressOfSegment
  <2>4. Field(P(1, d), j) = P(1, d + j)
    <3>1. \A c \in Int : Field(P(1, d), c) = P(1, d + c)
      BY <2>1, AddressOfSegment
    <3> QED
      BY <2>1, <3>1
  <2>5. P(1, d + j) \in Values
    <3> DEFINE e == d + j
    <3> HIDE DEF e
    <3>1. P(1, e) \in Values
      BY <2>1, AddressOfSegment DEF e
    <3> QED
      BY <3>1 DEF e
  <2> QED
    BY <2>1, <2>2, <2>3, <2>4, <2>5 DEF d, j
<1>5. next \in Seq(Values) /\ Len(next) = n /\ \A i \in 1..n : next[i] = Field(arguments[i], k + 1)
  BY <1>1, <1>4, PointersKnown DEF NextPointers, Advance
<1> HIDE DEF next, f, o, n
<1>6. /\ Stored(f, o, next) \in Seq(Elements)
      /\ Len(Stored(f, o, next)) = IF Len(f) < o + Len(next) THEN o + Len(next) ELSE Len(f)
      /\ \A j \in Nat : At(Stored(f, o, next), j) =
           IF j >= o /\ j < o + Len(next) THEN next[j - o + 1] ELSE At(f, j)
  BY <1>1, <1>5, Placed
<1>7. w = Stored(f, o, next)
  BY DEF NextFrames, f, o, next
<1> HIDE DEF w
<1>8. /\ w \in Seq(Elements) /\ Len(w) = Depth + n + 1
      /\ \A j \in Nat : At(w, j) = IF j >= Depth + 1 /\ j < Depth + 1 + n
                                   THEN next[j - (Depth + 1) + 1] ELSE At(f, j)
  BY <1>1, <1>5, <1>6, <1>7 DEF o
<1>9. At(w, Depth) = None
  <2>1. ~(Depth >= Depth + 1) /\ ~(Depth < Len(f))
    BY <1>1
  <2> QED
    BY <1>1, <1>8, <2>1 DEF At
<1>10. /\ g \in Seq(Elements) /\ Len(g) = Depth + n + 1
       /\ \A j \in Nat : At(g, j) = IF j = Depth THEN flag ELSE At(w, j)
  <2>1. g = PutAt(w, Depth, flag)
    BY DEF FlaggedFrames, w
  <2> DEFINE off == Depth
             more == PutAt(w, off, flag)
  <2>2. off \in Nat /\ w \in Seq(Elements) /\ flag \in Values /\ off < Len(w)
    BY <1>1, <1>8
  <2> HIDE DEF off, g
  <2>3. more \in Seq(Elements)
    BY <2>2, OnePlaced
  <2>4. Len(more) = Len(w)
    BY <2>2, OnePlaced
  <2>5. \A j \in Nat : At(more, j) = IF j = off THEN flag ELSE At(w, j)
    BY <2>2, OnePlaced
  <2> QED
    BY <1>8, <2>1, <2>3, <2>4, <2>5 DEF off
<1> HIDE DEF g
<1>11. IsFrame(g, q, arguments)
  <2>1. Len(f) \in Nat /\ Len(g) \in Nat /\ Len(f) <= Len(g)
    BY <1>1, <1>10
  <2>2. \A j \in Nat : j < Len(f) => At(g, j) = At(f, j)
    BY <1>1, <1>8, <1>10
  <2> QED
    BY <1>3, <2>1, <2>2, FrameStays
<1>12. HasPointers(g, q, n, arguments, k + 1)
  <2>1. q + n <= Len(g)
    BY <1>1, <1>2, <1>10
  <2>2. ASSUME NEW i \in 1..n
        PROVE  At(g, Len(g) - n + i - 1) = Field(arguments[i], k + 1)
    <3> DEFINE j == Len(g) - n + i - 1
    <3>1. j \in Nat /\ j # Depth /\ j >= Depth + 1 /\ j < Depth + 1 + n /\ j - (Depth + 1) + 1 = i
      BY <1>1, <1>10
    <3> HIDE DEF j
    <3> QED
      BY <1>5, <1>8, <1>10, <3>1 DEF j
  <2> QED
    BY <2>1, <2>2 DEF HasPointers
<1> QED
  BY <1>1, <1>5, <1>8, <1>9, <1>10, <1>11, <1>12 DEF n, q, w, g, next

\* What is left of a round's flag when its cell is filled.
MoreAfter(k) == Flag(before.arguments[3].num - k - 1 > 0)

\* The instructions and the hint of a round, once its cell is filled.
LEMMA RoundRuns ==
  ASSUME VmInv, pc = "loop", Tick, NEW k \in Nat, Looping(k), NEW h \in Seq(Elements),
         NEW w, w = Rewritten(vm, OnlyData(Both(Frames, h)))
  PROVE  LET r == EndRound(Advanced(w, Frame))
         IN  /\ r.err = "ok" /\ Value(r.vm, vm.ap) = MoreAfter(k)
             /\ Moved(r.vm, r.vm.ap.off + 1)
                  = VmWith(vm, FlaggedFrames(MoreAfter(k)), h,
                           Append(before.scopes, Counter(before.arguments[3].num - k - 1)),
                           Depth + Pointers + 1, vm.fp)
<1> DEFINE v == vm
           f == Frames
           p == vm.fp
           s == before.scopes
           n == Pointers
           c == before.arguments[3].num - k
           t == Append(s, Counter(c))
           o == Depth + n
           next == NextPointers
           flag == MoreAfter(k)
           g == FlaggedFrames(flag)
           a == Depth
           frame == Frame
           m == Advanced(w, Frame)
           r == EndRound(Advanced(w, Frame))
<1>1. InFrame /\ IsSequence(s) /\ vm.scopes = t
  BY DEF Looping, InFrame, CallInv, IsCall
<1>2. /\ n \in 1..2 /\ a \in Nat /\ a + 3 <= UsizeMax /\ UsizeMax \in Nat
      /\ f \in Seq(Elements) /\ Len(f) = a
  BY <1>1, FrameKnown, RoomForHint DEF VmInv, Depth
<1>3. c \in Int /\ flag = Flag(c - 1 > 0) /\ flag \in Values
  <2>1. c \in Int
    BY RoundFills
  <2>2. flag = Flag(c - 1 > 0)
    BY DEF MoreAfter
  <2> HIDE DEF c, flag
  <2>3. Flag(c - 1 > 0) \in Values
    BY DEF Flag, IntValue, Values, Ints
  <2> QED
    BY <2>1, <2>2, <2>3
<1>4. /\ next \in Seq(Values) /\ Len(next) = n /\ NextFrames \in Seq(Elements)
      /\ At(NextFrames, a) = None /\ g \in Seq(Elements) /\ At(g, a) = flag
  <2> HIDE DEF flag
  <2> QED
    BY <1>1, <1>3, RoundFrames DEF Looping
<1>5. Len(frame) = n /\ next = Advance(frame)
  <2>1. Len(frame) = n
    BY <1>1, PointersKnown DEF Looping
  <2> QED
    BY <2>1 DEF NextPointers
<1>6. w = VmWith(v, f, h, t, Len(f), p)
  <2>1. vm = VmWith(v, f, Filling, t, a, p)
    BY <1>1 DEF VmInv
  <2> HIDE DEF v, f, t, a, p
  <2>2. \A x : Rewritten(vm, OnlyData(Both(x, h))) = VmWith(v, x, h, t, a, p)
    BY <2>1, VmChanged
  <2> QED
    BY <1>2, <2>2 DEF f
<1>7. NextFrames = Stored(f, Len(f) + 1, next)
  BY <1>2 DEF NextFrames
<1> HIDE DEF v, f, p, s, c, t, next, flag, g, n, frame, a
<1>8. m = VmWith(v, NextFrames, h, t, o, p)
  <2>1. Len(frame) > 0
    BY <1>2, <1>5
  <2>2. Advanced(w, frame) = VmWith(v, Stored(f, Len(f) + 1, next), h, t, Len(f) + Len(frame), p)
    BY <1>2, <1>4, <1>5, <1>6, <2>1, FrameAdvanced
  <2> QED
    BY <1>2, <1>5, <1>7, <2>2 DEF frame, a
<1> HIDE DEF m
<1>9. r = NextRound(m, P(0, a))
  <2>1. o \in 0..UsizeMax /\ n <= o /\ o - n = a
    BY <1>2 DEF a
  <2>2. m.references = References /\ m.ap = P(0, o)
    BY <1>8 DEF VmWith
  <2> HIDE DEF o
  <2>3. EndRound(m) = NextRound(m, P(0, o - Pointers))
    BY <2>1, <2>2, EndRoundRuns DEF n
  <2> QED
    BY <2>1, <2>3 DEF m, n
<1> HIDE DEF r
<1>10. r = Answer(VmWith(v, g, h, Append(s, Counter(c - 1)), o, p), "ok", None)
  <2> DEFINE e == NextFrames
  <2>1. g = PutAt(e, a, Flag(c - 1 > 0)) /\ e \in Seq(Elements) /\ At(e, a) = None
    BY <1>3, <1>4 DEF g, FlaggedFrames, flag, a
  <2>2. m = VmWith(v, e, h, Append(s, Counter(c)), o, p)
    BY <1>8 DEF t
  <2> HIDE DEF e, o
  <2>3. NextRound(m, P(0, a)) = Answer(VmWith(v, PutAt(e, a, Flag(c - 1 > 0)), h,
                                              Append(s, Counter(c - 1)), o, p), "ok", None)
    BY <1>1, <1>2, <1>3, <2>1, <2>2, RoundCounted
  <2> QED
    BY <1>9, <2>1, <2>3
<1> DEFINE x == Append(s, Counter(c - 1))
<1>11. r.err = "ok" /\ r.vm = VmWith(v, g, h, x, o, p)
  BY <1>10 DEF Answer
<1> HIDE DEF x, o
<1>12. Value(r.vm, P(0, a)) = flag
  <2>1. r.vm.memory.data = Both(g, h)
    BY <1>4, <1>11, VmFields
  <2>2. Cell(Both(g, h), P(0, a)) = At(g, a)
    BY <1>2, <1>4, TwoSegments
  <2> QED
    BY <1>4, <2>1, <2>2 DEF Value
<1>13. Moved(r.vm, r.vm.ap.off + 1) = VmWith(v, g, h, x, o + 1, p)
  <2>1. r.vm.ap.off = o
    BY <1>4, <1>11, VmFields
  <2> QED
    BY <1>11, <2>1, VmChanged
<1>14. vm.ap = P(0, a)
  BY VmKnown DEF a
<1> QED
  BY <1>11, <1>12, <1>13, <1>14 DEF v, g, x, o, n, p, c, s, a, flag, r

\* The flag of a round is zero after the last.
LEMMA LastRound ==
  ASSUME NEW n \in Nat, NEW k \in Nat, k + 1 \in 1..n
  PROVE  IF Flag(n - k - 1 > 0) = I(0) THEN k + 1 = n ELSE k + 1 < n
<1>1. Flag(n - k - 1 > 0) = I(0) <=> ~(n - k - 1 > 0)
  BY DEF Flag, I, IntValue
<1> QED
  BY <1>1

\* A round goes on from the heap that is wanted to the next, or fails where a
\* cell cannot be filled.
LEMMA RoundKept ==
  ASSUME LoopsInv, Tick, Round
  PROVE  LoopsInv'
<1> DEFINE arguments == before.arguments
           n == arguments[3].num
<1>1. /\ error = "ok" /\ pc = "loop"
      /\ routine' = routine /\ calls' = calls /\ before' = before
  BY DEF Tick, Round
<1>2. VmInv /\ calls \in 0..MaxCalls
  BY <1>1 DEF LoopsInv
<1>3. PICK k \in Nat : Looping(k)
  BY <1>1 DEF LoopsInv
<1> DEFINE target == RoundTarget(k)
           value  == RoundValue(k)
           stored == Insert(vm.memory, Frame[1], value)
           w      == [vm EXCEPT !.memory = stored.memory]
           r      == EndRound(Advanced(w, Frame))
<1>4. /\ n \in Nat /\ k + 1 \in 1..n
      /\ target \in Nat /\ value \in Elements /\ Frame[1] = P(1, target)
      /\ (IF routine = "memcpy" THEN Value(vm, Frame[2]) ELSE Argument(2)) = value
      /\ Filled(routine, before)[k + 1] = FilledMore(Filling, target, value)
  BY <1>1, <1>2, <1>3, RoundFills
<1>5. InFrame /\ IsInt(arguments[3]) /\ HasPointers(Frames, vm.fp.off, Pointers, arguments, k)
  BY <1>3 DEF Looping
<1> HIDE DEF value, target, n
<1>6. IF value = None \/ stored.err # "ok"
      THEN error' = IF value = None THEN "UnknownOperand" ELSE stored.err
      ELSE /\ error' = r.err
           /\ vm' = [r.vm EXCEPT !.ap.off = @ + 1]
           /\ pc' = IF Value(r.vm, vm.ap) = I(0) THEN "leave" ELSE "loop"
  BY <1>4 DEF Round
<1> HIDE DEF w, r, stored
<1>7. ASSUME value # None
      PROVE  /\ stored.err = "ok" <=> At(Filling, target) \in {None, value}
             /\ stored.err = "ok" =>
                  stored.memory = OnlyData(Both(Frames, PutAt(Filling, target, value)))
  <2> DEFINE f == Frames
             h == Filling
             m == OnlyData(Both(f, h))
  <2>1. vm.memory = m /\ f \in Seq(Elements) /\ h \in Seq(Elements)
    BY <1>2, VmKnown DEF VmInv
  <2>2. value \in Values
    BY <1>4, <1>7 DEF Elements
  <2> HIDE DEF f, h
  <2>3. /\ Insert(m, P(1, target), value).err = "ok" <=> At(h, target) \in {None, value}
        /\ Insert(m, P(1, target), value).err = "ok" =>
             Insert(m, P(1, target), value).memory = OnlyData(Both(f, PutAt(h, target, value)))
    BY <1>4, <2>1, <2>2, InsertInHeap
  <2> QED
    BY <1>4, <2>1, <2>3 DEF stored, f, h
<1>8. CASE value = None \/ stored.err # "ok"
  <2>1. error' # "ok"
    BY <1>6, <1>8
  <2>2. value = None \/ At(Filling, target) \notin {None, value}
    BY <1>7, <1>8
  <2>3. Wanted.err # "ok"
    BY <1>1, <1>2, <1>3, <2>2, RoundFails DEF value, target
  <2>4. Wanted' = Wanted
    BY <1>1 DEF Wanted
  <2> QED
    BY <2>1, <2>3, <2>4 DEF LoopsInv
<1>9. CASE value # None /\ stored.err = "ok"
  <2> DEFINE h    == PutAt(Filling, target, value)
             flag == MoreAfter(k)
             g    == FlaggedFrames(flag)
             s    == Append(before.scopes, Counter(n - k - 1))
             p    == vm.fp
             o    == Depth + Pointers + 1
             q    == vm.fp.off
  <2>1. stored.memory = OnlyData(Both(Frames, h)) /\ At(Filling, target) \in {None, value}
    BY <1>7, <1>9
  <2>2. h \in Seq(Elements) /\ Filled(routine, before)[k + 1] = Ok(h)
    <3>1. h \in Seq(Elements)
      <4> DEFINE e == Filling
      <4>1. e \in Seq(Elements) /\ value \in Values
        BY <1>2, <1>4, <1>9 DEF VmInv, Elements
      <4> HIDE DEF e
      <4>2. PutAt(e, target, value) \in Seq(Elements)
        BY <1>4, <4>1, OnePlaced
      <4> QED
        BY <4>2 DEF e
    <3>2. FilledMore(Filling, target, value) = Ok(h)
      BY <1>9, <2>1 DEF FilledMore
    <3> QED
      BY <1>4, <3>1, <3>2
  <2> HIDE DEF h
  <2>3. w = Rewritten(vm, OnlyData(Both(Frames, h)))
    BY <2>1 DEF w, Rewritten
  <2>4. /\ r.err = "ok" /\ Value(r.vm, vm.ap) = flag
        /\ Moved(r.vm, r.vm.ap.off + 1) = VmWith(vm, g, h, s, o, p)
    BY <1>1, <1>2, <1>3, <2>2, <2>3, RoundRuns DEF r, n
  <2>5. flag = Flag(n - k - 1 > 0) /\ flag \in Values
    <3>1. flag = Flag(n - k - 1 > 0)
      BY DEF MoreAfter, n
    <3> HIDE DEF flag
    <3>2. Flag(n - k - 1 > 0) \in Values
      BY DEF Flag, IntValue, Values, Ints
    <3> QED
      BY <3>1, <3>2
  <2> HIDE DEF flag
  <2>6. /\ g \in Seq(Elements) /\ Len(g) = o
        /\ IsFrame(g, q, arguments) /\ HasPointers(g, q, Pointers, arguments, k + 1)
    BY <1>2, <1>5, <2>5, RoundFrames
  <2>7. vm' = VmWith(vm, g, h, s, o, p) /\ error' = "ok"
        /\ pc' = IF flag = I(0) THEN "leave" ELSE "loop"
    BY <1>6, <1>9, <2>4 DEF Moved
  <2>8. IsSequence(s) /\ s # << >>
    BY <1>5, ScopeEntered DEF InFrame, CallInv, IsCall
  <2>9. /\ VmInv' /\ Frames' = g /\ Filling' = h /\ vm'.scopes = s /\ vm'.fp = p /\ Depth' = o
    <3>1. p \in Values /\ vm' = VmWith(vm, g, h, s, Len(g), p)
      BY <1>2, <2>6, <2>7 DEF VmInv
    <3> HIDE DEF g, s, p, o
    <3> QED
      BY <2>2, <2>6, <2>8, <3>1, VmNext
  <2>10. InFrame'
    <3>1. /\ steps' \in 0..MaxSteps
          /\ Depth' <= (calls - 1) * CallSize + 5 + 3 * steps'
      <4>1. /\ steps' \in 0..MaxSteps
            /\ \A d \in Nat : d <= Depth + 3 => d <= (calls - 1) * CallSize + 5 + 3 * steps'
        BY <1>2, <1>5, RoomForHint
      <4>2. o \in Nat /\ o <= Depth + 3
        BY <1>2, <1>5, FrameKnown
      <4> QED
        BY <2>9, <4>1, <4>2
    <3>2. CallInv'
      BY <1>1, <1>5 DEF InFrame, CallInv
    <3>3. vm'.fp = P(0, vm'.fp.off) /\ vm'.fp.off = q
      BY <1>5, <2>9 DEF InFrame
    <3> QED
      BY <1>1, <2>6, <2>9, <3>1, <3>2, <3>3 DEF InFrame
  <2>11. (IF pc' = "leave" THEN k + 1 = n ELSE k + 1 < n) /\ pc' \in {"leave", "loop"}
    <3>1. IF flag = I(0) THEN k + 1 = n ELSE k + 1 < n
      BY <1>4, <2>5, LastRound
    <3> QED
      BY <2>7, <3>1
  <2>12. Looping(k + 1)'
    <3>1. k + 1 \in 0..n /\ n - (k + 1) = n - k - 1
      BY <1>4
    <3>2. Pointers' = Pointers
      BY <1>1 DEF Pointers
    <3>3. vm'.fp.off = q
      BY <2>9
    <3>4. vm'.scopes = Append(before.scopes, Counter(n - (k + 1)))
      BY <2>9, <3>1
    <3> HIDE DEF q, g, s, o, p
    <3> QED
      BY <1>1, <1>5, <2>2, <2>6, <2>9, <2>10, <2>11, <3>1, <3>2, <3>3, <3>4 DEF Looping, n
  <2> DEFINE j == k + 1
  <2>13. j \in Nat /\ Looping(j)'
    BY <2>12
  <2> HIDE DEF j
  <2> QED
    BY <1>1, <1>2, <2>7, <2>9, <2>11, <2>13 DEF LoopsInv
<1> QED
  BY <1>8, <1>9
-----------------------------------------------------------------------------
(* The end of a call.                                                      *)

\* A call that has made its rounds has the number asked for, and leaves the
\* scope it entered.
LEMMA LeaveKept ==
  ASSUME LoopsInv, Tick, Leave
  PROVE  LoopsInv' /\ vm'.scopes = before.scopes /\ error' = "ok"
<1> DEFINE arguments == before.arguments
           n == arguments[3].num
           d == arguments[1].off
           s == before.scopes
           p == Value(vm, Field(vm.fp, -2))
           r == ExecuteHint(vm, "exit_scope", NoScope, NoTracking)
<1>1. /\ error = "ok" /\ pc = "leave"
      /\ routine' = routine /\ calls' = calls /\ before' = before
  BY DEF Tick, Leave
<1>2. VmInv /\ calls \in 0..MaxCalls
  BY <1>1 DEF LoopsInv
<1>3. PICK k \in Nat : Looping(k)
  BY <1>1 DEF LoopsInv
<1>4. /\ InFrame /\ CallInv /\ IsCall(routine, before) /\ IsInt(arguments[3]) /\ k = n
      /\ vm.scopes = Append(s, Counter(n - k))
      /\ Filled(routine, before)[k] = Ok(Filling)
      /\ HasPointers(Frames, vm.fp.off, Pointers, arguments, k)
      /\ IsSequence(s) /\ s # << >>
  BY <1>1, <1>3 DEF Looping, InFrame, CallInv, IsCall
<1>5. Argument(3) = I(n) /\ Argument(1) = P(1, d) /\ d \in Nat /\ p \in Values
  <2>1. Argument(3) = arguments[3] /\ Argument(1) = arguments[1] /\ p \in Values
    BY <1>2, <1>4, FrameKnown
  <2>2. arguments[3] = I(n) /\ arguments[1] = P(1, d) /\ d \in Nat
    BY <1>4, ArgumentsKnown
  <2> QED
    BY <2>1, <2>2
<1>6. Frame[1] = P(1, d + k)
  <2>1. 1 \in 1..Pointers
    BY DEF Pointers
  <2> QED
    BY <1>2, <1>4, <2>1, PointersKnown
<1> HIDE DEF d, n, p, r
<1>7. Frame[1].off - Argument(1).off = n
  <2>1. P(1, d + k).off = d + k /\ P(1, d).off = d /\ (d + k) - d = k
    BY <1>5 DEF P, RelocatableValue
  <2> QED
    BY <1>4, <1>5, <1>6, <2>1
<1>8. error' = r.err /\ vm' = [r.vm EXCEPT !.fp = p] /\ pc' = "main"
  BY <1>5, <1>7 DEF Leave, r, p
<1>9. r.err = "ok" /\ r.vm = Rescoped(vm, s)
  <2>1. /\ Len(vm.scopes) = Len(s) + 1 /\ Len(s) \in Nat /\ Front(vm.scopes) = s
    BY <1>4, ScopeEntered
  <2>2. Len(s) # 0
    BY <1>4, EmptySeq DEF IsSequence
  <2>3. Len(vm.scopes) # 1
    BY <2>1, <2>2
  <2> QED
    BY <2>1, <2>3, ScopeHints DEF r
<1>10. vm' = VmWith(vm, Frames, Filling, s, Depth, p)
  <2> DEFINE v == vm
             f == Frames
             h == Filling
             t == vm.scopes
             o == Depth
             q == vm.fp
             w == vm
             u == Rescoped(vm, s)
  <2>1. w = VmWith(v, f, h, t, o, q)
    BY <1>2 DEF VmInv
  <2> HIDE DEF v, f, h, t, o, q, w
  <2>2. Rescoped(w, s) = VmWith(v, f, h, s, o, q)
    BY <2>1, VmChanged
  <2>3. u = VmWith(v, f, h, s, o, q)
    BY <2>2 DEF w
  <2> HIDE DEF u
  <2>4. Returned(u, p) = VmWith(v, f, h, s, o, p)
    BY <2>3, VmChanged
  <2>5. vm' = Returned(u, p)
    BY <1>8, <1>9 DEF Returned, u
  <2> QED
    BY <2>4, <2>5 DEF v, f, h, o
<1>11. /\ VmInv' /\ Frames' = Frames /\ Filling' = Filling /\ vm'.scopes = s /\ Depth' = Depth
  <2> DEFINE f == Frames
             h == Filling
  <2>1. f \in Seq(Elements) /\ h \in Seq(Elements) /\ vm' = VmWith(vm, f, h, s, Len(f), p)
    BY <1>2, <1>10 DEF VmInv, Depth
  <2> HIDE DEF f, h
  <2>2. VmInv' /\ Frames' = f /\ Filling' = h /\ vm'.scopes = s /\ Depth' = Len(f)
    BY <1>4, <1>5, <2>1, VmNext
  <2> QED
    BY <2>2 DEF f, h, Depth
<1>12. Depth <= calls * CallSize
  <2> DEFINE c == (calls - 1) * CallSize
  <2>1. /\ c \in Nat /\ c + CallSize = calls * CallSize
        /\ CallSize = 5 + 3 * MaxSteps /\ MaxSteps \in Nat
    BY <1>4, CallsFit DEF CallInv
  <2>2. Depth <= c + 5 + 3 * steps /\ steps \in 0..MaxSteps /\ Depth \in Nat
    BY <1>2, <1>4, VmKnown DEF InFrame
  <2> HIDE DEF c
  <2> DEFINE x == steps
             y == MaxSteps
  <2>3. x \in Nat /\ y \in Nat /\ x <= y
    BY <2>1, <2>2
  <2> HIDE DEF x, y
  <2>4. 3 * x <= 3 * y /\ 3 * x \in Nat /\ 3 * y \in Nat
    BY <2>3
  <2>5. Depth <= c + 5 + 3 * x /\ c + 5 + 3 * y = calls * CallSize
    BY <2>1, <2>2 DEF x, y
  <2> HIDE DEF CallSize
  <2> DEFINE t == 3 * x
             z == 3 * y
  <2> HIDE DEF t, z
  <2>6. Depth <= c + 5 + t /\ t <= z /\ c + 5 + z = calls * CallSize /\ t \in Nat /\ z \in Nat
    BY <2>4, <2>5 DEF t, z
  <2>7. Depth <= c + 5 + z
    BY <2>1, <2>2, <2>6
  <2> QED
    BY <2>6, <2>7
<1>13. Wanted' = Ok(Filling)
  BY <1>1, <1>4 DEF Wanted, n
<1>14. InMain'
  <2>1. CallInv'
    BY <1>1, <1>4 DEF CallInv
  <2> QED
    BY <1>1, <1>11, <1>12, <1>13, <2>1 DEF InMain
<1> QED
  BY <1>1, <1>2, <1>8, <1>9, <1>11, <1>14 DEF LoopsInv
-----------------------------------------------------------------------------
(* The invariant and what it implies.                                      *)

\* Every step keeps the invariant.
LEMMA LoopsInvInductive == LoopsInv /\ [Next]_vars => LoopsInv'
<1> SUFFICES ASSUME LoopsInv, [Next]_vars
             PROVE  LoopsInv'
  OBVIOUS
<1>1. CASE OpenScope
  BY <1>1, OpenScopeKept
<1>2. CASE CloseScope
  BY <1>2, CloseScopeKept
<1>3. ASSUME NEW arguments \in Copies, Begin("memcpy", arguments)
      PROVE  LoopsInv'
  BY <1>3, BeginKept
<1>4. ASSUME NEW arguments \in Sets, Begin("memset", arguments)
      PROVE  LoopsInv'
  BY <1>4, BeginKept
<1>5. CASE Step
  BY <1>5, EnterKept, RoundKept, LeaveKept DEF Step
<1>6. CASE UNCHANGED vars
  <2>1. /\ error' = error /\ pc' = pc /\ routine' = routine /\ calls' = calls
        /\ steps' = steps /\ before' = before /\ vm' = vm
    BY <1>6 DEF vars
  <2>2. /\ Frames' = Frames /\ Filling' = Filling /\ Depth' = Depth
        /\ Wanted' = Wanted /\ Pointers' = Pointers
    BY <2>1 DEF Frames, Filling, Depth, Wanted, Pointers
  <2>3. VmInv' <=> VmInv
    BY <2>1, <2>2 DEF VmInv
  <2>4. CallInv' <=> CallInv
    BY <2>1 DEF CallInv
  <2>5. InMain' <=> InMain
    BY <2>1, <2>2, <2>4 DEF InMain
  <2>6. InFrame' <=> InFrame
    BY <2>1, <2>2, <2>4 DEF InFrame
  <2>7. Entering' <=> Entering
    BY <2>1, <2>2, <2>6 DEF Entering
  <2>8. \A k \in Nat : Looping(k)' <=> Looping(k)
    BY <2>1, <2>2, <2>6 DEF Looping
  <2> QED
    BY <2>1, <2>2, <2>3, <2>5, <2>7, <2>8 DEF LoopsInv
<1> QED
  BY <1>1, <1>2, <1>3, <1>4, <1>5, <1>6 DEF Next

\* Whatever a run does, its calls are as the invariant has them.
THEOREM LoopsInvariant == Spec => []LoopsInv
<1> QED
  BY InitKept, LoopsInvInductive, PTL DEF Spec

\* Every call of memcpy and memset that returns has filled the cells it was
\* asked to and no other, and one that fails could not have: whatever the heap,
\* the scopes, the arguments, and the number of cells.
THEOREM LoopsCallsExact == Spec => []CallsExact
<1>1. LoopsInv => CallsExact
  BY DEF LoopsInv, InMain, CallsExact, Filling
<1> QED
  BY <1>1, LoopsInvariant, PTL

\* A call leaves the scopes of its caller as they were, and without an error.
THEOREM LoopsScopesKept == Spec => CallersScopesKept
<1> DEFINE Kept == (pc # "main" /\ pc' = "main") => (vm'.scopes = before.scopes /\ error' = "ok")
<1>1. ASSUME LoopsInv, [Next]_vars
      PROVE  [Kept]_vars
  <2>1. CASE OpenScope \/ CloseScope \/ UNCHANGED vars
    BY <2>1 DEF OpenScope, CloseScope, vars
  <2>2. ASSUME NEW name, NEW arguments, Begin(name, arguments)
        PROVE  Kept
    BY <2>2 DEF Begin
  <2>3. CASE Tick /\ Enter
    BY <2>3 DEF Enter
  <2>4. CASE Tick /\ Round
    <3>1. pc' = pc \/ pc' = "leave" \/ pc' = "loop"
      BY <2>4 DEF Round
    <3> QED
      BY <3>1
  <2>5. CASE Tick /\ Leave
    BY <1>1, <2>5, LeaveKept
  <2> QED
    BY <1>1, <2>1, <2>2, <2>3, <2>4, <2>5 DEF Next, Step
<1> HIDE DEF Kept
<1>3. Spec => [][Kept]_vars
  BY <1>1, LoopsInvariant, PTL DEF Spec
<1> QED
  BY <1>3 DEF CallersScopesKept, Kept
=============================================================================
