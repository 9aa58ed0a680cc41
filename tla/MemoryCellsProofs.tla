-------------------------- MODULE MemoryCellsProofs --------------------------
(***************************************************************************)
(* What the operations of MemoryCells do to a memory, whoever calls them:  *)
(* the lemmas that the proofs about the components with a memory share.    *)
(* A is the set of the addresses that the component can reach.             *)
(***************************************************************************)
EXTENDS MemoryCells, SequenceTheorems, WellFoundedInduction, TLAPS

-----------------------------------------------------------------------------
(* Induction over the naturals in a form that takes sets, not predicates:  *)
(* the provers can instantiate it.                                         *)

\* A non-empty set of naturals has a least element.
LEMMA HasMinimum ==
  ASSUME NEW T \in SUBSET Nat, T # {}
  PROVE  \E x \in T : \A y \in T : x <= y
<1> DEFINE R == OpToRel(<, Nat)
<1>1. IsWellFoundedOn(R, Nat)
  BY NatLessThanWellFounded
<1>2. \A x, y \in T : y < x => <<y, x>> \in R
  BY DEF OpToRel
<1> HIDE DEF R
<1>3. PICK x \in T : \A y \in T : ~(<<y, x>> \in R)
  BY <1>1, WFMin
<1>4. \A y \in T : ~(y < x)
  BY <1>2, <1>3
<1>5. \A y \in T : x <= y
  BY <1>4
<1> QED
  BY <1>5

\* The functions that a recursion on the numbers up to N defines.
Recursions(N, S, base, step) ==
  {f \in [0..N -> S] : f[0] = base /\ \A n \in 1..N : f[n] = step[n][f[n - 1]]}

\* A recursion on the numbers up to N, whose steps stay in S, defines one.
LEMMA RecursionExists ==
  ASSUME NEW N \in Nat, NEW S, NEW base \in S, NEW step \in [1..N -> [S -> S]]
  PROVE  Recursions(N, S, base, step) # {}
<1> DEFINE Solves(f, k) == f[0] = base /\ \A n \in 1..k : f[n] = step[n][f[n - 1]]
           Bad == {k \in 0..N : ~ \E f \in [0..k -> S] : Solves(f, k)}
<1>1. ASSUME Bad # {}
      PROVE  FALSE
  <2>1. PICK k \in Bad : \A l \in Bad : k <= l
    <3>1. Bad \in SUBSET Nat
      OBVIOUS
    <3> HIDE DEF Bad
    <3> QED
      BY <3>1, <1>1, HasMinimum
  <2>2. k \in 0..N /\ ~ \E f \in [0..k -> S] : Solves(f, k)
    OBVIOUS
  <2>3. k # 0
    <3> DEFINE g == [n \in 0..0 |-> base]
    <3>1. g \in [0..0 -> S] /\ Solves(g, 0)
      OBVIOUS
    <3> QED
      BY <3>1, <2>2
  <2>4. k - 1 \in 0..N /\ k - 1 \notin Bad
    <3> HIDE DEF Bad, Solves
    <3> QED
      BY <2>1, <2>2, <2>3
  <2>5. PICK f \in [0..(k - 1) -> S] : Solves(f, k - 1)
    BY <2>4
  <2> DEFINE g == [n \in 0..k |-> IF n = k THEN step[k][f[k - 1]] ELSE f[n]]
  <2>6. f[k - 1] \in S /\ k \in 1..N
    BY <2>2, <2>3
  <2>7. step[k][f[k - 1]] \in S
    BY <2>6
  <2>8. g \in [0..k -> S]
    BY <2>2, <2>3, <2>7
  <2>9. g[0] = base
    BY <2>2, <2>3, <2>5
  <2>10. ASSUME NEW n \in 1..k
         PROVE  g[n] = step[n][g[n - 1]]
    <3>1. g[n - 1] = f[n - 1]
      BY <2>2
    <3>2. CASE n = k
      BY <3>1, <3>2, <2>2
    <3>3. CASE n # k
      BY <3>1, <3>3, <2>2, <2>5
    <3> QED
      BY <3>2, <3>3
  <2> HIDE DEF g
  <2>11. Solves(g, k)
    BY <2>9, <2>10
  <2> QED
    BY <2>2, <2>8, <2>11
<1>2. N \notin Bad /\ N \in 0..N
  <2> HIDE DEF Bad
  <2> QED
    BY <1>1
<1>3. \E f \in [0..N -> S] : Solves(f, N)
  <2> HIDE DEF Solves
  <2> QED
    BY <1>2
<1> QED
  BY <1>3 DEF Recursions

\* What holds at 0 and is kept by each step holds up to N.
LEMMA RecursionStays ==
  ASSUME NEW N \in Nat, NEW f, NEW S, f[0] \in S,
         \A n \in 1..N : f[n - 1] \in S => f[n] \in S
  PROVE  \A n \in 0..N : f[n] \in S
<1> DEFINE Bad == {n \in 0..N : f[n] \notin S}
<1>1. ASSUME Bad # {}
      PROVE  FALSE
  <2>1. PICK k \in Bad : \A l \in Bad : k <= l
    <3>1. Bad \in SUBSET Nat
      OBVIOUS
    <3> HIDE DEF Bad
    <3> QED
      BY <3>1, <1>1, HasMinimum
  <2>2. k \in 1..N /\ k - 1 \in 0..N
    BY <2>1
  <2>3. k - 1 \notin Bad
    BY <2>1, <2>2
  <2> QED
    BY <2>2, <2>3
<1> QED
  BY <1>1

\* The residue of a number that is at most one turn away from it.
LEMMA ResidueAt ==
  ASSUME NEW W \in Nat, W > 0, NEW b \in 0..(W - 1), NEW d \in {0, 1}
  PROVE  (b - W * d) % W = b
<1> DEFINE a == b - W * d
           q == a \div W
           r == a % W
<1>1. q \in Int /\ r \in 0..(W - 1) /\ a = W * q + r
  OBVIOUS
<1>2. W * (q + d) = b - r
  <2>1. W * (q + d) = W * q + W * d
    BY <1>1
  <2>2. W * q \in Int /\ W * d \in Int
    BY <1>1
  <2> QED
    BY <1>1, <2>1, <2>2
<1> HIDE DEF a, q, r
<1>3. CASE q + d >= 1
  <2>1. W * (q + d) >= W
    BY <1>1, <1>3
  <2> QED
    BY <1>1, <1>2, <2>1
<1>4. CASE q + d <= -1
  <2>1. W * (q + d) <= -W
    BY <1>1, <1>4
  <2> QED
    BY <1>1, <1>2, <2>1
<1>5. CASE q + d = 0
  <2>1. W * (q + d) = 0
    BY <1>5
  <2>2. r = b
    BY <1>1, <1>2, <2>1
  <2> QED
    BY <2>2 DEF r, a
<1>6. q + d \in Int
  BY <1>1
<1> QED
  BY <1>3, <1>4, <1>5, <1>6

-----------------------------------------------------------------------------
\* The elements of a segment.
Elements == Values \union {None}

-----------------------------------------------------------------------------
(* What the operators of MemoryCells do to the cells.                      *)

\* Storing values in a segment: its length, and the element at each offset.
LEMMA StoredProperties ==
  ASSUME NEW segment \in Seq(Elements), NEW off \in Nat, NEW vals \in Seq(Values)
  PROVE  LET end    == off + Len(vals)
             stored == Stored(segment, off, vals)
         IN  /\ stored \in Seq(Elements)
             /\ Len(stored) = (IF Len(segment) < end THEN end ELSE Len(segment))
             /\ \A k \in Nat : k < Len(stored) =>
                  stored[k + 1] = IF k >= off /\ k < end  THEN vals[k - off + 1]
                                  ELSE IF k < Len(segment) THEN segment[k + 1]
                                  ELSE None
<1> DEFINE end == off + Len(vals)
           n == IF Len(segment) < end THEN end ELSE Len(segment)
           e(i) == IF i > off /\ i <= end    THEN vals[i - off]
                   ELSE IF i <= Len(segment) THEN segment[i]
                   ELSE None
           stored == [i \in 1..n |-> e(i)]
<1>1. end \in Nat /\ n \in Nat /\ Len(segment) \in Nat
  BY LenProperties
<1>2. \A i \in 1..n : e(i) \in Elements
  BY LenProperties, ElementOfSeq DEF Elements
<1>3. stored \in Seq(Elements) /\ Len(stored) = n
  BY <1>1, <1>2
<1>4. ASSUME NEW k \in Nat, k < n
      PROVE  stored[k + 1] = IF k >= off /\ k < end  THEN vals[k - off + 1]
                             ELSE IF k < Len(segment) THEN segment[k + 1]
                             ELSE None
  <2>1. k + 1 \in 1..n /\ k + 1 - off = k - off + 1
    BY <1>1, <1>4
  <2>2. stored[k + 1] = e(k + 1)
    BY <2>1
  <2> QED
    BY <2>1, <2>2, <1>1
<1> QED
  BY <1>1, <1>3, <1>4 DEF Stored

\* Storing values at an address: the cells from there on hold them, all the
\* other cells hold what they held, and only that segment can get longer.
LEMMA StoredAtProperties ==
  ASSUME NEW data \in Seq(Seq(Elements)), NEW a \in Relocatables,
         a.seg < Len(data), NEW vals \in Seq(Values)
  PROVE  LET end == a.off + Len(vals)
             d   == StoredAt(data, a, vals)
         IN  /\ d \in Seq(Seq(Elements))
             /\ Len(d) = Len(data)
             /\ \A i \in 1..Len(data) :
                  Len(d[i]) = IF i = a.seg + 1 /\ Len(data[i]) < end
                              THEN end ELSE Len(data[i])
             /\ \A b \in Relocatables :
                  Cell(d, b) =
                    IF b.seg = a.seg /\ b.off >= a.off /\ b.off < end
                    THEN vals[b.off - a.off + 1] ELSE Cell(data, b)
<1> DEFINE end     == a.off + Len(vals)
           d       == StoredAt(data, a, vals)
           segment == data[a.seg + 1]
           stored  == Stored(segment, a.off, vals)
<1>1. a.seg \in Nat /\ a.off \in Nat /\ a.seg + 1 \in 1..Len(data) /\ Len(data) \in Nat
  BY LenProperties DEF Relocatables
<1>2. segment \in Seq(Elements)
  BY <1>1, ElementOfSeq
<1> HIDE DEF segment
<1>3. /\ stored \in Seq(Elements)
      /\ Len(stored) = (IF Len(segment) < end THEN end ELSE Len(segment))
      /\ \A k \in Nat : k < Len(stored) =>
           stored[k + 1] = IF k >= a.off /\ k < end THEN vals[k - a.off + 1]
                           ELSE IF k < Len(segment) THEN segment[k + 1]
                           ELSE None
  BY <1>1, <1>2, StoredProperties, ZenonT(60)
<1> HIDE DEF stored
<1>4. /\ d \in Seq(Seq(Elements))
      /\ Len(d) = Len(data)
      /\ \A j \in 1..Len(data) : d[j] = IF j = a.seg + 1 THEN stored ELSE data[j]
  BY <1>1, <1>3, ExceptSeq, SMTT(30) DEF StoredAt, stored, segment
<1> HIDE DEF d, end
<1>5. ASSUME NEW i \in 1..Len(data)
      PROVE  Len(d[i]) = IF i = a.seg + 1 /\ Len(data[i]) < end
                         THEN end ELSE Len(data[i])
  BY <1>3, <1>4 DEF segment
<1>6. ASSUME NEW b \in Relocatables
      PROVE  Cell(d, b) = IF b.seg = a.seg /\ b.off >= a.off /\ b.off < end
                          THEN vals[b.off - a.off + 1] ELSE Cell(data, b)
  <2>1. b.seg \in Nat /\ b.off \in Nat
    BY DEF Relocatables
  <2>2. Len(data) \in Nat /\ Len(segment) \in Nat /\ Len(vals) \in Nat /\ end \in Nat
    BY <1>1, <1>2, LenProperties DEF end
  <2>3. CASE b.seg # a.seg
    <3>1. CASE b.seg < Len(data)
      <4> DEFINE s == b.seg
                 t == a.seg
                 l == Len(data)
      <4>0. s \in Nat /\ t \in Nat /\ l \in Nat /\ s # t /\ s < l
        BY <2>1, <2>2, <2>3, <3>1, <1>1
      <4> HIDE DEF s, t, l
      <4>1. s + 1 \in 1..l /\ s + 1 # t + 1
        BY <4>0
      <4> USE DEF s, t, l
      <4>2. d[b.seg + 1] = data[b.seg + 1]
        BY <1>4, <4>1
      <4> QED
        BY <4>2, <1>4, <2>3 DEF Cell
    <3>2. CASE b.seg >= Len(data)
      BY <2>1, <2>2, <2>3, <3>2, <1>4 DEF Cell
    <3> QED
      BY <3>1, <3>2, <2>1, <2>2
  <2>4. CASE b.seg = a.seg
    <3>1. Cell(d, b) = IF b.off < Len(stored) THEN stored[b.off + 1] ELSE None
      BY <2>4, <1>1, <1>4 DEF Cell
    <3>2. Cell(data, b) = IF b.off < Len(segment) THEN segment[b.off + 1] ELSE None
      BY <2>4, <1>1, <1>4 DEF Cell, segment
    <3>3. CASE b.off < Len(stored)
      BY <3>1, <3>2, <3>3, <2>1, <2>2, <2>4, <1>1, <1>3
    <3>4. CASE b.off >= Len(stored)
      BY <3>1, <3>2, <3>4, <2>1, <2>2, <2>4, <1>1, <1>3
    <3> QED
      BY <3>3, <3>4, <2>1, <2>2, <1>3, LenProperties
  <2> QED
    BY <2>3, <2>4
<1> QED
  BY <1>4, <1>5, <1>6 DEF d, end

-----------------------------------------------------------------------------
(* Addresses.                                                              *)

\* An address is determined by its segment and its offset.
LEMMA RelocatableFields ==
  ASSUME NEW b \in Relocatables
  PROVE  /\ b.seg \in Nat /\ b.off \in Nat
         /\ b = RelocatableValue(b.seg, b.off)
         /\ IsRel(b) /\ b \in Values
  BY NoneAssumption DEF Relocatables, RelocatableValue, IsRel, Values

\* The addresses inside of the allocated cells; outside of them there is
\* nothing but None.
LEMMA AddressesInside ==
  ASSUME NEW data \in Seq(Seq(Elements))
  PROVE  /\ AddressesIn(data) \subseteq Relocatables
         /\ \A b \in Relocatables :
              b \in AddressesIn(data) <=>
                b.seg < Len(data) /\ b.off < Len(data[b.seg + 1])
         /\ \A b \in Relocatables :
              Cell(data, b) # None => b \in AddressesIn(data)
         /\ \A b \in Relocatables : Cell(data, b) \in Elements
<1>1. Len(data) \in Nat /\ \A s \in Nat : s < Len(data) => data[s + 1] \in Seq(Elements)
  BY LenProperties, ElementOfSeq
<1>2. \A s \in Nat : s < Len(data) => Len(data[s + 1]) \in Nat
  BY <1>1, LenProperties
<1>3. AddressesIn(data) \subseteq Relocatables
  BY <1>1, <1>2 DEF AddressesIn, Allocated, Relocatables, RelocatableValue
<1>4. ASSUME NEW b \in Relocatables
      PROVE  b \in AddressesIn(data) <=>
               b.seg < Len(data) /\ b.off < Len(data[b.seg + 1])
  <2>1. b.seg \in Nat /\ b.off \in Nat /\ b = RelocatableValue(b.seg, b.off)
    BY RelocatableFields
  <2>2. ASSUME b.seg < Len(data), b.off < Len(data[b.seg + 1])
        PROVE  b \in AddressesIn(data)
    <3>1. b.seg \in Allocated(data) /\ b.off \in 0..(Len(data[b.seg + 1]) - 1)
      BY <1>1, <1>2, <2>1, <2>2 DEF Allocated
    <3> QED
      BY <3>1, <2>1 DEF AddressesIn
  <2>3. ASSUME b \in AddressesIn(data)
        PROVE  b.seg < Len(data) /\ b.off < Len(data[b.seg + 1])
    <3>1. PICK s \in Allocated(data) :
            \E off \in 0..(Len(data[s + 1]) - 1) : b = RelocatableValue(s, off)
      BY <2>3 DEF AddressesIn
    <3>2. s \in Nat /\ s < Len(data) /\ Len(data[s + 1]) \in Nat
      BY <1>1, <1>2 DEF Allocated
    <3>3. PICK off \in 0..(Len(data[s + 1]) - 1) : b = RelocatableValue(s, off)
      BY <3>1
    <3>4. b.seg = s /\ b.off = off
      BY <3>3 DEF RelocatableValue
    <3> QED
      BY <3>2, <3>3, <3>4
  <2> QED
    BY <2>2, <2>3
<1>5. ASSUME NEW b \in Relocatables
      PROVE  /\ Cell(data, b) # None => b \in AddressesIn(data)
             /\ Cell(data, b) \in Elements
  <2>1. b.seg \in Nat /\ b.off \in Nat
    BY RelocatableFields
  <2>2. CASE b.seg < Len(data)
    <3>1. data[b.seg + 1] \in Seq(Elements) /\ Len(data[b.seg + 1]) \in Nat
      BY <2>1, <2>2, <1>1, <1>2
    <3>2. b.off < Len(data[b.seg + 1]) => data[b.seg + 1][b.off + 1] \in Elements
      BY <2>1, <3>1, ElementOfSeq
    <3> QED
      BY <2>2, <3>2, <1>4 DEF Cell, Elements
  <2>3. CASE ~(b.seg < Len(data))
    BY <2>3 DEF Cell, Elements
  <2> QED
    BY <2>2, <2>3
<1> QED
  BY <1>3, <1>4, <1>5

-----------------------------------------------------------------------------
(* What holds of every memory, and of what every call does to it.          *)

Memories(A) ==
  [data : Seq(Seq(Elements)), validated_addresses : SUBSET A, validation_rules : SUBSET Nat]

MemoryInv(m, A) ==
  /\ m \in Memories(A)
  /\ AddressesIn(m.data) \subseteq A
  /\ \A a \in m.validated_addresses :
       a.seg \in m.validation_rules /\ InRange(Cell(m.data, a))

\* A has the n cells from a on, and those before a in its segment.
Within(a, n, A) ==
  \A b \in Relocatables : (b.seg = a.seg /\ b.off < a.off + n) => b \in A

\* n is m after a write: the same segments, none of them shorter, with every
\* assigned cell and every validated address as it was.
Grows(m, n) ==
  /\ n.validation_rules = m.validation_rules
  /\ m.validated_addresses \subseteq n.validated_addresses
  /\ Len(n.data) = Len(m.data)
  /\ \A i \in 1..Len(m.data) : Len(m.data[i]) <= Len(n.data[i])
  /\ \A b \in Relocatables :
       Cell(m.data, b) # None => Cell(n.data, b) = Cell(m.data, b)

\* Storing values in cells that are unassigned, or hold these values already,
\* and validating some addresses whose cells are then in range.
LEMMA StoreStep ==
  ASSUME NEW A \in SUBSET Relocatables, NEW m, MemoryInv(m, A), NEW a \in A, a.seg < Len(m.data),
         NEW vals \in Seq(Values), Within(a, Len(vals), A),
         \A b \in Relocatables :
           (b.seg = a.seg /\ b.off >= a.off /\ b.off < a.off + Len(vals)) =>
             Cell(m.data, b) \in {None, vals[b.off - a.off + 1]},
         NEW V \in SUBSET A,
         \A b \in V : /\ b.seg \in m.validation_rules
                      /\ InRange(Cell(StoredAt(m.data, a, vals), b)),
         NEW n, n = [data |-> StoredAt(m.data, a, vals),
                     validated_addresses |-> m.validated_addresses \union V,
                     validation_rules |-> m.validation_rules]
  PROVE  MemoryInv(n, A) /\ Grows(m, n)
<1> DEFINE d   == StoredAt(m.data, a, vals)
           end == a.off + Len(vals)
<1>1. /\ m.data \in Seq(Seq(Elements))
      /\ m.validated_addresses \subseteq A
      /\ m.validation_rules \subseteq Nat
      /\ AddressesIn(m.data) \subseteq A
  BY DEF MemoryInv, Memories
<1>2. a \in Relocatables /\ A \subseteq Relocatables
  OBVIOUS
<1>3. a.seg \in Nat /\ a.off \in Nat
  BY <1>2, RelocatableFields
<1>4. /\ d \in Seq(Seq(Elements))
      /\ Len(d) = Len(m.data)
      /\ \A i \in 1..Len(m.data) :
           Len(d[i]) = IF i = a.seg + 1 /\ Len(m.data[i]) < end
                       THEN end ELSE Len(m.data[i])
      /\ \A b \in Relocatables :
           Cell(d, b) = IF b.seg = a.seg /\ b.off >= a.off /\ b.off < end
                        THEN vals[b.off - a.off + 1] ELSE Cell(m.data, b)
  BY <1>1, <1>2, StoredAtProperties
<1>5. /\ Len(m.data) \in Nat
      /\ end \in Nat
      /\ \A i \in 1..Len(m.data) : Len(m.data[i]) \in Nat
  BY <1>1, <1>3, LenProperties, ElementOfSeq
<1>6. /\ n.data = d
      /\ n.validated_addresses = m.validated_addresses \union V
      /\ n.validation_rules = m.validation_rules
  OBVIOUS
<1> HIDE DEF d, end
<1>7. n \in Memories(A)
  BY <1>1, <1>4 DEF Memories, d
<1>8. AddressesIn(d) \subseteq A
  <2> SUFFICES ASSUME NEW b \in AddressesIn(d)
               PROVE  b \in A
    OBVIOUS
  <2>1. b \in Relocatables /\ b.seg < Len(d) /\ b.off < Len(d[b.seg + 1])
    BY <1>4, AddressesInside
  <2>2. b.seg \in Nat /\ b.off \in Nat /\ b.seg + 1 \in 1..Len(m.data)
    <3>1. b.seg \in Nat /\ b.off \in Nat
      BY <2>1, RelocatableFields
    <3>2. b.seg < Len(m.data) /\ Len(m.data) \in Nat
      BY <2>1, <1>4, <1>5
    <3> QED
      BY <3>1, <3>2
  <2>3. CASE b.off < Len(m.data[b.seg + 1])
    BY <2>1, <2>3, <1>1, <1>4, AddressesInside
  <2>4. CASE ~(b.off < Len(m.data[b.seg + 1]))
    <3>1. b.seg + 1 = a.seg + 1 /\ b.off < end
      BY <2>1, <2>2, <2>4, <1>4, <1>5
    <3>2. b.seg = a.seg
      BY <3>1, <2>2, <1>3
    <3> QED
      BY <3>1, <3>2, <2>1 DEF end, Within
  <2> QED
    BY <2>3, <2>4
<1>9. \A b \in Relocatables :
        Cell(m.data, b) # None => Cell(d, b) = Cell(m.data, b)
  BY <1>4 DEF end
<1>10. ASSUME NEW b \in n.validated_addresses
       PROVE  b.seg \in n.validation_rules /\ InRange(Cell(n.data, b))
  <2>1. CASE b \in V
    BY <2>1, <1>6 DEF d
  <2>2. CASE b \in m.validated_addresses
    <3>1. b.seg \in m.validation_rules /\ InRange(Cell(m.data, b))
      BY <2>2 DEF MemoryInv
    <3>2. Cell(m.data, b) # None
      BY <3>1 DEF InRange, IsInt
    <3> QED
      BY <3>1, <3>2, <2>2, <1>1, <1>2, <1>6, <1>9
  <2> QED
    BY <2>1, <2>2, <1>6
<1>11. MemoryInv(n, A)
  BY <1>6, <1>7, <1>8, <1>10 DEF MemoryInv
<1>12. ASSUME NEW i \in 1..Len(m.data)
       PROVE  Len(m.data[i]) <= Len(d[i])
  <2>1. Len(m.data[i]) \in Nat
    BY <1>5
  <2>2. Len(d[i]) = IF i = a.seg + 1 /\ Len(m.data[i]) < end
                    THEN end ELSE Len(m.data[i])
    BY <1>4
  <2> QED
    BY <2>1, <2>2, <1>5
<1> QED
  BY <1>4, <1>6, <1>9, <1>11, <1>12 DEF Grows

\* Validating some addresses whose cells are in range changes no cell.
LEMMA ValidateStep ==
  ASSUME NEW A \in SUBSET Relocatables, NEW m, MemoryInv(m, A), NEW V \in SUBSET A,
         \A b \in V : b.seg \in m.validation_rules /\ InRange(Cell(m.data, b)),
         NEW n, n = [data |-> m.data,
                     validated_addresses |-> m.validated_addresses \union V,
                     validation_rules |-> m.validation_rules]
  PROVE  MemoryInv(n, A) /\ Grows(m, n)
<1>1. \A i \in 1..Len(m.data) : Len(m.data[i]) \in Nat
  BY LenProperties, ElementOfSeq DEF MemoryInv, Memories
<1>2. MemoryInv(n, A)
  BY DEF MemoryInv, Memories
<1>3. \A i \in 1..Len(m.data) : Len(m.data[i]) <= Len(n.data[i])
  BY <1>1
<1> QED
  BY <1>2, <1>3 DEF Grows

-----------------------------------------------------------------------------
(* The operations.                                                         *)

\* insert keeps what is in the memory.
LEMMA InsertStep ==
  ASSUME NEW A \in SUBSET Relocatables, NEW m, MemoryInv(m, A), NEW val \in Values,
         NEW key, IsRel(key) => key \in A /\ Within(key, 1, A)
  PROVE  MemoryInv(Insert(m, key, val).memory, A)
           /\ Grows(m, Insert(m, key, val).memory)
<1> DEFINE w == Written(m, key, val)
           n == ValidateCell(w, key)
<1>1. m \in Memories(A) /\ m.data \in Seq(Seq(Elements))
  BY DEF MemoryInv, Memories
<1>2. m = [data |-> m.data, validated_addresses |-> m.validated_addresses \union {},
           validation_rules |-> m.validation_rules]
  BY <1>1 DEF Memories
<1>3. CASE WriteError(m.data, key, val) # "ok"
  <2>1. MemoryInv(m, A) /\ Grows(m, m)
    BY <1>2, ValidateStep
  <2>2. Insert(m, key, val).memory = m
    BY <1>3 DEF Insert
  <2> QED
    BY <2>1, <2>2
<1>4. CASE WriteError(m.data, key, val) = "ok"
  <2>1. IsRel(key) /\ key.seg < Len(m.data) /\ Cell(m.data, key) \in {None, val}
    <3>1. IsRel(key) /\ ~(key.seg >= Len(m.data)) /\ Cell(m.data, key) \in {None, val}
      BY <1>4 DEF WriteError
    <3>2. key \in A
      BY <3>1
    <3>3. key.seg \in Nat /\ Len(m.data) \in Nat
      BY <1>1, <3>2, RelocatableFields, LenProperties
    <3> QED
      BY <3>1, <3>3
  <2>2. key \in A /\ key \in Relocatables
    BY <2>1
  <2>3. key.seg \in Nat /\ key.off \in Nat
    BY <2>2, RelocatableFields
  <2>4. Insert(m, key, val).memory = n
    BY <1>4 DEF Insert
  <2>5. PICK V \in SUBSET {key} :
          /\ V # {} => ValidationError(w, key) = "ok" /\ NeedsRule(w, key)
          /\ n = [w EXCEPT !.validated_addresses = @ \union V]
    <3>1. w = [w EXCEPT !.validated_addresses = @ \union {}]
      <4>1. w \in Memories(A) \/ w = [m EXCEPT !.data = StoredAt(@, key, <<val>>)]
        BY <1>1 DEF Written
      <4> QED
        BY <4>1, <1>1 DEF Memories
    <3>2. CASE NeedsRule(w, key) /\ ValidationError(w, key) = "ok"
      BY <3>2 DEF ValidateCell
    <3>3. CASE ~(NeedsRule(w, key) /\ ValidationError(w, key) = "ok")
      BY <3>1, <3>3 DEF ValidateCell
    <3> QED
      BY <3>2, <3>3
  <2>6. \A b \in V : b.seg \in w.validation_rules /\ InRange(Cell(w.data, b))
    BY <2>5 DEF NeedsRule, ValidationError, RuleError
  <2>7. CASE Cell(m.data, key) = None
    <3>1. /\ w.data = StoredAt(m.data, key, <<val>>)
          /\ w.validation_rules = m.validation_rules
          /\ n = [data |-> StoredAt(m.data, key, <<val>>),
                  validated_addresses |-> m.validated_addresses \union V,
                  validation_rules |-> m.validation_rules]
      BY <1>1, <2>5, <2>7 DEF Written, Memories
    <3>2. <<val>> \in Seq(Values) /\ Len(<<val>>) = 1
      OBVIOUS
    <3>3. \A b \in Relocatables :
            (b.seg = key.seg /\ b.off >= key.off /\ b.off < key.off + 1) => b = key
      BY <2>2, <2>3, RelocatableFields
    <3>4. \A b \in Relocatables :
            (b.seg = key.seg /\ b.off >= key.off /\ b.off < key.off + Len(<<val>>)) =>
              Cell(m.data, b) \in {None, <<val>>[b.off - key.off + 1]}
      BY <2>7, <3>2, <3>3
    <3>5. V \in SUBSET A
      BY <2>2
    <3>6. \A b \in V : /\ b.seg \in m.validation_rules
                       /\ InRange(Cell(StoredAt(m.data, key, <<val>>), b))
      BY <2>6, <3>1
    <3>7. Within(key, Len(<<val>>), A)
      BY <2>1, <3>2
    <3> HIDE DEF n
    <3>8. MemoryInv(n, A) /\ Grows(m, n)
      BY <2>1, <2>2, <3>1, <3>2, <3>4, <3>5, <3>6, <3>7, StoreStep
    <3> QED
      BY <2>4, <3>8
  <2>8. CASE Cell(m.data, key) # None
    <3>1. w = m
      BY <2>8 DEF Written
    <3>2. n = [data |-> m.data, validated_addresses |-> m.validated_addresses \union V,
               validation_rules |-> m.validation_rules]
      BY <1>1, <2>5, <3>1 DEF Memories
    <3>3. V \in SUBSET A
      BY <2>2
    <3> HIDE DEF n
    <3>4. MemoryInv(n, A) /\ Grows(m, n)
      BY <2>6, <3>1, <3>2, <3>3, ValidateStep
    <3> QED
      BY <2>4, <3>4
  <2> QED
    BY <2>7, <2>8
<1> QED
  BY <1>3, <1>4

\* A write that is not refused leaves the value in the cell.
LEMMA WrittenCell ==
  ASSUME NEW A \in SUBSET Relocatables, NEW m, MemoryInv(m, A), NEW key \in A, NEW val \in Values,
         key.seg < Len(m.data), Cell(m.data, key) \in {None, val}
  PROVE  LET w == Written(m, key, val)
         IN  Cell(w.data, key) = val /\ Len(w.data) = Len(m.data)
<1>1. m \in Memories(A) /\ m.data \in Seq(Seq(Elements))
  BY DEF MemoryInv, Memories
<1>2. key \in Relocatables /\ key.seg \in Nat /\ key.off \in Nat
  BY RelocatableFields
<1>3. CASE Cell(m.data, key) = None
  <2>1. Written(m, key, val).data = StoredAt(m.data, key, <<val>>)
    BY <1>1, <1>3 DEF Written, Memories
  <2>2. <<val>> \in Seq(Values) /\ Len(<<val>>) = 1 /\ <<val>>[1] = val
    OBVIOUS
  <2>3. /\ key.off >= key.off
        /\ key.off < key.off + Len(<<val>>)
        /\ key.off - key.off + 1 = 1
    BY <1>2, <2>2
  <2>4. /\ Cell(StoredAt(m.data, key, <<val>>), key) = <<val>>[key.off - key.off + 1]
        /\ Len(StoredAt(m.data, key, <<val>>)) = Len(m.data)
    BY <2>2, <2>3, <1>1, <1>2, StoredAtProperties
  <2> QED
    BY <2>1, <2>2, <2>3, <2>4
<1>4. CASE Cell(m.data, key) # None
  BY <1>4 DEF Written
<1> QED
  BY <1>3, <1>4

\* What the result of an insert at an address says: unless it is that the
\* write was refused, the cell was free or held the value; if it is "ok", a
\* value in a segment with a rule is in range.
LEMMA InsertResult ==
  ASSUME NEW A \in SUBSET Relocatables, NEW m, MemoryInv(m, A), NEW key \in A, NEW val \in Values
  PROVE  LET err == Insert(m, key, val).err
         IN  /\ err \notin {"UnallocatedSegment", "InconsistentMemory"} =>
                  key.seg < Len(m.data) /\ Cell(m.data, key) \in {None, val}
             /\ err = "ok" /\ key.seg \in m.validation_rules => InRange(val)
<1> DEFINE w       == Written(m, key, val)
           refused == WriteError(m.data, key, val)
           err     == Insert(m, key, val).err
<1>1. m \in Memories(A) /\ m.data \in Seq(Seq(Elements))
  BY DEF MemoryInv, Memories
<1>2. key \in Relocatables /\ IsRel(key) /\ key.seg \in Nat /\ key.off \in Nat
  BY RelocatableFields
<1>3. Len(m.data) \in Nat
  BY <1>1, LenProperties
<1>4. refused \in {"UnallocatedSegment", "InconsistentMemory", "ok"}
  BY <1>2 DEF WriteError
<1>5. refused = "ok" => key.seg < Len(m.data) /\ Cell(m.data, key) \in {None, val}
  BY <1>2, <1>3 DEF WriteError
<1>6. err = IF refused # "ok" THEN refused ELSE ValidationError(w, key)
  BY DEF Insert
<1>7. ASSUME err = "ok", key.seg \in m.validation_rules
      PROVE  InRange(val)
  <2>1. refused = "ok" /\ ValidationError(w, key) = "ok"
    BY <1>6, <1>7
  <2>2. CASE key \in m.validated_addresses
    <3>1. InRange(Cell(m.data, key))
      BY <2>2 DEF MemoryInv
    <3> QED
      BY <3>1, <2>1, <1>5 DEF InRange, IsInt
  <2>3. CASE key \notin m.validated_addresses
    <3>1. w.validation_rules = m.validation_rules
            /\ w.validated_addresses = m.validated_addresses
      BY <1>1 DEF Written, Memories
    <3>2. InRange(Cell(w.data, key))
      BY <2>1, <2>3, <3>1, <1>7 DEF ValidationError, NeedsRule, RuleError
    <3>3. Cell(w.data, key) = val
      BY <2>1, <1>5, WrittenCell
    <3> QED
      BY <3>2, <3>3
  <2> QED
    BY <2>2, <2>3
<1> QED
  BY <1>4, <1>5, <1>6, <1>7

\* validate_existing_memory validates cells that are in range.
LEMMA ValidateExistingStep ==
  ASSUME NEW A \in SUBSET Relocatables, NEW m, MemoryInv(m, A)
  PROVE  MemoryInv(ValidateExisting(m).memory, A)
           /\ Grows(m, ValidateExisting(m).memory)
<1> DEFINE accepted == {a \in AddressesIn(m.data) :
                          /\ NeedsRule(m, a)
                          /\ a \notin Refused(m)
                          /\ \A b \in Refused(m) : Before(a, b)}
           n == [data |-> m.data,
                 validated_addresses |-> m.validated_addresses \union accepted,
                 validation_rules |-> m.validation_rules]
<1>1. accepted \in SUBSET A
  BY DEF MemoryInv
<1>2. \A b \in accepted : b.seg \in m.validation_rules /\ InRange(Cell(m.data, b))
  BY DEF Refused, ValidationError, NeedsRule, RuleError
<1>3. ValidateExisting(m).memory = n
  BY DEF ValidateExisting, MemoryInv, Memories
<1> HIDE DEF accepted
<1>4. MemoryInv(n, A) /\ Grows(m, n)
  BY <1>1, <1>2, ValidateStep
<1> QED
  BY <1>3, <1>4

\* load_data keeps what is in the memory: what it stores, up to the first
\* error, goes to cells that are free or hold it already.
LEMMA LoadStep ==
  ASSUME NEW A \in SUBSET Relocatables, NEW m, MemoryInv(m, A), NEW ptr, NEW vals \in Seq(Values),
         IsRel(ptr) => ptr \in A /\ Within(ptr, Len(vals), A)
  PROVE  MemoryInv(LoadData(m, ptr, vals).memory, A)
           /\ Grows(m, LoadData(m, ptr, vals).memory)
<1> DEFINE at(i)      == [ptr EXCEPT !.off = @ + i - 1]
           loadErr(i) == LoadError(m, ptr, vals, i)
           fails == {i \in 1..Len(vals) : loadErr(i) # "ok"}
           first == CHOOSE i \in fails : \A j \in fails : i <= j
           err   == IF fails = {} THEN "ok" ELSE loadErr(first)
           count == IF fails = {} THEN Len(vals)
                    ELSE IF err \in {"UnallocatedSegment", "InconsistentMemory"}
                    THEN first - 1
                    ELSE first
           valid == {at(i) : i \in {j \in 1..Len(vals) : fails = {} \/ j < first}}
           V     == {a \in valid : a.seg \in m.validation_rules}
           new   == SubSeq(vals, 1, count)
           n     == [data |-> StoredAt(m.data, ptr, new),
                     validated_addresses |-> m.validated_addresses \union V,
                     validation_rules |-> m.validation_rules]
<1>1. m \in Memories(A) /\ m.data \in Seq(Seq(Elements)) /\ Len(vals) \in Nat
  BY LenProperties DEF MemoryInv, Memories
<1>2. MemoryInv(m, A) /\ Grows(m, m)
  <2>1. m = [data |-> m.data, validated_addresses |-> m.validated_addresses \union {},
             validation_rules |-> m.validation_rules]
    BY <1>1 DEF Memories
  <2> QED
    BY <2>1, ValidateStep
<1>3. CASE LoadData(m, ptr, vals).memory = m
  BY <1>2, <1>3
<1>4. CASE LoadData(m, ptr, vals).memory # m
  <2>1. IsRel(ptr) /\ LoadData(m, ptr, vals) = Loaded(m, ptr, vals)
    BY <1>4 DEF LoadData
  <2>2. ptr \in A /\ ptr \in Relocatables /\ ptr.seg \in Nat /\ ptr.off \in Nat
          /\ ptr = RelocatableValue(ptr.seg, ptr.off)
    BY <2>1, RelocatableFields
  <2>3. Within(ptr, Len(vals), A)
    BY <2>1
  <2>4. ASSUME NEW i \in 1..Len(vals)
        PROVE  /\ at(i) = RelocatableValue(ptr.seg, ptr.off + i - 1)
               /\ at(i) \in A
               /\ vals[i] \in Values
    <3>1. at(i) = RelocatableValue(ptr.seg, ptr.off + i - 1)
      BY <2>2 DEF RelocatableValue
    <3>2. ptr.off + i - 1 \in Nat /\ ptr.off + i - 1 < ptr.off + Len(vals)
      BY <2>2, <1>1
    <3> HIDE DEF at
    <3>3. at(i) \in A
      <4>1. /\ at(i) \in Relocatables
            /\ at(i).seg = ptr.seg
            /\ at(i).off = ptr.off + i - 1
        BY <3>1, <3>2, <2>2 DEF Relocatables, RelocatableValue
      <4> QED
        BY <4>1, <3>2, <2>3 DEF Within
    <3> QED
      BY <3>1, <3>3, ElementOfSeq
  <2>5. fails # {} => first \in fails /\ \A j \in fails : first <= j
    <3>1. fails \in SUBSET Nat
      OBVIOUS
    <3> HIDE DEF fails
    <3> QED
      BY <3>1, HasMinimum
  <2>6. ASSUME NEW i \in 1..Len(vals)
        PROVE  /\ loadErr(i) \notin {"UnallocatedSegment", "InconsistentMemory"} =>
                    ptr.seg < Len(m.data) /\ Cell(m.data, at(i)) \in {None, vals[i]}
               /\ loadErr(i) = "ok" /\ ptr.seg \in m.validation_rules => InRange(vals[i])
    <3>1. at(i).seg = ptr.seg
      BY <2>4 DEF RelocatableValue
    <3> HIDE DEF at
    <3>2. loadErr(i) = Insert(m, at(i), vals[i]).err
      BY DEF LoadError, at
    <3> QED
      BY <2>4, <3>1, <3>2, InsertResult
  <2>7. /\ Loaded(m, ptr, vals).memory =
             IF count = 0 THEN m
             ELSE [m EXCEPT !.data = StoredAt(@, ptr, new),
                            !.validated_addresses = @ \union V]
    BY DEF Loaded
  <2> HIDE DEF loadErr, first, valid
  <2>8. count # 0 /\ LoadData(m, ptr, vals).memory = n
    BY <2>1, <2>7, <1>1, <1>4 DEF Memories
  <2>9. count \in 1..Len(vals)
          /\ \A i \in 1..count : loadErr(i) \notin {"UnallocatedSegment", "InconsistentMemory"}
    <3>1. CASE fails = {}
      BY <3>1, <2>8, <1>1
    <3>2. CASE fails # {}
      <4>1. first \in 1..Len(vals) /\ \A j \in 1..Len(vals) : j < first => loadErr(j) = "ok"
        <5>1. first \in 1..Len(vals)
          BY <2>5, <3>2
        <5>2. ASSUME NEW j \in 1..Len(vals), j < first
              PROVE  loadErr(j) = "ok"
          <6>1. j \notin fails
            BY <5>1, <5>2, <2>5, <3>2
          <6> QED
            BY <6>1
        <5> QED
          BY <5>1, <5>2
      <4>2. CASE loadErr(first) \in {"UnallocatedSegment", "InconsistentMemory"}
        <5>1. count = first - 1
          BY <3>2, <4>2
        <5> QED
          BY <5>1, <4>1, <2>8, <1>1
      <4>3. CASE loadErr(first) \notin {"UnallocatedSegment", "InconsistentMemory"}
        <5>1. count = first
          BY <3>2, <4>3
        <5> QED
          BY <5>1, <4>1, <4>3, <1>1
      <4> QED
        BY <4>2, <4>3
    <3> QED
      BY <3>1, <3>2
  <2>10. ASSUME NEW i \in 1..Len(vals), fails = {} \/ i < first
         PROVE  loadErr(i) = "ok" /\ i <= count
    <3>1. i \notin fails
      BY <2>10, <2>5
    <3>2. loadErr(i) = "ok"
      BY <3>1
    <3>3. CASE fails = {}
      BY <3>2, <3>3, <1>1
    <3>4. CASE fails # {}
      BY <3>2, <3>4, <2>5, <2>10
    <3> QED
      BY <3>3, <3>4
  <2> HIDE DEF fails, count, err
  <2>11. /\ new \in Seq(Values)
         /\ Len(new) = count
         /\ \A i \in 1..count : new[i] = vals[i]
    <3>1. \A i \in 1..count : vals[i] \in Values
      BY <2>4, <2>9, <1>1
    <3> QED
      BY <3>1, <2>9, <1>1, SubSeqProperties
  <2>12. ptr.seg < Len(m.data)
    <3>1. 1 \in 1..count /\ 1 \in 1..Len(vals)
      BY <2>9, <1>1
    <3> QED
      BY <3>1, <2>6, <2>9
  <2>13. ASSUME NEW b \in Relocatables,
                b.seg = ptr.seg, b.off >= ptr.off, b.off < ptr.off + Len(new)
         PROVE  Cell(m.data, b) \in {None, new[b.off - ptr.off + 1]}
    <3>1. b.off \in Nat /\ b = RelocatableValue(b.seg, b.off)
      BY RelocatableFields
    <3>2. b.off - ptr.off + 1 \in 1..count
      BY <3>1, <2>2, <2>9, <2>11, <2>13, <1>1
    <3>3. b.off - ptr.off + 1 \in 1..Len(vals)
      BY <3>2, <2>9, <1>1
    <3>4. b = at(b.off - ptr.off + 1)
      <4>1. ptr.off + (b.off - ptr.off + 1) - 1 = b.off
        BY <3>1, <2>2
      <4> QED
        BY <4>1, <3>1, <3>3, <2>4, <2>13
    <3> HIDE DEF at
    <3> QED
      BY <3>2, <3>3, <3>4, <2>6, <2>9, <2>11
  <2>14. ASSUME NEW b \in V
         PROVE  /\ b \in A
                /\ b.seg \in m.validation_rules
                /\ InRange(Cell(StoredAt(m.data, ptr, new), b))
    <3>1. PICK i \in 1..Len(vals) : b = at(i) /\ (fails = {} \/ i < first)
      BY DEF valid
    <3>2. loadErr(i) = "ok" /\ i \in 1..count
      BY <3>1, <2>9, <2>10, <1>1
    <3>3. /\ b \in A
          /\ b.seg = ptr.seg
          /\ b.off = ptr.off + i - 1
      BY <3>1, <2>4 DEF RelocatableValue
    <3>4. Cell(StoredAt(m.data, ptr, new), b) = new[b.off - ptr.off + 1]
      <4>1. b.off >= ptr.off /\ b.off < ptr.off + Len(new)
        BY <3>2, <3>3, <2>2, <2>9, <2>11, <1>1
      <4>2. b \in Relocatables
        BY <3>3
      <4> QED
        BY <4>1, <4>2, <3>3, <2>2, <2>11, <2>12, <1>1, StoredAtProperties
    <3>5. b.off - ptr.off + 1 = i
      BY <3>3, <2>2
    <3>6. InRange(vals[i])
      BY <3>2, <3>3, <2>6
    <3> QED
      BY <3>2, <3>3, <3>4, <3>5, <3>6, <2>11
  <2>15. V \in SUBSET A
    BY <2>14
  <2>16. Within(ptr, Len(new), A)
    <3> SUFFICES ASSUME NEW b \in Relocatables, b.seg = ptr.seg, b.off < ptr.off + Len(new)
                 PROVE  b \in A
      BY DEF Within
    <3>1. b.off \in Nat
      BY RelocatableFields
    <3>2. b.off < ptr.off + Len(vals)
      BY <3>1, <2>2, <2>9, <2>11, <1>1
    <3> QED
      BY <3>2, <2>3 DEF Within
  <2>17. MemoryInv(n, A) /\ Grows(m, n)
    <3> HIDE DEF new, V
    <3> QED
      BY <2>2, <2>11, <2>12, <2>13, <2>14, <2>15, <2>16, StoreStep
  <2> QED
    BY <2>8, <2>17
<1> QED
  BY <1>3, <1>4

\* A new segment is empty: the addresses and the cells are what they were.
LEMMA NewSegmentStep ==
  ASSUME NEW A \in SUBSET Relocatables, NEW m, MemoryInv(m, A)
  PROVE  LET n == WithNewSegment(m)
         IN  /\ MemoryInv(n, A)
             /\ Len(n.data) = Len(m.data) + 1
             /\ \A i \in 1..Len(m.data) : n.data[i] = m.data[i]
             /\ n.validated_addresses = m.validated_addresses
             /\ n.validation_rules = m.validation_rules
             /\ AddressesIn(n.data) = AddressesIn(m.data)
             /\ \A b \in Relocatables : Cell(n.data, b) = Cell(m.data, b)
<1> DEFINE d == Append(m.data, << >>)
           n == WithNewSegment(m)
<1>1. m \in Memories(A) /\ m.data \in Seq(Seq(Elements)) /\ Len(m.data) \in Nat
  BY LenProperties DEF MemoryInv, Memories
<1>2. /\ d \in Seq(Seq(Elements))
      /\ Len(d) = Len(m.data) + 1
      /\ \A i \in 1..Len(m.data) : d[i] = m.data[i]
      /\ d[Len(m.data) + 1] = << >>
  BY <1>1
<1>3. /\ n.data = d
      /\ n.validated_addresses = m.validated_addresses
      /\ n.validation_rules = m.validation_rules
      /\ n \in Memories(A)
  BY <1>1, <1>2 DEF WithNewSegment, Memories
<1> HIDE DEF d, n
<1>4. ASSUME NEW b \in Relocatables
      PROVE  /\ Cell(d, b) = Cell(m.data, b)
             /\ b \in AddressesIn(d) <=> b \in AddressesIn(m.data)
  <2>1. b.seg \in Nat /\ b.off \in Nat
    BY RelocatableFields
  <2>2. CASE b.seg < Len(m.data)
    <3>1. b.seg + 1 \in 1..Len(m.data)
      BY <2>1, <2>2, <1>1
    <3>2. b.seg < Len(d)
      BY <2>1, <2>2, <1>1, <1>2
    <3>3. d[b.seg + 1] = m.data[b.seg + 1]
      BY <3>1, <1>2
    <3> QED
      BY <2>2, <3>2, <3>3, <1>1, <1>2, AddressesInside DEF Cell
  <2>3. CASE b.seg = Len(m.data)
    <3>1. d[b.seg + 1] = << >> /\ b.seg < Len(d) /\ ~(b.seg < Len(m.data))
      BY <2>1, <2>3, <1>1, <1>2
    <3>2. ~(b.off < Len(d[b.seg + 1]))
      BY <3>1, <2>1
    <3> QED
      BY <3>1, <3>2, <1>1, <1>2, AddressesInside DEF Cell
  <2>4. CASE b.seg > Len(m.data)
    <3>1. ~(b.seg < Len(d)) /\ ~(b.seg < Len(m.data))
      BY <2>1, <2>4, <1>1, <1>2
    <3> QED
      BY <3>1, <1>1, <1>2, AddressesInside DEF Cell
  <2> QED
    BY <2>1, <2>2, <2>3, <2>4, <1>1
<1>5. AddressesIn(d) = AddressesIn(m.data)
  BY <1>1, <1>2, <1>4, AddressesInside
<1>6. MemoryInv(n, A)
  <2>1. ASSUME NEW a \in m.validated_addresses
        PROVE  a.seg \in m.validation_rules /\ InRange(Cell(d, a))
    <3>1. a \in Relocatables
      BY <1>1 DEF Memories
    <3> QED
      BY <3>1, <1>4 DEF MemoryInv
  <2> QED
    BY <2>1, <1>3, <1>5 DEF MemoryInv
<1> QED
  BY <1>2, <1>3, <1>4, <1>5, <1>6 DEF n

-----------------------------------------------------------------------------
(* Nothing escapes the validation.                                         *)

\* n has nothing new in a segment with a rule but what is validated in n.
NewAreValidated(m, n) ==
  \A b \in Relocatables :
    (Cell(m.data, b) = None /\ Cell(n.data, b) # None /\ b.seg \in m.validation_rules) =>
      b \in n.validated_addresses

\* The result of applying a rule to a cell, and of an insert.
LEMMA ErrorKinds ==
  ASSUME NEW m, NEW key, NEW val
  PROVE  /\ ValidationError(m, key) \in ValidationErrors \union {"ok"}
         /\ IsRel(key) =>
              Insert(m, key, val).err \in
                ValidationErrors \union {"ok", "UnallocatedSegment", "InconsistentMemory"}
<1>1. ASSUME NEW w
      PROVE  ValidationError(w, key) \in ValidationErrors \union {"ok"}
  BY DEF ValidationError, RuleError, ValidationErrors
<1>2. IsRel(key) =>
        WriteError(m.data, key, val) \in {"ok", "UnallocatedSegment", "InconsistentMemory"}
  BY DEF WriteError
<1>3. ValidationError(Written(m, key, val), key) \in ValidationErrors \union {"ok"}
  BY <1>1
<1> QED
  BY <1>1, <1>2, <1>3 DEF Insert

\* An insert that no validation refuses validates what it assigns.
LEMMA InsertValidates ==
  ASSUME NEW A \in SUBSET Relocatables, NEW m, MemoryInv(m, A), NEW val \in Values,
         NEW key, IsRel(key) => key \in A,
         Insert(m, key, val).err \notin ValidationErrors
  PROVE  NewAreValidated(m, Insert(m, key, val).memory)
<1> DEFINE w == Written(m, key, val)
           n == ValidateCell(w, key)
<1>1. m \in Memories(A) /\ m.data \in Seq(Seq(Elements))
  BY DEF MemoryInv, Memories
<1>2. CASE Insert(m, key, val).memory = m
  BY <1>2 DEF NewAreValidated
<1>3. CASE Insert(m, key, val).memory # m
  <2>1. /\ WriteError(m.data, key, val) = "ok"
        /\ Insert(m, key, val).memory = n
        /\ ValidationError(w, key) \notin ValidationErrors
    BY <1>3 DEF Insert
  <2>2. ValidationError(w, key) = "ok"
    BY <2>1, ErrorKinds
  <2>3. IsRel(key) /\ ~(key.seg >= Len(m.data))
    BY <2>1 DEF WriteError
  <2>4. key \in A /\ key \in Relocatables /\ key.seg \in Nat /\ key.off \in Nat
    BY <2>3, RelocatableFields
  <2>5. key.seg < Len(m.data)
    BY <2>3, <2>4, <1>1, LenProperties
  <2>6. /\ w.validation_rules = m.validation_rules
        /\ w.validated_addresses = m.validated_addresses
        /\ w \in [data : {w.data}, validated_addresses : {w.validated_addresses},
                  validation_rules : {w.validation_rules}]
    BY <1>1 DEF Written, Memories
  <2>7. n.data = w.data
    BY <2>6 DEF ValidateCell
  <2>8. key.seg \in m.validation_rules => key \in n.validated_addresses
    BY <2>2, <2>6 DEF ValidateCell, NeedsRule
  <2>9. ASSUME NEW b \in Relocatables, Cell(m.data, b) = None, Cell(w.data, b) # None
        PROVE  b = key
    <3>1. Cell(m.data, key) = None /\ w.data = StoredAt(m.data, key, <<val>>)
      BY <2>9, <1>1 DEF Written, Memories
    <3>2. <<val>> \in Seq(Values) /\ Len(<<val>>) = 1
      OBVIOUS
    <3>3. b.seg = key.seg /\ b.off >= key.off /\ b.off < key.off + Len(<<val>>)
      <4> DEFINE vals == <<val>>
      <4>1. vals \in Seq(Values)
        BY <3>2
      <4> HIDE DEF w, n, vals
      <4>2. Cell(StoredAt(m.data, key, vals), b) =
              IF b.seg = key.seg /\ b.off >= key.off /\ b.off < key.off + Len(vals)
              THEN vals[b.off - key.off + 1] ELSE Cell(m.data, b)
        BY <4>1, <2>4, <2>5, <1>1, StoredAtProperties
      <4> QED
        BY <4>2, <3>1, <2>9 DEF vals
    <3>4. b.off \in Nat /\ b = RelocatableValue(b.seg, b.off)
            /\ key = RelocatableValue(key.seg, key.off)
      BY <2>4, RelocatableFields
    <3>5. b.off = key.off
      BY <3>2, <3>3, <3>4, <2>4
    <3> QED
      BY <3>3, <3>4, <3>5
  <2> HIDE DEF n, w
  <2> QED
    BY <2>1, <2>7, <2>8, <2>9 DEF NewAreValidated
<1> QED
  BY <1>2, <1>3

\* A load that no validation refuses validates what it assigns: the values
\* before the first that is refused.
LEMMA LoadValidates ==
  ASSUME NEW A \in SUBSET Relocatables, NEW m, MemoryInv(m, A), NEW ptr, NEW vals \in Seq(Values),
         IsRel(ptr) => ptr \in A /\ Within(ptr, Len(vals), A),
         LoadData(m, ptr, vals).err \notin ValidationErrors
  PROVE  NewAreValidated(m, LoadData(m, ptr, vals).memory)
<1> DEFINE at(i)      == [ptr EXCEPT !.off = @ + i - 1]
           loadErr(i) == LoadError(m, ptr, vals, i)
           fails == {i \in 1..Len(vals) : loadErr(i) # "ok"}
           first == CHOOSE i \in fails : \A j \in fails : i <= j
           err   == IF fails = {} THEN "ok" ELSE loadErr(first)
           count == IF fails = {} THEN Len(vals)
                    ELSE IF err \in {"UnallocatedSegment", "InconsistentMemory"}
                    THEN first - 1
                    ELSE first
           valid == {at(i) : i \in {j \in 1..Len(vals) : fails = {} \/ j < first}}
           new   == SubSeq(vals, 1, count)
           n     == Loaded(m, ptr, vals).memory
<1>1. m \in Memories(A) /\ m.data \in Seq(Seq(Elements)) /\ Len(vals) \in Nat
  BY LenProperties DEF MemoryInv, Memories
<1>2. CASE LoadData(m, ptr, vals).memory = m
  BY <1>2 DEF NewAreValidated
<1>3. CASE LoadData(m, ptr, vals).memory # m
  <2>1. IsRel(ptr) /\ LoadData(m, ptr, vals) = Loaded(m, ptr, vals)
    BY <1>3 DEF LoadData
  <2>2. ptr \in A /\ ptr \in Relocatables /\ ptr.seg \in Nat /\ ptr.off \in Nat
          /\ ptr = RelocatableValue(ptr.seg, ptr.off)
    BY <2>1, RelocatableFields
  <2>3. /\ n = IF count = 0 THEN m
               ELSE [m EXCEPT !.data = StoredAt(@, ptr, new),
                              !.validated_addresses =
                                 @ \union {a \in valid : a.seg \in m.validation_rules}]
        /\ err \notin ValidationErrors
    BY <2>1 DEF Loaded
  <2>4. fails # {} => first \in fails /\ \A j \in fails : first <= j
    <3>1. fails \in SUBSET Nat
      OBVIOUS
    <3> HIDE DEF fails
    <3> QED
      BY <3>1, HasMinimum
  <2>5. fails # {} => err \in {"UnallocatedSegment", "InconsistentMemory"}
    <3> SUFFICES ASSUME fails # {}
                 PROVE  err \in {"UnallocatedSegment", "InconsistentMemory"}
      OBVIOUS
    <3>1. first \in 1..Len(vals) /\ loadErr(first) # "ok" /\ err = loadErr(first)
      BY <2>4
    <3> HIDE DEF first, fails, err
    <3>2. IsRel(at(first))
      <4>1. ptr.off + first - 1 \in Nat
        BY <3>1, <2>2, <1>1
      <4>2. at(first) = RelocatableValue(ptr.seg, ptr.off + first - 1)
        BY <2>2 DEF RelocatableValue
      <4> HIDE DEF at
      <4>3. at(first) \in Relocatables
        BY <4>1, <4>2, <2>2 DEF Relocatables, RelocatableValue
      <4> QED
        BY <4>3, RelocatableFields
    <3> HIDE DEF at
    <3>3. loadErr(first) = Insert(m, at(first), vals[first]).err
      BY DEF LoadError, at
    <3> QED
      BY <3>1, <3>2, <3>3, <2>3, ErrorKinds
  <2>6. /\ count \in 0..Len(vals)
        /\ \A i \in 1..count : i \in 1..Len(vals) /\ (fails = {} \/ i < first)
    <3>1. CASE fails = {}
      BY <3>1, <1>1
    <3>2. CASE fails # {}
      <4>1. first \in 1..Len(vals) /\ count = first - 1
        BY <3>2, <2>4, <2>5
      <4> HIDE DEF first, count
      <4> QED
        BY <4>1, <1>1
    <3> QED
      BY <3>1, <3>2
  <2>7. \A i \in 1..count : at(i) \in valid
    BY <2>6
  <2> HIDE DEF fails, first, err, count, valid
  <2>8. count # 0
    BY <2>1, <2>3, <1>3
  <2>9. /\ new \in Seq(Values)
        /\ Len(new) = count
    <3>1. \A i \in 1..count : vals[i] \in Values
      BY <2>6, <1>1, ElementOfSeq
    <3> QED
      BY <3>1, <2>6, <1>1, SubSeqProperties
  <2>10. /\ n.data = StoredAt(m.data, ptr, new)
         /\ n.validated_addresses =
              m.validated_addresses \union {a \in valid : a.seg \in m.validation_rules}
    BY <2>3, <2>8, <1>1 DEF Memories
  <2> HIDE DEF new, n, at
  <2>11. ptr.seg < Len(m.data)
    <3>1. 1 \in 1..Len(vals) /\ 1 \in 1..count
      BY <2>6, <2>8, <1>1
    <3>2. loadErr(1) \notin {"UnallocatedSegment", "InconsistentMemory"}
      <4>1. ASSUME 1 \in fails
            PROVE  FALSE
        <5>1. first <= 1 /\ 1 < first
          BY <4>1, <3>1, <2>4, <2>6
        <5>2. first \in Nat
          BY <4>1, <2>4 DEF fails
        <5> QED
          BY <5>1, <5>2
      <4> QED
        BY <3>1, <4>1 DEF fails
    <3>3. at(1) \in A /\ at(1).seg = ptr.seg
      <4>1. at(1) = RelocatableValue(ptr.seg, ptr.off)
        BY <2>2 DEF at, RelocatableValue
      <4> QED
        BY <4>1, <2>2
    <3>4. vals[1] \in Values
      BY <3>1, ElementOfSeq
    <3>5. loadErr(1) = Insert(m, at(1), vals[1]).err
      BY DEF LoadError, at
    <3> QED
      BY <3>2, <3>3, <3>4, <3>5, InsertResult
  <2>12. ASSUME NEW b \in Relocatables, Cell(m.data, b) = None, Cell(n.data, b) # None,
                b.seg \in m.validation_rules
         PROVE  b \in n.validated_addresses
    <3>1. b.seg = ptr.seg /\ b.off >= ptr.off /\ b.off < ptr.off + Len(new)
      BY <2>2, <2>9, <2>10, <2>11, <2>12, <1>1, StoredAtProperties
    <3>2. b.off \in Nat /\ b = RelocatableValue(b.seg, b.off)
      BY RelocatableFields
    <3>3. b.off - ptr.off + 1 \in 1..count
      BY <3>1, <3>2, <2>2, <2>6, <2>9
    <3>4. b = at(b.off - ptr.off + 1)
      <4>1. ptr.off + (b.off - ptr.off + 1) - 1 = b.off
        BY <3>2, <2>2
      <4>2. at(b.off - ptr.off + 1) =
              RelocatableValue(ptr.seg, ptr.off + (b.off - ptr.off + 1) - 1)
        BY <2>2 DEF at, RelocatableValue
      <4> QED
        BY <4>1, <4>2, <3>1, <3>2
    <3>5. b \in valid
      BY <3>3, <3>4, <2>7
    <3> QED
      BY <3>5, <2>10, <2>12
  <2> QED
    BY <2>1, <2>12 DEF NewAreValidated, n
<1> QED
  BY <1>2, <1>3

\* Of any addresses, one comes before all the others.
LEMMA FirstAddress ==
  ASSUME NEW R \in SUBSET Relocatables, R # {}
  PROVE  \E a \in R : \A b \in R \ {a} : Before(a, b)
<1> DEFINE segs    == {a.seg : a \in R}
           offs(s) == {a.off : a \in {b \in R : b.seg = s}}
<1>1. \A a \in R : /\ a.seg \in Nat /\ a.off \in Nat
                   /\ a = RelocatableValue(a.seg, a.off)
  BY RelocatableFields
<1>2. PICK s \in segs : \A t \in segs : s <= t
  <2>1. segs \in SUBSET Nat /\ segs # {}
    BY <1>1
  <2> HIDE DEF segs
  <2> QED
    BY <2>1, HasMinimum
<1>3. PICK off \in offs(s) : \A o \in offs(s) : off <= o
  <2>1. offs(s) \in SUBSET Nat /\ offs(s) # {}
    BY <1>1, <1>2
  <2> HIDE DEF offs
  <2> QED
    BY <2>1, HasMinimum
<1>4. PICK a \in R : a.seg = s /\ a.off = off
  BY <1>3
<1>5. ASSUME NEW b \in R, b # a
      PROVE  Before(a, b)
  <2>1. s <= b.seg /\ (b.seg = s => off <= b.off)
    BY <1>2, <1>3
  <2>2. b.seg = s => b.off # off
    BY <1>1, <1>4, <1>5
  <2> QED
    BY <2>1, <2>2, <1>1, <1>4 DEF Before
<1> QED
  BY <1>4, <1>5

\* When validate_existing_memory succeeds, every element of a segment with a
\* rule is validated.
LEMMA ValidateExistingValidates ==
  ASSUME NEW A \in SUBSET Relocatables, NEW m, MemoryInv(m, A), ValidateExisting(m).err = "ok"
  PROVE  LET n == ValidateExisting(m).memory
         IN  /\ n.data = m.data /\ n.validation_rules = m.validation_rules
             /\ \A a \in AddressesIn(m.data) :
                  a.seg \in m.validation_rules => a \in n.validated_addresses
<1> DEFINE accepted == {a \in AddressesIn(m.data) :
                          /\ NeedsRule(m, a)
                          /\ a \notin Refused(m)
                          /\ \A b \in Refused(m) : Before(a, b)}
           first == CHOOSE a \in Refused(m) :
                      \A b \in Refused(m) \ {a} : Before(a, b)
           n == ValidateExisting(m).memory
<1>1. Refused(m) = {}
  <2> SUFFICES ASSUME Refused(m) # {}
               PROVE  FALSE
    OBVIOUS
  <2>1. Refused(m) \in SUBSET Relocatables
    BY DEF Refused, MemoryInv
  <2>2. first \in Refused(m)
    BY <2>1, FirstAddress
  <2>3. ValidateExisting(m).err = ValidationError(m, first)
    BY DEF ValidateExisting
  <2> HIDE DEF first
  <2> QED
    BY <2>2, <2>3 DEF Refused
<1>2. /\ n.data = m.data
      /\ n.validation_rules = m.validation_rules
      /\ n.validated_addresses = m.validated_addresses \union accepted
  BY DEF ValidateExisting, MemoryInv, Memories
<1>3. ASSUME NEW a \in AddressesIn(m.data), a.seg \in m.validation_rules
      PROVE  a \in m.validated_addresses \union accepted
  BY <1>1, <1>3 DEF NeedsRule
<1> QED
  BY <1>2, <1>3

\* A memory has a number of segments.
LEMMA SegmentsCounted ==
  ASSUME NEW A, NEW m, MemoryInv(m, A)
  PROVE  /\ Len(m.data) \in Nat
         /\ m.data \in Seq(Seq(Elements))
  BY LenProperties DEF MemoryInv, Memories

\* Any address is reachable where every one is.
LEMMA AllWithin ==
  /\ Relocatables \in SUBSET Relocatables
  /\ \A key : IsRel(key) /\ key \in Relocatables =>
       /\ Within(key, 1, Relocatables)
       /\ \A n : Within(key, n, Relocatables)
  BY DEF Within

\* What an insert leaves in the cells: the value at the key, if anything is
\* new; and surely so if it succeeds.
LEMMA InsertCells ==
  ASSUME NEW m, MemoryInv(m, Relocatables), NEW val \in Values,
         NEW key, IsRel(key) => key \in Relocatables
  PROVE  LET r == Insert(m, key, val)
         IN  /\ \A b \in Relocatables :
                  \/ Cell(r.memory.data, b) = Cell(m.data, b)
                  \/ b = key /\ Cell(r.memory.data, b) = val
             /\ r.err = "ok" =>
                  key \in Relocatables /\ Cell(r.memory.data, key) = val
<1> DEFINE w == Written(m, key, val)
           n == ValidateCell(w, key)
           r == Insert(m, key, val)
<1>1. m.data \in Seq(Seq(Elements)) /\ Len(m.data) \in Nat /\ m \in Memories(Relocatables)
  BY SegmentsCounted DEF MemoryInv
<1>2. CASE WriteError(m.data, key, val) # "ok"
  <2>1. r = [memory |-> m, err |-> WriteError(m.data, key, val)]
    BY <1>2 DEF Insert
  <2> QED
    BY <1>2, <2>1
<1>3. CASE WriteError(m.data, key, val) = "ok"
  <2>1. r.memory = n
    BY <1>3 DEF Insert
  <2>2. IsRel(key) /\ ~(key.seg >= Len(m.data)) /\ Cell(m.data, key) \in {None, val}
    BY <1>3 DEF WriteError
  <2>3. key \in Relocatables /\ key.seg \in Nat /\ key.off \in Nat
    BY <2>2, RelocatableFields
  <2>4. key.seg < Len(m.data)
    BY <2>2, <2>3, <1>1
  <2>5. n.data = w.data
    <3>1. w \in [data : {w.data}, validated_addresses : {w.validated_addresses},
                 validation_rules : {w.validation_rules}]
      BY <1>1 DEF Written, Memories
    <3> HIDE DEF w
    <3> QED
      BY <3>1 DEF ValidateCell
  <2>6. Cell(w.data, key) = val
    BY <2>2, <2>3, <2>4, WrittenCell
  <2>7. ASSUME NEW b \in Relocatables, b # key
        PROVE  Cell(w.data, b) = Cell(m.data, b)
    <3>1. CASE Cell(m.data, key) # None
      BY <3>1 DEF Written
    <3>2. CASE Cell(m.data, key) = None
      <4>1. w.data = StoredAt(m.data, key, <<val>>)
        BY <3>2, <1>1 DEF Written, Memories
      <4> HIDE DEF w, n, r
      <4>2. <<val>> \in Seq(Values) /\ Len(<<val>>) = 1
        OBVIOUS
      <4>3. ~(b.seg = key.seg /\ b.off >= key.off /\ b.off < key.off + 1)
        <5>1. b.seg \in Nat /\ b.off \in Nat /\ b = RelocatableValue(b.seg, b.off)
          BY RelocatableFields
        <5>2. key = RelocatableValue(key.seg, key.off)
          BY <2>3, RelocatableFields
        <5>3. b.seg = key.seg => b.off # key.off
          BY <2>7, <5>1, <5>2
        <5> QED
          BY <2>3, <5>1, <5>3
      <4> DEFINE vals == <<val>>
      <4>4. vals \in Seq(Values) /\ Len(vals) = 1
        BY <4>2
      <4> HIDE DEF vals
      <4>5. Cell(StoredAt(m.data, key, vals), b) =
              IF b.seg = key.seg /\ b.off >= key.off /\ b.off < key.off + Len(vals)
              THEN vals[b.off - key.off + 1] ELSE Cell(m.data, b)
        <5> DEFINE data == m.data
        <5>1. data \in Seq(Seq(Elements)) /\ key.seg < Len(data)
          BY <1>1, <2>4
        <5> HIDE DEF data
        <5>2. Cell(StoredAt(data, key, vals), b) =
                IF b.seg = key.seg /\ b.off >= key.off /\ b.off < key.off + Len(vals)
                THEN vals[b.off - key.off + 1] ELSE Cell(data, b)
          BY <2>3, <4>4, <5>1, StoredAtProperties
        <5> QED
          BY <5>2 DEF data
      <4>6. Cell(StoredAt(m.data, key, vals), b) = Cell(m.data, b)
        BY <4>3, <4>4, <4>5
      <4> QED
        BY <4>1, <4>6 DEF vals
    <3> QED
      BY <3>1, <3>2
  <2> HIDE DEF w, n
  <2>8. \A b \in Relocatables : \/ Cell(n.data, b) = Cell(m.data, b)
                                \/ b = key /\ Cell(n.data, b) = val
    BY <2>5, <2>6, <2>7
  <2> QED
    BY <2>1, <2>3, <2>5, <2>6, <2>8
<1> QED
  BY <1>2, <1>3
=============================================================================
