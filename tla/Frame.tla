-------------------------------- MODULE Frame --------------------------------
(***************************************************************************)
(* A function runs, and its hints look up their variables.  The compiler   *)
(* makes a reference for each variable where it is defined, and notes how  *)
(* far ap has moved since the start of its tracking group; the hints are   *)
(* told the same where they are.  The compiler and the moves of ap are     *)
(* modelled from the way the code in src/ uses what the compiler wrote.    *)
(***************************************************************************)
EXTENDS HintVariables

CONSTANTS
  Texts,      (* The references that may be made.                          *)
  Arguments,  (* The words below the frame.                                *)
  Pushed,     (* The values that may be pushed.                            *)
  Jumps,      (* The distances of an ap += n that the compiler follows.    *)
  Hints,      (* The lists of hints of a pc: sequences of records with     *)
              (* ids, a function from paths to indices.                    *)
  MaxMoves,      (* Bound on the moves of ap.                              *)
  MaxReferences  (* Bound on the variables.                                *)

\* The hints take the offsets of addresses for numbers of an i32, whose negative
\* numbers and sums fit a usize beyond any segment; the parser refuses an
\* offset below those of an i32.  Of the variables of a hint no two have the
\* same name.
ASSUME FrameAssumption ==
  /\ 2 * OffsetMax < UsizeMax
  /\ None \notin [group : Nat, offset : Nat] /\ None \notin [seg : Nat, off : Int]
  /\ \A text \in Texts :
       /\ text.outer \in BOOLEAN /\ text.inner \in BOOLEAN
       /\ text.register \in {"AP", "FP", None}
       /\ text.offsets \in Seq(Int)
       /\ \A i \in 1..Len(text.offsets) : text.offsets[i] >= -OffsetMax - 1
  /\ Arguments \in Seq(Values) /\ Len(Arguments) <= OffsetMax
  /\ Pushed \subseteq Values /\ Jumps \subseteq Nat
  /\ \A v \in Range(Arguments) \union Pushed : IsRel(v) => v.off <= OffsetMax
  /\ \A list \in Hints : \A k \in 1..Len(list) :
       LET ids == list[k].ids
       IN  /\ list[k] = [ids |-> ids]
           /\ DOMAIN ids \subseteq Seq(STRING)
           /\ \A path \in DOMAIN ids : ids[path] \in Nat
           /\ \A p, q \in DOMAIN ids : Last(p) = Last(q) => p = q

VARIABLES
  vm,         (* The vm, as far as it is used here.                        *)
  tracking,   (* The tracking the compiler gives to the current pc.        *)
  references, (* The reference manager: texts and trackings.               *)
  made,       (* History: ap where each reference was made.                *)
  moves,      (* How often ap has moved.                                   *)
  answer      (* The last look-up and its result, None before.             *)

vars == <<vm, tracking, references, made, moves, answer>>

Init ==
  /\ LET top == RelocatableValue(1, Len(Arguments))
     IN  vm = [memory |-> [EmptyMemory EXCEPT !.data = << << >>, Arguments>>],
               ap |-> top, fp |-> top, references |-> << >>]
  /\ tracking = [group |-> 0, offset |-> 0]
  /\ references = << >> /\ made = << >> /\ moves = 0 /\ answer = None

Move(n, written) ==
  /\ moves < MaxMoves /\ moves' = moves + 1
  /\ vm.ap.off + n <= OffsetMax  \* bound
  /\ vm' = [vm EXCEPT !.ap.off = @ + n, !.memory = written]
  /\ answer' = None
  /\ UNCHANGED <<references, made>>

\* [ap] = v; ap++
Push(v) ==
  /\ Move(1, Insert(vm.memory, vm.ap, v).memory)
  /\ tracking' = [tracking EXCEPT !.offset = @ + 1]

\* ap += n, and what moves ap by a distance the compiler does not know.
AdvanceAp(n) ==
  /\ Move(n, vm.memory)
  /\ tracking' = [tracking EXCEPT !.offset = @ + n]
RevokeAp(n) ==
  /\ Move(n, vm.memory)
  /\ tracking' = [group |-> tracking.group + 1, offset |-> 0]

\* A variable is defined.
Define(text) ==
  /\ references' = Append(references, [text |-> text, tracking |-> tracking])
  /\ made' = Append(made, vm.ap)
  /\ vm' = [vm EXCEPT !.references = GetReferenceList(references')]
  /\ answer' = None
  /\ UNCHANGED <<tracking, moves>>

\* The k-th hint of the current pc looks up a variable; some hints do not
\* pass the tracking on.
LookUp(list, k, path, told) ==
  /\ \E hints \in HintsOfPc(list) :
       answer' = [k |-> k, index |-> list[k].ids[path], told |-> told,
                  r |-> AddressOfName(vm, Last(path), hints[k].ids, told)]
  /\ UNCHANGED <<vm, tracking, references, made, moves>>

Next ==
  \/ \E v \in Pushed : Push(v)
  \/ \E n \in Jumps : AdvanceAp(n) \/ RevokeAp(n)
  \/ \E text \in Texts : Len(references) < MaxReferences /\ Define(text)
  \/ \E list \in Hints : \E k \in 1..Len(list) : \E path \in DOMAIN list[k].ids :
       \E told \in {tracking, None} : LookUp(list, k, path, told)

Spec == Init /\ [][Next]_vars

-----------------------------------------------------------------------------
\* The references whose text the parser keeps whole: no immediate, no offset
\* that overflows, and a second offset only outside of inner brackets.
Kept(text) ==
  /\ text.register # None
  /\ text.inner => text.outer /\ text.offsets # << >>
  /\ Len(text.offsets) <= IF text.inner THEN 2 ELSE 1
  /\ \A i \in 1..Len(text.offsets) : text.offsets[i] <= OffsetMax

\* The address a reference stands for, as a segment and an integer: None if
\* its inner brackets are not around the address of a pointer.
OffsetIn(text, i) == IF i <= Len(text.offsets) THEN text.offsets[i] ELSE 0
Meant(index) ==
  LET text  == references[index + 1].text
      start == IF text.register = "FP" THEN vm.fp ELSE made[index + 1]
      first == start.off + OffsetIn(text, 1)
      found == IF first < 0 THEN None
               ELSE Cell(vm.memory.data, RelocatableValue(start.seg, first))
  IN  IF ~text.inner THEN [seg |-> start.seg, off |-> first + OffsetIn(text, 2)]
      ELSE IF IsRel(found) THEN [seg |-> found.seg, off |-> found.off + OffsetIn(text, 2)]
      ELSE None

Found == answer # None /\ answer.r.err = "ok"

\* A hint gets the address its variable had where it was defined, however ap
\* has moved since, or an address where there is no cell.
AddressAsMeant ==
  (Found /\ Kept(references[answer.index + 1].text)) =>
    \/ /\ Meant(answer.index) # None
       /\ answer.r.val = RelocatableValue(Meant(answer.index).seg, Meant(answer.index).off)
    \/ /\ Meant(answer.index) = None \/ Meant(answer.index).off < 0
       /\ answer.r.val \notin AddressesIn(vm.memory.data)

\* A variable whose address is known at the current pc: its cell exists, and
\* ap has been followed since it was defined, if it matters.
Known(index) ==
  /\ index < Len(references)
  /\ Kept(references[index + 1].text)
  /\ Meant(index) # None /\ Meant(index).off >= 0
  /\ references[index + 1].text.register = "AP" =>
       /\ answer.told # None
       /\ references[index + 1].tracking.group = tracking.group

\* The references without an entry, which move the others out of reach.
WithoutEntry == {i \in 1..Len(references) : ParseText(references[i].text).register = None}

\* The first hint of a pc is given every variable that is known there, but
\* those that references without a register make unreachable.
KnownIsFound ==
  (answer # None /\ Known(answer.index) /\ answer.k = 1
     /\ answer.index < Len(references) - Cardinality(WithoutEntry)) => Found

\* Every hint is given every variable that is known where it is.
EveryVariableFound == (answer # None /\ Known(answer.index)) => Found
=============================================================================
