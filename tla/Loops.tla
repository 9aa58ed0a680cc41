-------------------------------- MODULE Loops --------------------------------
(***************************************************************************)
(* A program that opens and closes scopes and calls memcpy and memset.     *)
(* The hints are executed by execute_hint, with the references and the ap  *)
(* tracking that the compiler gives them.  The instructions around them    *)
(* are Cairo's library, which is not part of the repository:               *)
(*   func memcpy(dst, src, len)        func memset(dst, value, n)          *)
(*     if len = 0: return                if n = 0: return                  *)
(*     enter_scope                       enter_scope                       *)
(*     tempvar frame = dst, src          tempvar frame = dst               *)
(*     loop:                             loop:                             *)
(*       [frame.dst] = [frame.src]         [frame.dst] = value             *)
(*       continue = [ap]                   continue = [ap]                 *)
(*       next_frame = [ap + 1]             next_frame = [ap + 1]           *)
(*       next_frame.dst = dst + 1; ap++    next_frame.dst = dst + 1; ap++  *)
(*       next_frame.src = src + 1; ap++                                    *)
(*       continue_copying                  continue_loop                   *)
(*       jmp loop if continue; ap++        jmp loop if continue; ap++      *)
(*     assert len = the rounds made      assert n = the rounds made        *)
(*     exit_scope                        exit_scope                        *)
(* An action is one hint, with the instructions up to the next.            *)
(***************************************************************************)
EXTENDS HintFrames

CONSTANTS
  Heaps,      (* What the second segment may hold at first.                *)
  Scopes,     (* The scopes the run may start with.                        *)
  Copies,     (* The arguments of memcpy: sequences dst, src, len.         *)
  Sets,       (* The arguments of memset: sequences dst, value, n.         *)
  MaxCalls,   (* Bound on the calls of the program.                        *)
  MaxScopes,  (* Bound on the scopes that are open between calls.          *)
  MaxSteps    (* Bound on the hints of a call.                             *)

\* What a call takes of the frame's segment: its arguments and its return
\* address, and three cells for each of its hints.
CallSize == 5 + 3 * MaxSteps

\* The frames are inside of a segment.  A heap is a segment; the run has at
\* least one scope.  What is filled is in the heap, and copied from there; a
\* number of cells is none below zero.
ASSUME LoopsAssumption ==
  /\ MaxCalls \in Nat /\ MaxSteps \in Nat /\ MaxCalls * CallSize <= UsizeMax
  /\ None \notin Int /\ None \notin [group : Nat, offset : Nat]
  /\ \A heap \in Heaps : heap \in Seq(Values \union {None})
  /\ \A scopes \in Scopes : scopes \in Seq(Range(scopes)) /\ scopes # << >>
  /\ \A arguments \in Copies \union Sets :
       /\ arguments \in Seq(Values) /\ Len(arguments) = 3
       /\ IsRel(arguments[1]) /\ arguments[1].seg = 1
       /\ IsInt(arguments[3]) => arguments[3].num \in Nat
  /\ \A arguments \in Copies : IsRel(arguments[2]) /\ arguments[2].seg = 1

VARIABLES
  vm,         (* The vm.                                                   *)
  error,      (* The error that ended the run, "ok" if none has.           *)
  pc,         (* "main", or where the call is: "enter", "loop", "leave".   *)
  routine,    (* "memcpy" or "memset", as called last.                     *)
  calls,      (* The number of calls made.                                 *)
  steps,      (* The number of hints that the last of them has executed.   *)
  before      (* History: the heap and the scopes when the last call was   *)
              (* made, and its arguments.                                  *)

vars == <<vm, error, pc, routine, calls, steps, before>>

\* len and n are the last argument; continue_copying and continue_loop are
\* the cell that ap pointed to when the round began.
References == [i \in 0..1 |-> IF i = 0 THEN Fp(-3) ELSE Ap(0, Tracking(1, 0))]

Init ==
  /\ \E heap \in Heaps, scopes \in Scopes :
       vm = [memory |-> [EmptyMemory EXCEPT !.data = << << >>, heap>>], trackers |-> << >>,
             scopes |-> scopes, ap |-> P(0, 0), fp |-> P(0, 0),
             builtin_runners |-> << >>, references |-> References]
  /\ error = "ok" /\ pc = "main" /\ routine = "memcpy" /\ calls = 0 /\ steps = 0
  /\ before = [heap |-> << >>, scopes |-> << >>, arguments |-> << >>]

\* The registers move ap, and so does a push.
Push(m, values) ==
  [m EXCEPT !.memory = LoadData(@, m.ap, values).memory, !.ap.off = @ + Len(values)]

\* The arguments of the current call, and the pointers of the current round.
Argument(i) == Value(vm, Field(vm.fp, i - 6))
Pointers    == IF routine = "memcpy" THEN 2 ELSE 1
Frame       == [i \in 1..Pointers |-> Value(vm, Field(vm.ap, i - 1 - Pointers))]

\* A hint with one variable, which has the index given.
Execute(m, hint, index, offset) ==
  ExecuteHint(m, hint[1], [name \in {hint[2]} |-> index], Tracking(1, offset))

-----------------------------------------------------------------------------
(* Between the calls.                                                      *)

OpenScope ==
  /\ error = "ok" /\ pc = "main" /\ Len(vm.scopes) < MaxScopes
  /\ vm' = ExecuteHint(vm, "enter_scope", NoScope, NoTracking).vm
  /\ UNCHANGED <<error, pc, routine, calls, steps, before>>

CloseScope ==
  /\ error = "ok" /\ pc = "main"
  /\ \E r \in {ExecuteHint(vm, "exit_scope", NoScope, NoTracking)} : vm' = r.vm /\ error' = r.err
  /\ UNCHANGED <<pc, routine, calls, steps, before>>

\* The arguments and the return address are pushed; a call for no cells
\* returns before its first hint.
Begin(name, arguments) ==
  /\ error = "ok" /\ pc = "main" /\ calls < MaxCalls
  /\ \E m \in {Push(vm, arguments \o <<vm.fp, I(0)>>)} :
       vm' = IF arguments[3] = I(0) THEN m ELSE [m EXCEPT !.fp = m.ap]
  /\ pc' = IF arguments[3] = I(0) THEN "main" ELSE "enter"
  /\ routine' = name /\ calls' = calls + 1 /\ steps' = 0
  /\ before' = [heap |-> vm.memory.data[2], scopes |-> vm.scopes, arguments |-> arguments]
  /\ UNCHANGED error

-----------------------------------------------------------------------------
(* In a call.                                                              *)

\* The machine counts what it executes.
Tick == error = "ok" /\ pc # "main" /\ steps < MaxSteps /\ steps' = steps + 1

\* The first hint of a call and its variable.
EnterHint == IF routine = "memcpy" THEN <<"memcpy_enter_scope", "len">>
                                  ELSE <<"memset_enter_scope", "n">>

Enter ==
  /\ pc = "enter"
  /\ \E r \in {Execute(vm, EnterHint, 0, 0)} :
       /\ error' = r.err
       /\ vm' = IF r.err = "ok" THEN Push(r.vm, [i \in 1..Pointers |-> Argument(i)]) ELSE r.vm
  /\ pc' = "loop"
  /\ UNCHANGED <<routine, calls, before>>

\* The next pointers are below ap when the hint is executed.
Advanced(m, frame) ==
  [m EXCEPT !.memory = LoadData(@, Field(m.ap, 1), [i \in 1..Len(frame) |-> Field(frame[i], 1)]).memory,
            !.ap.off = @ + Len(frame)]

\* The hint that ends a round and its variable; the pointers of the next round
\* are in place when it is executed.
EndHint == IF routine = "memcpy" THEN <<"memcpy_continue_copying", "continue_copying">>
                                ELSE <<"memset_continue_loop", "continue_loop">>

EndRound(m) == Execute(m, EndHint, 1, Pointers)

Round ==
  /\ pc = "loop"
  /\ \E frame \in {Frame} :
     \E value \in {IF routine = "memcpy" THEN Value(vm, frame[2]) ELSE Argument(2)} :
     \E stored \in {Insert(vm.memory, frame[1], value)} :
       IF value = None \/ stored.err # "ok"
       THEN /\ error' = IF value = None THEN "UnknownOperand" ELSE stored.err
            /\ UNCHANGED <<vm, pc>>
       ELSE \E m \in {Advanced([vm EXCEPT !.memory = stored.memory], frame)} :
            \E r \in {EndRound(m)} :
              /\ error' = r.err
              /\ vm' = [r.vm EXCEPT !.ap.off = @ + 1]
              /\ pc' = IF Value(r.vm, vm.ap) = I(0) THEN "leave" ELSE "loop"
  /\ UNCHANGED <<routine, calls, before>>

\* The caller's fp is below the return address.
Leave ==
  /\ pc = "leave"
  /\ IF Argument(3) = I(Frame[1].off - Argument(1).off)
     THEN \E r \in {ExecuteHint(vm, "exit_scope", NoScope, NoTracking)} :
            /\ vm' = [r.vm EXCEPT !.fp = Value(vm, Field(vm.fp, -2))]
            /\ error' = r.err
            /\ pc' = "main"
     ELSE /\ error' = "AssertFailed"
          /\ UNCHANGED <<vm, pc>>
  /\ UNCHANGED <<routine, calls, before>>

Step == Tick /\ (Enter \/ Round \/ Leave)

Next ==
  \/ OpenScope
  \/ CloseScope
  \/ \E arguments \in Copies : Begin("memcpy", arguments)
  \/ \E arguments \in Sets : Begin("memset", arguments)
  \/ Step

\* run_until_pc steps for as long as there is no error: a call that has begun
\* goes on.  Whether the program makes another call is its own choice.  This is
\* weak fairness of Step: Tick is enabled exactly when Step is, since at each pc
\* of a call one of Enter, Round and Leave goes on whatever the hint answers,
\* and only Step counts.
Spec == Init /\ [][Next]_vars /\ WF_steps(Tick)

-----------------------------------------------------------------------------
\* The heap after one more cell of a call is filled, the i-th; an error when a
\* cell to copy has no value or the one to fill has another.
FillNext(name, arguments, filled, i) ==
  LET at(address) == Cell(<< << >>, filled.val>>, address)
      target == Field(arguments[1], i - 1)
      value  == IF name = "memset" THEN arguments[2] ELSE at(Field(arguments[2], i - 1))
  IN  IF filled.err # "ok" THEN filled
      ELSE IF value = None \/ at(target) \notin {None, value} THEN Err("CannotFill")
      ELSE Ok(StoredAt(<< << >>, filled.val>>, target, <<value>>)[2])

\* The heap once the cells of a call are filled, as many as each number says.
Filled(name, call) ==
  LET filled[i \in 0..call.arguments[3].num] ==
        IF i = 0 THEN Ok(call.heap) ELSE FillNext(name, call.arguments, filled[i - 1], i)
  IN  filled

Wanted == IF IsInt(before.arguments[3])
          THEN Filled(routine, before)[before.arguments[3].num]
          ELSE Err("NotANumber")

\* A call that returns has filled as many cells as it was asked for, with what
\* it was to fill them with, and has touched no other; and a call fails only
\* when that cannot be done.  The rounds are counted in a scope, by hints
\* that see nothing of the memory they are about.
CallsExact ==
  calls > 0 =>
    /\ (error = "ok" /\ pc = "main") => Wanted = Ok(vm.memory.data[2])
    /\ (error # "ok" /\ pc # "main") => Wanted.err # "ok"

\* The scope of a call is its own: a call leaves the caller's scopes as they
\* were, a variable n of the caller included.
CallersScopesKept ==
  [][(pc # "main" /\ pc' = "main") => (vm'.scopes = before.scopes /\ error' = "ok")]_vars

\* Every call returns or ends the run: the loop is left.
CallsReturn == (pc # "main") ~> (pc = "main" \/ error # "ok")
=============================================================================
