------------------------------- MODULE Driver -------------------------------
(***************************************************************************)
(* The loop a `#[stack_safe]` group runs on (src/stack_safe/driver.rs): the *)
(* members' bodies are arms of one machine, a recursive call parks what is  *)
(* live in a frame on the heap, and the frame on top is resumed with the    *)
(* value its callee finishes with.                                          *)
(*                                                                         *)
(* A program is what the bodies do between two transfers: `moves[a][got]` is *)
(* what activation `a` does next when its recursive calls so far answered   *)
(* `got`.  `native` is the same program run by native recursion.            *)
(***************************************************************************)
EXTENDS Integers, Sequences

CONSTANTS Acts,          \* activations: a member with its arguments, or a loop iteration
          Members,       \* the functions of the group
          MemberOf,      \* the member an activation runs
          Types,         \* return types
          Results,       \* what a call may return
          Ok,            \* the results `Try::branch` lets through
          FromResidual,  \* what `?` returns for another result, by return type
          MaxCalls,      \* bound of the model: recursive calls one activation makes
          Programs,      \* the programs considered
          FIRST_FRAMES   \* capacity the first push reserves (64 in the code)

Gots == UNION {[1..n -> Results] : n \in 0..MaxCalls}
Moves ==
  [kind : {"call", "try", "again"}, to : Acts] \union [kind : {"done"}, result : Results]

ProgramType ==
  [start   : Acts,
   ret     : [Members -> Types],
   options : BOOLEAN,
   moves   : [Acts -> [Gots -> Moves]],
   native  : [Acts -> [Gots -> Results]],
   depth   : [Acts -> Nat]]

Calls(p, a, got) == p.moves[a][got].kind \in {"call", "try"}
-----------------------------------------------------------------------------
\* What the macro decides about a group.

\* Members that return different types answer through one union.
Union(p) == \E m, n \in Members : p.ret[m] # p.ret[n]

(* One plain call in the group does not stop the check from being shared. *)
ChecksSharedMutant(p) ==
  /\ ~Union(p)
  /\ ~p.options
  /\ \E a \in Acts, got \in Gots : p.moves[a][got].kind = "try"

\* All the resume arms share one `?` check when every call is under `?`.
ChecksShared(p) ==
  /\ ~Union(p)
  /\ ~p.options
  /\ \A a \in Acts, got \in Gots : p.moves[a][got].kind # "call"

\* The rest of the body only hands the callee's value on.
Identity(p, a, got) ==
  \A r \in Results : p.moves[a][Append(got, r)] = [kind |-> "done", result |-> r]

(* A tail call of a group that answers through a union is not re-wrapped. *)
IsTailUnwrappedMutant(p, a, got) ==
  p.moves[a][got].kind = "call" /\ Identity(p, a, got)

\* The callee is entered without a frame.
IsTail(p, a, got) ==
  p.moves[a][got].kind = "call" /\ ~Union(p) /\ Identity(p, a, got)

Parks(p, a, got) == Calls(p, a, got) /\ ~IsTail(p, a, got)
-----------------------------------------------------------------------------
\* What native recursion returns, as an equation between calls.
NativeRecursion(p) ==
  \A a \in Acts, got \in Gots :
    LET mv == p.moves[a][got]
        r  == p.native[mv.to][<<>>]
    IN CASE mv.kind = "done"  -> p.native[a][got] = mv.result
         [] mv.kind = "again" -> p.native[a][got] = r
         [] mv.kind = "call"  -> p.native[a][got] = p.native[a][Append(got, r)]
         [] mv.kind = "try"   ->
              p.native[a][got] = IF r \in Ok THEN p.native[a][Append(got, r)]
                                 ELSE FromResidual[p.ret[MemberOf[a]]][r]

\* A bound on how deep calls that are not tail calls nest.
NestingBound(p) ==
  \A a \in Acts, got \in Gots :
    /\ Parks(p, a, got) => p.depth[p.moves[a][got].to] < p.depth[a]
    /\ IsTail(p, a, got) \/ p.moves[a][got].kind = "again" =>
         p.depth[p.moves[a][got].to] <= p.depth[a]

\* A body makes at most MaxCalls calls; a loop iteration stays in its member.
WellFormed(p) ==
  \A a \in Acts, got \in Gots :
    /\ Calls(p, a, got) => Len(got) < MaxCalls
    /\ p.moves[a][got].kind = "again" => MemberOf[p.moves[a][got].to] = MemberOf[a]

ASSUME ConstantsAssumption ==
  /\ MemberOf \in [Acts -> Members]
  /\ Results # {} /\ Ok \subseteq Results
  /\ FromResidual \in [Types -> [Results -> Results]]
  /\ MaxCalls \in Nat
  /\ FIRST_FRAMES \in Nat \ {0}

ASSUME ProgramsAssumption ==
  \A p \in Programs :
    p \in ProgramType /\ WellFormed(p) /\ NativeRecursion(p) /\ NestingBound(p)
-----------------------------------------------------------------------------
VARIABLES prog,      \* the program that was expanded
          mode,      \* what the machine does next: "entry", "value" or "returned"
          input,     \* the activation to enter (`__ss_input`)
          value,     \* the value handed down (`__ss_value`)
          frames,    \* the parked frames (`__ss_frames`)
          capacity   \* the capacity of their vector

vars == <<prog, mode, input, value, frames, capacity>>

Frame == [act : Acts, got : Gots]
Value == [variant : Members \union {"bare"}, result : Results]

\* `push` finds room: the vector never holds more than its capacity.
TypeOK ==
  /\ prog \in ProgramType
  /\ mode \in {"entry", "value", "returned"}
  /\ input \in Acts
  /\ value \in Value
  /\ frames \in Seq(Frame)
  /\ capacity \in Nat
  /\ Len(frames) <= capacity

Wrap(m, r) == [variant |-> IF Union(prog) THEN m ELSE "bare", result |-> r]

Init ==
  /\ prog \in Programs
  /\ mode = "entry"
  /\ input = prog.start
  /\ value = [variant |-> "bare", result |-> CHOOSE r \in Results : TRUE]
  /\ frames = <<>>
  /\ capacity = 0
-----------------------------------------------------------------------------
(* A vector that is full is not grown. *)
GrownMutant(fs) == IF capacity = 0 THEN FIRST_FRAMES ELSE capacity

\* The capacity once one more frame than `fs` is held: FIRST_FRAMES, then doubled when full.
Grown(fs) ==
  IF Len(fs) # capacity THEN capacity
  ELSE IF capacity = 0 THEN FIRST_FRAMES ELSE 2 * capacity

\* The activation's code up to its next transfer, on top of the frames `fs`.
Park(a, got, fs) ==
  /\ Parks(prog, a, got)
  /\ frames' = Append(fs, [act |-> a, got |-> got])
  /\ capacity' = Grown(fs)
  /\ mode' = "entry"
  /\ input' = prog.moves[a][got].to
  /\ UNCHANGED <<prog, value>>

(* A tail call parks a frame like any other call. *)
TailCallMutant(a, got, fs) ==
  /\ IsTail(prog, a, got)
  /\ frames' = Append(fs, [act |-> a, got |-> got])
  /\ capacity' = Grown(fs)
  /\ mode' = "entry"
  /\ input' = prog.moves[a][got].to
  /\ UNCHANGED <<prog, value>>

TailCall(a, got, fs) ==
  /\ IsTail(prog, a, got)
  /\ frames' = fs
  /\ mode' = "entry"
  /\ input' = prog.moves[a][got].to
  /\ UNCHANGED <<prog, value, capacity>>

(* The loop re-enters its head without advancing. *)
AgainMutant(a, got, fs) ==
  /\ prog.moves[a][got].kind = "again"
  /\ frames' = fs
  /\ mode' = "entry"
  /\ input' = a
  /\ UNCHANGED <<prog, value, capacity>>

Again(a, got, fs) ==
  /\ prog.moves[a][got].kind = "again"
  /\ frames' = fs
  /\ mode' = "entry"
  /\ input' = prog.moves[a][got].to
  /\ UNCHANGED <<prog, value, capacity>>

Finish(a, result, fs) ==
  /\ frames' = fs
  /\ mode' = "value"
  /\ value' = Wrap(MemberOf[a], result)
  /\ UNCHANGED <<prog, input, capacity>>

Done(a, got, fs) ==
  /\ prog.moves[a][got].kind = "done"
  /\ Finish(a, prog.moves[a][got].result, fs)

Run(a, got, fs) ==
  Park(a, got, fs) \/ TailCall(a, got, fs) \/ Again(a, got, fs) \/ Done(a, got, fs)
-----------------------------------------------------------------------------
\* The outer loop: dispatch on `__ss_input`.
Enter == mode = "entry" /\ Run(input, <<>>, frames)

\* The inner loop: pop the frame on top and hand it the value.
Popping == mode = "value" /\ frames # <<>>
Popped == frames[Len(frames)]
Rest == SubSeq(frames, 1, Len(frames) - 1)
Checks(f) == prog.moves[f.act][f.got].kind = "try"
Refused == value.result \notin Ok

Resume ==
  /\ Popping
  /\ ~Refused \/ ~(Checks(Popped) \/ ChecksShared(prog))
  /\ Run(Popped.act, Append(Popped.got, value.result), Rest)

\* The check of one resume arm fails: its member finishes with the residual.
Propagate ==
  /\ Popping /\ ~ChecksShared(prog)
  /\ Refused /\ Checks(Popped)
  /\ Finish(Popped.act, FromResidual[prog.ret[MemberOf[Popped.act]]][value.result], Rest)

\* The check above the dispatch fails: whatever the frame, it is dropped and the machine's
\* own return type takes the residual.
PropagateShared ==
  /\ Popping /\ ChecksShared(prog)
  /\ Refused
  /\ Finish(Popped.act, FromResidual[prog.ret[MemberOf[prog.start]]][value.result], Rest)

Return ==
  /\ mode = "value" /\ frames = <<>>
  /\ mode' = "returned"
  /\ UNCHANGED <<prog, input, value, frames, capacity>>

Next == Enter \/ Resume \/ Propagate \/ PropagateShared \/ Return

\* The machine is one thread of straight-line code: it goes on until it returns.
Spec == Init /\ [][Next]_vars /\ WF_vars(Next)
-----------------------------------------------------------------------------
\* The machine returns what native recursion returns, whatever mixture of plain calls, `?`,
\* tail calls and loops the group makes and whichever way its `?` checks are placed.
AnswersNative ==
  mode = "returned" => value.result = prog.native[prog.start][<<>>]

\* The member a value is expected from: the callee of the frame on top, or the member the
\* machine was entered at.
Expected ==
  MemberOf[IF frames = <<>> THEN prog.start ELSE prog.moves[Popped.act][Popped.got].to]

\* The `unreachable!("result of the wrong member")` arms are unreachable: a value comes in
\* the variant of the member it is expected from.
RightMember ==
  mode \in {"value", "returned"} /\ Union(prog) => value.variant = Expected

\* Tail calls and loop iterations cost no frame, and the vector of frames is never more than
\* twice as large as the nesting calls for.
FrameMemory ==
  /\ Len(frames) <= prog.depth[prog.start]
  /\ capacity <= FIRST_FRAMES \/ capacity <= 2 * prog.depth[prog.start]

\* The machine returns for every program whose native recursion does.
Terminates == <>(mode = "returned")
=============================================================================
