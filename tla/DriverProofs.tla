---------------------------- MODULE DriverProofs ----------------------------
(***************************************************************************)
(* The driver returns what native recursion returns, for every program: any *)
(* number of activations, members, calls and results, recursive or not.     *)
(*                                                                         *)
(* The inductive invariant reads the heap frames as the native call stack:   *)
(* each frame waits for one activation, and what the code above a frame is   *)
(* still going to return natively is what the frame waits for.               *)
(***************************************************************************)
EXTENDS Driver, SequenceTheorems, TLAPS

\* The activation whose result the first k frames of fs wait for.
Awaited(p, fs, k) ==
  IF k = 0 THEN p.start ELSE p.moves[fs[k].act][fs[k].got].to

\* What activation `a` is still to return, on top of the first k frames, is what is awaited.
Owes(p, fs, k, a, got) ==
  /\ p.native[a][got] = p.native[Awaited(p, fs, k)][<<>>]
  /\ Union(p) => MemberOf[a] = MemberOf[Awaited(p, fs, k)]
  /\ p.depth[a] + k <= p.depth[p.start]

FramesWait(p, fs) ==
  \A k \in 1..Len(fs) :
    Parks(p, fs[k].act, fs[k].got) /\ Owes(p, fs, k - 1, fs[k].act, fs[k].got)

Answers(p, fs, v) ==
  /\ v.result = p.native[Awaited(p, fs, Len(fs))][<<>>]
  /\ Union(p) => v.variant = MemberOf[Awaited(p, fs, Len(fs))]

Room(p, cap) == cap <= FIRST_FRAMES \/ cap <= 2 * p.depth[p.start]

IInv ==
  /\ TypeOK
  /\ prog \in Programs
  /\ FramesWait(prog, frames)
  /\ Room(prog, capacity)
  /\ mode = "entry" => Owes(prog, frames, Len(frames), input, <<>>)
  /\ mode # "entry" => Answers(prog, frames, value)
  /\ mode = "returned" => frames = <<>>

-----------------------------------------------------------------------------
\* One more result is still a list of results the bodies know what to do with.
LEMMA GotsGrow ==
  ASSUME NEW got \in Gots, Len(got) < MaxCalls, NEW r \in Results
  PROVE  Append(got, r) \in Gots
<1>1. PICK n \in 0..MaxCalls : got \in [1..n -> Results]
  BY DEF Gots
<1>2. n \in Nat /\ got \in Seq(Results) /\ Len(got) = n
  BY <1>1, ConstantsAssumption
<1>3. Append(got, r) \in Seq(Results) /\ Len(Append(got, r)) = n + 1
  BY <1>2, AppendProperties
<1>4. Append(got, r) \in [1..n + 1 -> Results]
  BY <1>3, LenProperties
<1>5. n + 1 \in 0..MaxCalls
  BY <1>2, ConstantsAssumption
<1>6. QED
  BY <1>4, <1>5 DEF Gots

LEMMA EmptyGot == <<>> \in Gots
<1>1. <<>> \in [1..0 -> Results] /\ 0 \in 0..MaxCalls
  BY ConstantsAssumption
<1>2. QED
  BY <1>1 DEF Gots

\* The types of a program at one point of one body.
LEMMA ProgramTypes ==
  ASSUME NEW p \in Programs, NEW a \in Acts, NEW got \in Gots
  PROVE  /\ p.start \in Acts
         /\ p.moves[a][got] \in Moves
         /\ p.native[a][got] \in Results
         /\ p.depth[a] \in Nat
         /\ MemberOf[a] \in Members
         /\ p.ret[MemberOf[a]] \in Types
<1>1. p \in ProgramType
  BY ProgramsAssumption
<1>2. p.moves \in [Acts -> [Gots -> Moves]] /\ p.native \in [Acts -> [Gots -> Results]]
  BY <1>1 DEF ProgramType
<1>3. p.depth \in [Acts -> Nat] /\ p.ret \in [Members -> Types] /\ p.start \in Acts
  BY <1>1 DEF ProgramType
<1>4. QED
  BY <1>2, <1>3, ConstantsAssumption

LEMMA MoveTypes ==
  ASSUME NEW mv \in Moves
  PROVE  /\ mv.kind \in {"call", "try", "again", "done"}
         /\ mv.kind = "done" => mv.result \in Results
         /\ mv.kind # "done" => mv.to \in Acts
BY DEF Moves

\* What the assumptions on a program say of one point of one body.
LEMMA ProgramSteps ==
  ASSUME NEW p \in Programs, NEW a \in Acts, NEW got \in Gots
  PROVE  /\ p.moves[a][got].kind = "done" => p.native[a][got] = p.moves[a][got].result
         /\ p.moves[a][got].kind = "again" =>
              /\ p.native[a][got] = p.native[p.moves[a][got].to][<<>>]
              /\ MemberOf[p.moves[a][got].to] = MemberOf[a]
              /\ p.depth[p.moves[a][got].to] <= p.depth[a]
         /\ IsTail(p, a, got) => p.depth[p.moves[a][got].to] <= p.depth[a]
         /\ Parks(p, a, got) => p.depth[p.moves[a][got].to] < p.depth[a]
         /\ Calls(p, a, got) => Len(got) < MaxCalls
<1>1. WellFormed(p) /\ NativeRecursion(p) /\ NestingBound(p)
  BY ProgramsAssumption
<1> DEFINE mv == p.moves[a][got]
<1>2. mv.kind = "done" => p.native[a][got] = mv.result
  BY <1>1 DEF NativeRecursion
<1>3. mv.kind = "again" => p.native[a][got] = p.native[mv.to][<<>>]
  BY <1>1 DEF NativeRecursion
<1>4. mv.kind = "again" => MemberOf[mv.to] = MemberOf[a]
  BY <1>1 DEF WellFormed
<1>5. (IsTail(p, a, got) \/ mv.kind = "again") => p.depth[mv.to] <= p.depth[a]
  BY <1>1 DEF NestingBound
<1>6. Parks(p, a, got) => p.depth[mv.to] < p.depth[a]
  BY <1>1 DEF NestingBound
<1>7. Calls(p, a, got) => Len(got) < MaxCalls
  BY <1>1 DEF WellFormed
<1>8. QED
  BY <1>2, <1>3, <1>4, <1>5, <1>6, <1>7

\* What a call that is parked, or is entered without a frame, returns natively.
LEMMA ProgramCalls ==
  ASSUME NEW p \in Programs, NEW a \in Acts, NEW got \in Gots, Calls(p, a, got),
         NEW r \in Results, r = p.native[p.moves[a][got].to][<<>>]
  PROVE  /\ p.moves[a][got].kind = "try" /\ r \notin Ok =>
              p.native[a][got] = FromResidual[p.ret[MemberOf[a]]][r]
         /\ p.moves[a][got].kind # "try" \/ r \in Ok =>
              p.native[a][got] = p.native[a][Append(got, r)]
         /\ IsTail(p, a, got) => p.native[a][got] = r
<1> DEFINE mv == p.moves[a][got]
<1>1. mv \in Moves /\ mv.kind \in {"call", "try"}
  BY ProgramTypes DEF Calls
<1>4. NativeRecursion(p)
  BY ProgramsAssumption
<1>5. mv.kind = "call" => p.native[a][got] = p.native[a][Append(got, r)]
  BY <1>4 DEF NativeRecursion
<1>6. mv.kind = "try" =>
        p.native[a][got] = IF r \in Ok THEN p.native[a][Append(got, r)]
                           ELSE FromResidual[p.ret[MemberOf[a]]][r]
  BY <1>4 DEF NativeRecursion
<1>7. ASSUME IsTail(p, a, got) PROVE p.native[a][got] = r
  <2>1. mv.kind = "call" /\ p.moves[a][Append(got, r)] = [kind |-> "done", result |-> r]
    BY <1>7 DEF IsTail, Identity
  <2>2. Append(got, r) \in Gots
    BY ProgramSteps, GotsGrow
  <2>3. p.moves[a][Append(got, r)].kind = "done" /\ p.moves[a][Append(got, r)].result = r
    BY <2>1
  <2>4. p.native[a][Append(got, r)] = r
    BY <2>2, <2>3, ProgramSteps
  <2>5. QED
    BY <1>5, <2>1, <2>4
<1>8. QED
  BY <1>1, <1>5, <1>6, <1>7

-----------------------------------------------------------------------------
\* A parked frame waits for what it entered.
LEMMA FramesGrow ==
  ASSUME NEW p \in Programs, NEW fs \in Seq(Frame), FramesWait(p, fs),
         NEW f \in Frame, Parks(p, f.act, f.got), Owes(p, fs, Len(fs), f.act, f.got)
  PROVE  /\ Append(fs, f) \in Seq(Frame)
         /\ Len(Append(fs, f)) = Len(fs) + 1
         /\ FramesWait(p, Append(fs, f))
         /\ Awaited(p, Append(fs, f), Len(fs) + 1) = p.moves[f.act][f.got].to
<1> DEFINE gs == Append(fs, f)
<1>1. /\ gs \in Seq(Frame) /\ Len(gs) = Len(fs) + 1 /\ Len(fs) \in Nat
      /\ \A k \in 1..Len(fs) : gs[k] = fs[k]
      /\ gs[Len(fs) + 1] = f
  BY AppendProperties
<1> HIDE DEF gs
<1>2. \A k \in 0..Len(fs) : Awaited(p, gs, k) = Awaited(p, fs, k)
  BY <1>1 DEF Awaited
<1>3. ASSUME NEW k \in 1..Len(fs)
      PROVE  Parks(p, gs[k].act, gs[k].got) /\ Owes(p, gs, k - 1, gs[k].act, gs[k].got)
  <2>1. Parks(p, fs[k].act, fs[k].got) /\ Owes(p, fs, k - 1, fs[k].act, fs[k].got)
    BY DEF FramesWait
  <2>2. gs[k] = fs[k] /\ Awaited(p, gs, k - 1) = Awaited(p, fs, k - 1)
    BY <1>1, <1>2
  <2>3. QED
    BY <2>1, <2>2 DEF Owes
<1>4. Owes(p, gs, Len(fs), f.act, f.got)
  BY <1>1, <1>2 DEF Owes
<1>5. FramesWait(p, gs)
  <2>1. \A k \in 1..Len(gs) : k \in 1..Len(fs) \/ (k = Len(fs) + 1 /\ gs[k] = f)
    BY <1>1
  <2>2. QED
    BY <1>1, <1>3, <1>4, <2>1 DEF FramesWait
<1>6. Awaited(p, gs, Len(fs) + 1) = p.moves[f.act][f.got].to
  BY <1>1 DEF Awaited
<1>7. QED
  BY <1>1, <1>5, <1>6 DEF gs

\* Popping a frame leaves the others waiting as they were.
LEMMA FramesShrink ==
  ASSUME NEW p \in Programs, NEW fs \in Seq(Frame), FramesWait(p, fs), fs # <<>>
  PROVE  LET gs == SubSeq(fs, 1, Len(fs) - 1)
             f  == fs[Len(fs)]
         IN /\ f \in Frame
            /\ gs \in Seq(Frame)
            /\ Len(gs) = Len(fs) - 1 /\ Len(gs) \in Nat
            /\ FramesWait(p, gs)
            /\ Parks(p, f.act, f.got)
            /\ Owes(p, gs, Len(gs), f.act, f.got)
            /\ Awaited(p, fs, Len(fs)) = p.moves[f.act][f.got].to
<1> DEFINE n == Len(fs) - 1
           gs == SubSeq(fs, 1, n)
           f  == fs[Len(fs)]
<1>1. Len(fs) \in Nat \ {0} /\ n \in Nat /\ n <= Len(fs) /\ n + 1 = Len(fs)
  OBVIOUS
<1>2. f \in Frame /\ \A k \in 1..n : fs[k] \in Frame
  BY <1>1, ElementOfSeq
<1> HIDE DEF n
<1>3. gs \in Seq(Frame) /\ Len(gs) = n /\ \A k \in 1..n : gs[k] = fs[k]
  BY <1>1, <1>2, SubSeqProperties
<1> HIDE DEF gs, f
<1>4. \A k \in 0..n : Awaited(p, gs, k) = Awaited(p, fs, k)
  BY <1>1, <1>3 DEF Awaited
<1>5. ASSUME NEW k \in 1..n
      PROVE  Parks(p, gs[k].act, gs[k].got) /\ Owes(p, gs, k - 1, gs[k].act, gs[k].got)
  <2>1. Parks(p, fs[k].act, fs[k].got) /\ Owes(p, fs, k - 1, fs[k].act, fs[k].got)
    BY <1>1 DEF FramesWait
  <2>2. gs[k] = fs[k] /\ Awaited(p, gs, k - 1) = Awaited(p, fs, k - 1)
    BY <1>1, <1>3, <1>4
  <2>3. QED
    BY <2>1, <2>2 DEF Owes
<1>6. Parks(p, f.act, f.got) /\ Owes(p, fs, n, f.act, f.got)
  BY <1>1 DEF FramesWait, f
<1>7. Owes(p, gs, n, f.act, f.got)
  BY <1>1, <1>4, <1>6 DEF Owes
<1>8. Awaited(p, fs, Len(fs)) = p.moves[f.act][f.got].to
  BY <1>1 DEF Awaited, f
<1>9. FramesWait(p, gs)
  BY <1>3, <1>5 DEF FramesWait
<1>10. QED
  BY <1>1, <1>2, <1>3, <1>6, <1>7, <1>8, <1>9 DEF gs, f, n

-----------------------------------------------------------------------------
LEMMA InitIInv == Init => IInv
<1> SUFFICES ASSUME Init PROVE IInv
  OBVIOUS
<1> USE DEF Init
<1>1. prog \in ProgramType /\ prog.start \in Acts /\ prog.depth[prog.start] \in Nat
  BY ProgramsAssumption DEF ProgramType
<1>2. value \in Value
  BY ConstantsAssumption DEF Value
<1>3. TypeOK
  BY <1>1, <1>2, EmptySeq DEF TypeOK
<1>4. FramesWait(prog, frames) /\ Room(prog, capacity)
  BY ConstantsAssumption DEF FramesWait, Room
<1>5. Owes(prog, frames, Len(frames), input, <<>>)
  BY <1>1 DEF Owes, Awaited
<1>6. QED
  BY <1>3, <1>4, <1>5 DEF IInv

\* A finished body answers what was awaited of it.
LEMMA FinishIInv ==
  ASSUME TypeOK, prog \in Programs, Room(prog, capacity),
         NEW a \in Acts, NEW r \in Results, NEW fs \in Seq(Frame), Len(fs) <= capacity,
         FramesWait(prog, fs),
         r = prog.native[Awaited(prog, fs, Len(fs))][<<>>],
         Union(prog) => MemberOf[a] = MemberOf[Awaited(prog, fs, Len(fs))],
         Finish(a, r, fs)
  PROVE  IInv'
<1> USE DEF Finish
<1>1. prog' = prog /\ frames' = fs /\ capacity' = capacity /\ input' = input /\ mode' = "value"
  OBVIOUS
<1>2. /\ value'.result = r
      /\ Union(prog) => value'.variant = MemberOf[a]
      /\ value' \in Value
  BY ConstantsAssumption DEF Wrap, Value
<1>3. TypeOK'
  BY <1>1, <1>2 DEF TypeOK
<1>4. Answers(prog', frames', value')
  BY <1>1, <1>2 DEF Answers
<1>5. QED
  BY <1>1, <1>3, <1>4 DEF IInv

\* Whatever a body does next, on top of frames that wait for it, keeps the invariant.
LEMMA RunIInv ==
  ASSUME TypeOK, prog \in Programs, Room(prog, capacity),
         NEW a \in Acts, NEW got \in Gots, NEW fs \in Seq(Frame), Len(fs) <= capacity,
         FramesWait(prog, fs),
         Owes(prog, fs, Len(fs), a, got),
         Run(a, got, fs)
  PROVE  IInv'
<1> DEFINE mv == prog.moves[a][got]
           f  == [act |-> a, got |-> got]
<1>0. /\ mv \in Moves
      /\ prog.depth[a] \in Nat
      /\ prog.depth[prog.start] \in Nat
      /\ Len(fs) \in Nat
      /\ capacity \in Nat
      /\ FIRST_FRAMES \in Nat \ {0}
  BY ProgramTypes, EmptyGot, ConstantsAssumption DEF TypeOK
<1>1. CASE Park(a, got, fs)
  <2>1. /\ Parks(prog, a, got)
        /\ frames' = Append(fs, f)
        /\ capacity' = Grown(fs)
        /\ mode' = "entry" /\ input' = mv.to /\ prog' = prog /\ value' = value
    BY <1>1 DEF Park
  <2>2. mv.to \in Acts
    BY <1>0, <2>1, MoveTypes DEF Parks, Calls
  <2>3. f \in Frame /\ Parks(prog, f.act, f.got) /\ Owes(prog, fs, Len(fs), f.act, f.got)
    BY <2>1 DEF Frame
  <2>4. /\ frames' \in Seq(Frame)
        /\ Len(frames') = Len(fs) + 1
        /\ FramesWait(prog, frames')
        /\ Awaited(prog, frames', Len(frames')) = mv.to
    <3> HIDE DEF f, mv
    <3>1. prog.moves[f.act][f.got] = mv
      BY DEF f, mv
    <3>2. QED
      BY <2>1, <2>3, <3>1, FramesGrow
  <2>5. prog.depth[mv.to] \in Nat /\ prog.depth[mv.to] < prog.depth[a]
    BY <2>1, <2>2, EmptyGot, ProgramTypes, ProgramSteps
  <2>6. Owes(prog, frames', Len(frames'), mv.to, <<>>)
    <3>1. prog.depth[a] + Len(fs) <= prog.depth[prog.start]
      BY DEF Owes
    <3>2. prog.depth[mv.to] + Len(frames') <= prog.depth[prog.start]
      BY <1>0, <2>4, <2>5, <3>1
    <3>3. QED
      BY <2>4, <3>2 DEF Owes
  <2>7. /\ capacity' \in Nat /\ Len(frames') <= capacity'
        /\ Room(prog, capacity')
    <3>1. Len(fs) + 1 <= prog.depth[prog.start]
      BY <1>0, <2>5 DEF Owes
    <3>2. CASE Len(fs) # capacity
      BY <1>0, <2>1, <2>4, <3>2 DEF Grown
    <3>3. CASE Len(fs) = capacity /\ capacity = 0
      BY <1>0, <2>1, <2>4, <3>3 DEF Grown, Room
    <3>4. CASE Len(fs) = capacity /\ capacity # 0
      BY <1>0, <2>1, <2>4, <3>1, <3>4 DEF Grown, Room
    <3>5. QED
      BY <3>2, <3>3, <3>4
  <2>8. TypeOK'
    BY <2>1, <2>2, <2>4, <2>7 DEF TypeOK
  <2>9. QED
    BY <2>1, <2>4, <2>6, <2>7, <2>8 DEF IInv
<1>2. CASE TailCall(a, got, fs)
  <2>1. /\ IsTail(prog, a, got)
        /\ frames' = fs /\ capacity' = capacity
        /\ mode' = "entry" /\ input' = mv.to /\ prog' = prog /\ value' = value
    BY <1>2 DEF TailCall
  <2>2. mv.to \in Acts /\ Calls(prog, a, got) /\ ~Union(prog)
    BY <1>0, <2>1, MoveTypes DEF IsTail, Calls
  <2>3. prog.native[mv.to][<<>>] \in Results /\ prog.native[a][got] = prog.native[mv.to][<<>>]
    BY <2>1, <2>2, EmptyGot, ProgramTypes, ProgramCalls
  <2>4. prog.depth[mv.to] \in Nat /\ prog.depth[mv.to] <= prog.depth[a]
    BY <2>1, <2>2, EmptyGot, ProgramTypes, ProgramSteps
  <2>5. Owes(prog, fs, Len(fs), mv.to, <<>>)
    BY <1>0, <2>2, <2>3, <2>4 DEF Owes
  <2>6. TypeOK'
    BY <2>1, <2>2 DEF TypeOK
  <2>7. QED
    BY <2>1, <2>5, <2>6 DEF IInv
<1>3. CASE Again(a, got, fs)
  <2>1. /\ mv.kind = "again"
        /\ frames' = fs /\ capacity' = capacity
        /\ mode' = "entry" /\ input' = mv.to /\ prog' = prog /\ value' = value
    BY <1>3 DEF Again
  <2>2. mv.to \in Acts
    BY <1>0, <2>1, MoveTypes
  <2>3. /\ prog.native[a][got] = prog.native[mv.to][<<>>]
        /\ MemberOf[mv.to] = MemberOf[a]
        /\ prog.depth[mv.to] \in Nat /\ prog.depth[mv.to] <= prog.depth[a]
    BY <2>1, <2>2, EmptyGot, ProgramTypes, ProgramSteps
  <2>4. Owes(prog, fs, Len(fs), mv.to, <<>>)
    <3> HIDE DEF mv
    <3>1. prog.depth[mv.to] + Len(fs) <= prog.depth[prog.start]
      BY <1>0, <2>3 DEF Owes
    <3>2. QED
      BY <2>3, <3>1 DEF Owes
  <2>5. TypeOK'
    BY <2>1, <2>2 DEF TypeOK
  <2>6. QED
    BY <2>1, <2>4, <2>5 DEF IInv
<1>4. CASE Done(a, got, fs)
  <2>1. mv.kind = "done" /\ Finish(a, mv.result, fs)
    BY <1>4 DEF Done
  <2>2. mv.result \in Results /\ prog.native[a][got] = mv.result
    BY <1>0, <2>1, MoveTypes, ProgramSteps
  <2>3. mv.result = prog.native[Awaited(prog, fs, Len(fs))][<<>>]
    BY <2>2 DEF Owes
  <2>4. Union(prog) => MemberOf[a] = MemberOf[Awaited(prog, fs, Len(fs))]
    BY DEF Owes
  <2>5. QED
    BY <2>1, <2>2, <2>3, <2>4, FinishIInv
<1>5. QED
  BY <1>1, <1>2, <1>3, <1>4 DEF Run

-----------------------------------------------------------------------------
\* What popping leaves, and what the value means to the frame that was popped.
LEMMA PoppedFrame ==
  ASSUME IInv, Popping
  PROVE  /\ Popped.act \in Acts /\ Popped.got \in Gots
         /\ Rest \in Seq(Frame) /\ Len(Rest) <= capacity
         /\ FramesWait(prog, Rest)
         /\ Parks(prog, Popped.act, Popped.got)
         /\ Calls(prog, Popped.act, Popped.got)
         /\ Owes(prog, Rest, Len(Rest), Popped.act, Popped.got)
         /\ value.result \in Results
         /\ value.result = prog.native[prog.moves[Popped.act][Popped.got].to][<<>>]
<1> USE DEF IInv
<1>1. /\ prog \in Programs /\ frames \in Seq(Frame) /\ FramesWait(prog, frames)
      /\ frames # <<>> /\ Answers(prog, frames, value)
      /\ value \in Value /\ Len(frames) <= capacity /\ capacity \in Nat
  BY DEF Popping, TypeOK
<1>2. /\ Popped \in Frame
      /\ Rest \in Seq(Frame)
      /\ Len(Rest) = Len(frames) - 1 /\ Len(Rest) \in Nat
      /\ FramesWait(prog, Rest)
      /\ Parks(prog, Popped.act, Popped.got)
      /\ Owes(prog, Rest, Len(Rest), Popped.act, Popped.got)
      /\ Awaited(prog, frames, Len(frames)) = prog.moves[Popped.act][Popped.got].to
  BY <1>1, FramesShrink DEF Popped, Rest
<1>3. Len(Rest) <= capacity
  BY <1>1, <1>2
<1>4. value.result \in Results
  BY <1>1 DEF Value
<1>5. QED
  BY <1>1, <1>2, <1>3, <1>4 DEF Answers, Frame, Parks

LEMMA ResumeIInv == IInv /\ Resume => IInv'
<1> SUFFICES ASSUME IInv, Resume PROVE IInv'
  OBVIOUS
<1> DEFINE a == Popped.act
           got == Popped.got
           r == value.result
<1>1. Popping /\ Run(a, Append(got, r), Rest)
      /\ (prog.moves[a][got].kind # "try" \/ r \in Ok)
  BY DEF Resume, Refused, Checks
<1>2. /\ a \in Acts /\ got \in Gots /\ r \in Results
      /\ Rest \in Seq(Frame) /\ Len(Rest) <= capacity
      /\ FramesWait(prog, Rest) /\ Calls(prog, a, got)
      /\ Owes(prog, Rest, Len(Rest), a, got)
      /\ r = prog.native[prog.moves[a][got].to][<<>>]
  BY <1>1, PoppedFrame
<1>3. prog \in Programs /\ TypeOK /\ Room(prog, capacity)
  BY DEF IInv
<1> HIDE DEF a, got, r
<1>4. Append(got, r) \in Gots
  BY <1>2, <1>3, ProgramSteps, GotsGrow
<1>5. prog.native[a][got] = prog.native[a][Append(got, r)]
  BY <1>1, <1>2, <1>3, ProgramCalls
<1>6. Owes(prog, Rest, Len(Rest), a, Append(got, r))
  BY <1>2, <1>5 DEF Owes
<1>7. QED
  BY <1>1, <1>2, <1>3, <1>4, <1>6, RunIInv

LEMMA PropagateIInv == IInv /\ (Propagate \/ PropagateShared) => IInv'
<1> SUFFICES ASSUME IInv, Propagate \/ PropagateShared PROVE IInv'
  OBVIOUS
<1> DEFINE a == Popped.act
           got == Popped.got
           r == value.result
           residual == FromResidual[prog.ret[MemberOf[a]]][r]
<1>1. Popping /\ r \notin Ok
  BY DEF Propagate, PropagateShared, Refused
<1>2. /\ a \in Acts /\ got \in Gots /\ r \in Results
      /\ Rest \in Seq(Frame) /\ Len(Rest) <= capacity
      /\ FramesWait(prog, Rest) /\ Calls(prog, a, got)
      /\ Owes(prog, Rest, Len(Rest), a, got)
      /\ r = prog.native[prog.moves[a][got].to][<<>>]
  BY <1>1, PoppedFrame
<1>3. prog \in Programs /\ TypeOK /\ Room(prog, capacity)
  BY DEF IInv
\* Sharing the check is decided only when every call is under `?` and there is one type.
<1>4. prog.moves[a][got].kind = "try"
  <2>1. CASE Propagate
    BY <2>1 DEF Propagate, Checks
  <2>2. CASE PropagateShared
    BY <1>2, <2>2 DEF PropagateShared, ChecksShared, Calls
  <2>3. QED
    BY <2>1, <2>2
<1>5. Finish(a, residual, Rest)
  <2>1. CASE Propagate
    BY <2>1 DEF Propagate
  <2>2. CASE PropagateShared
    <3>1. MemberOf[prog.start] \in Members /\ MemberOf[a] \in Members
      BY <1>2, <1>3, EmptyGot, ProgramTypes
    <3>2. prog.ret[MemberOf[prog.start]] = prog.ret[MemberOf[a]]
      BY <2>2, <3>1 DEF PropagateShared, ChecksShared, Union
    <3>3. QED
      BY <2>2, <3>2 DEF PropagateShared
  <2>3. QED
    BY <2>1, <2>2
<1>6. residual \in Results
  BY <1>2, <1>3, ProgramTypes, ConstantsAssumption
<1> HIDE DEF a, got, r
<1>7. prog.native[a][got] = residual
  BY <1>1, <1>2, <1>3, <1>4, ProgramCalls
<1>8. /\ residual = prog.native[Awaited(prog, Rest, Len(Rest))][<<>>]
      /\ Union(prog) => MemberOf[a] = MemberOf[Awaited(prog, Rest, Len(Rest))]
  BY <1>2, <1>7 DEF Owes
<1> HIDE DEF residual
<1>9. QED
  BY <1>2, <1>3, <1>5, <1>6, <1>8, FinishIInv

LEMMA NextIInv == IInv /\ [Next]_vars => IInv'
<1> SUFFICES ASSUME IInv, [Next]_vars PROVE IInv'
  OBVIOUS
<1>1. CASE Enter
  <2>1. /\ TypeOK /\ prog \in Programs /\ Room(prog, capacity)
        /\ input \in Acts /\ frames \in Seq(Frame) /\ Len(frames) <= capacity
        /\ FramesWait(prog, frames)
        /\ Owes(prog, frames, Len(frames), input, <<>>)
        /\ Run(input, <<>>, frames)
    BY <1>1 DEF Enter, IInv, TypeOK
  <2>2. QED
    BY <2>1, EmptyGot, RunIInv
<1>2. CASE Resume
  BY <1>2, ResumeIInv
<1>3. CASE Propagate \/ PropagateShared
  BY <1>3, PropagateIInv
<1>4. CASE Return
  BY <1>4 DEF Return, IInv, TypeOK
<1>5. CASE UNCHANGED vars
  BY <1>5 DEF vars, IInv, TypeOK
<1>6. QED
  BY <1>1, <1>2, <1>3, <1>4, <1>5 DEF Next

LEMMA Invariant == Spec => []IInv
<1>1. QED
  BY InitIInv, NextIInv, PTL DEF Spec

-----------------------------------------------------------------------------
\* The machine's variables keep their types, and the vector of frames never holds more than
\* its capacity (`push` and `push_grow`).
THEOREM DriverTypeOK == Spec => []TypeOK
<1>1. IInv => TypeOK
  BY DEF IInv
<1>2. QED
  BY <1>1, Invariant, PTL

\* The value the machine returns is the one native recursion returns (driver.rs: machine).
THEOREM DriverAnswersNative == Spec => []AnswersNative
<1>1. IInv => AnswersNative
  BY DEF IInv, AnswersNative, Answers, Awaited
<1>2. QED
  BY <1>1, Invariant, PTL

\* No value reaches a frame, or the caller, in another member's variant of the union
\* (walk.rs: unwrap_result and take_result).
THEOREM DriverRightMember == Spec => []RightMember
<1>1. IInv => RightMember
  <2> SUFFICES ASSUME IInv, mode \in {"value", "returned"}, Union(prog)
               PROVE  value.variant = Expected
    BY DEF RightMember
  <2>1. value.variant = MemberOf[Awaited(prog, frames, Len(frames))] /\ frames \in Seq(Frame)
    BY DEF IInv, Answers, TypeOK
  <2>2. frames = <<>> <=> Len(frames) = 0
    BY <2>1
  <2>3. QED
    BY <2>1, <2>2 DEF Expected, Awaited, Popped
<1>2. QED
  BY <1>1, Invariant, PTL

\* Frames nest no deeper than the calls that are not tail calls, and their vector is at most
\* twice that size (cps.rs: the tail call; defs: push_grow).
THEOREM DriverFrameMemory == Spec => []FrameMemory
<1>1. IInv => FrameMemory
  <2> SUFFICES ASSUME IInv PROVE FrameMemory
    OBVIOUS
  <2>1. /\ prog \in Programs /\ frames \in Seq(Frame) /\ Len(frames) \in Nat
        /\ FramesWait(prog, frames) /\ Room(prog, capacity)
    BY DEF IInv, TypeOK
  <2>2. prog.depth[prog.start] \in Nat
    BY <2>1, ProgramsAssumption DEF ProgramType
  <2>3. CASE frames = <<>>
    BY <2>1, <2>2, <2>3 DEF FrameMemory, Room
  <2>4. CASE frames # <<>>
    <3> DEFINE f == frames[Len(frames)]
    <3>1. Len(frames) \in 1..Len(frames)
      BY <2>1, <2>4
    <3>2. f \in Frame
      BY <2>1, <3>1, ElementOfSeq
    <3>3. prog.depth[f.act] + (Len(frames) - 1) <= prog.depth[prog.start]
          /\ Parks(prog, f.act, f.got)
      BY <2>1, <3>1 DEF FramesWait, Owes
    <3>4. f.act \in Acts /\ f.got \in Gots
      BY <3>2 DEF Frame
    <3>5. prog.moves[f.act][f.got] \in Moves
      BY <2>1, <3>4, ProgramTypes
    <3>6. prog.moves[f.act][f.got].to \in Acts
      BY <3>3, <3>5, MoveTypes DEF Parks, Calls
    <3>7. prog.depth[f.act] \in Nat /\ prog.depth[prog.moves[f.act][f.got].to] \in Nat
      BY <2>1, <3>4, <3>6, ProgramTypes
    <3>8. prog.depth[prog.moves[f.act][f.got].to] < prog.depth[f.act]
      BY <2>1, <3>3, <3>4, ProgramSteps
    <3> HIDE DEF f
    <3>9. QED
      BY <2>1, <2>2, <3>3, <3>7, <3>8 DEF FrameMemory, Room
  <2>5. QED
    BY <2>3, <2>4
<1>2. QED
  BY <1>1, Invariant, PTL
=============================================================================
