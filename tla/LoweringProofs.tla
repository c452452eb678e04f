--------------------------- MODULE LoweringProofs ---------------------------
(***************************************************************************)
(* For every body in which no operand is late, of any size: the rewritten  *)
(* body does what the body as it was written does, in the same order, on   *)
(* the same values. The argument is a simulation. While no event is out,   *)
(* the continuations that wait stand for the frames of native evaluation   *)
(* (`Standing`), and the state of native evaluation is on its way, through *)
(* moves that nobody sees (`Star`), to where the rewriting is (`AtCps`,    *)
(* `AtSeq` and so on). Code that is not yet run, because it is carried to  *)
(* where it will be spliced, is followed along both (`Follows`): whatever  *)
(* it comes to, item by item, native evaluation comes to as well. Lists of *)
(* any length are covered without induction on data, by the first place    *)
(* where something would fail.                                             *)
(***************************************************************************)
EXTENDS Lowering, TLAPS, SequenceTheorems, WellFoundedInduction

-----------------------------------------------------------------------------
(* Numbers and lists. *)

\* A set of numbers that is not empty has a least member.
LEMMA LeastNat ==
  ASSUME NEW T, T \subseteq Nat, T # {}
  PROVE  \E x \in T : \A y \in T : x <= y
<1>1. PICK x \in T : \A y \in T : ~ (<<y, x>> \in OpToRel(<, Nat))
  BY NatLessThanWellFounded, WFMin
<1>2. \A y \in T : ~ (y < x)
  BY <1>1 DEF OpToRel
<1> QED BY <1>2

Listed(s) == \E S : s \in Seq(S)

\* Two lists have their members in one set.
LEMMA Together ==
  ASSUME NEW s, NEW t, Listed(s), Listed(t)
  PROVE  \E S : s \in Seq(S) /\ t \in Seq(S)
<1>1. PICK S : s \in Seq(S)
  BY DEF Listed
<1>2. PICK T : t \in Seq(T)
  BY DEF Listed
<1>3. s \in Seq(S \union T) /\ t \in Seq(S \union T)
  BY <1>1, <1>2, SeqMonotonic
<1> QED BY <1>3

\* A list has a length.
LEMMA ListLen ==
  ASSUME NEW s, Listed(s)
  PROVE  /\ Len(s) \in Nat /\ DOMAIN s = 1..Len(s)
         /\ s # <<>> <=> Len(s) > 0
<1>1. PICK S : s \in Seq(S)
  BY DEF Listed
<1> QED BY <1>1, LenProperties, EmptySeq

\* Lists of the same members are the same.
LEMMA ListSame ==
  ASSUME NEW s, NEW t, Listed(s), Listed(t), Len(s) = Len(t),
         \A i \in 1..Len(s) : s[i] = t[i]
  PROVE  s = t
<1>1. PICK S : s \in Seq(S) /\ t \in Seq(S)
  BY Together
<1> QED BY <1>1, SeqEqual

\* A list without its end.
LEMMA ListPart ==
  ASSUME NEW s, Listed(s), NEW k \in 0..Len(s)
  PROVE  /\ Listed(SubSeq(s, 1, k)) /\ Len(SubSeq(s, 1, k)) = k
         /\ \A i \in 1..k : SubSeq(s, 1, k)[i] = s[i]
         /\ \A i \in 0..k : SubSeq(SubSeq(s, 1, k), 1, i) = SubSeq(s, 1, i)
         /\ k = Len(s) => SubSeq(s, 1, k) = s
         /\ k = 0 => SubSeq(s, 1, k) = <<>>
<1>1. PICK S : s \in Seq(S)
  BY DEF Listed
<1>2. Len(s) \in Nat /\ k \in Nat /\ \A i \in 1..Len(s) : s[i] \in S
  BY <1>1, LenProperties
<1>3. \A i \in 0..Len(s) : /\ SubSeq(s, 1, i) \in Seq(S) /\ Len(SubSeq(s, 1, i)) = i
                           /\ \A j \in 1..i : SubSeq(s, 1, i)[j] = s[j]
  <2> TAKE i \in 0..Len(s)
  <2>1. i \in Int /\ 1 \in Int /\ \A j \in 1..i : s[j] \in S
    BY <1>2
  <2>2. /\ SubSeq(s, 1, i) \in Seq(S)
        /\ Len(SubSeq(s, 1, i)) = (IF 1 <= i THEN i - 1 + 1 ELSE 0)
        /\ \A j \in 1..(i - 1 + 1) : SubSeq(s, 1, i)[j] = s[1 + j - 1]
    BY <2>1, SubSeqProperties
  <2>3. i \in Nat /\ i - 1 + 1 = i /\ (1 <= i \/ i = 0)
    BY <1>2
  <2>4. \A j \in 1..i : s[1 + j - 1] = s[j]
    BY <2>3
  <2> QED BY <2>2, <2>3, <2>4
<1>4. \A i \in 0..k : SubSeq(SubSeq(s, 1, k), 1, i) = SubSeq(s, 1, i)
  <2> TAKE i \in 0..k
  <2> DEFINE p == SubSeq(s, 1, k)
  <2>1. p \in Seq(S) /\ Len(p) = k /\ \A j \in 1..k : p[j] = s[j]
    BY <1>3
  <2> HIDE DEF p
  <2>2. i \in Int /\ i \in Nat /\ \A j \in 1..i : p[j] \in S
    BY <1>2, <2>1
  <2>3. /\ SubSeq(p, 1, i) \in Seq(S)
        /\ Len(SubSeq(p, 1, i)) = (IF 1 <= i THEN i - 1 + 1 ELSE 0)
        /\ \A j \in 1..(i - 1 + 1) : SubSeq(p, 1, i)[j] = p[1 + j - 1]
    BY <2>2, SubSeqProperties
  <2>4. i - 1 + 1 = i /\ (1 <= i \/ i = 0) /\ i \in 0..Len(s)
    BY <1>2, <2>2
  <2>5. SubSeq(s, 1, i) \in Seq(S) /\ Len(SubSeq(s, 1, i)) = i
        /\ \A j \in 1..i : SubSeq(s, 1, i)[j] = s[j]
    BY <1>3, <2>4
  <2>6. \A j \in 1..i : p[1 + j - 1] = s[j]
    <3> TAKE j \in 1..i
    <3>1. j \in 1..k /\ 1 + j - 1 = j
      BY <1>2, <2>2
    <3> QED BY <2>1, <3>1
  <2>7. Len(SubSeq(p, 1, i)) = i /\ \A j \in 1..i : SubSeq(p, 1, i)[j] = SubSeq(s, 1, i)[j]
    BY <2>3, <2>4, <2>5, <2>6
  <2>8. SubSeq(p, 1, i) = SubSeq(s, 1, i)
    BY <2>3, <2>5, <2>7, SeqEqual
  <2> QED BY <2>8 DEF p
<1>5. k = Len(s) => SubSeq(s, 1, k) = s
  BY <1>1, SubSeqFull
<1>6. k = 0 => SubSeq(s, 1, k) = <<>>
  BY SubSeqEmpty
<1> QED BY <1>3, <1>4, <1>5, <1>6 DEF Listed

\* A list with one more.
LEMMA ListMore ==
  ASSUME NEW s, Listed(s), NEW e
  PROVE  /\ Listed(Append(s, e)) /\ Len(Append(s, e)) = Len(s) + 1 /\ Append(s, e) # <<>>
         /\ \A i \in 1..Len(s) : Append(s, e)[i] = s[i]
         /\ Append(s, e)[Len(s) + 1] = e
         /\ Last(Append(s, e)) = e /\ Front(Append(s, e)) = s
         /\ \A k \in 0..Len(s) : SubSeq(Append(s, e), 1, k) = SubSeq(s, 1, k)
<1>1. PICK S : s \in Seq(S)
  BY DEF Listed
<1> DEFINE a == Append(s, e)
<1>2. s \in Seq(S \union {e}) /\ e \in S \union {e}
  BY <1>1, SeqMonotonic
<1>3. /\ a \in Seq(S \union {e}) /\ a # <<>> /\ Len(a) = Len(s) + 1
      /\ \A i \in 1..Len(s) : a[i] = s[i]
      /\ a[Len(s) + 1] = e
  BY <1>2, AppendProperties
<1>4. Listed(a) /\ Len(s) \in Nat
  BY <1>3, ListLen DEF Listed
<1> HIDE DEF a
<1>5. \A k \in 0..Len(s) : SubSeq(a, 1, k) = SubSeq(s, 1, k)
  <2> TAKE k \in 0..Len(s)
  <2>1. k \in 0..Len(a)
    BY <1>3, <1>4
  <2>2. Listed(SubSeq(a, 1, k)) /\ Len(SubSeq(a, 1, k)) = k /\ \A i \in 1..k : SubSeq(a, 1, k)[i] = a[i]
    BY <1>4, <2>1, ListPart
  <2>3. Listed(SubSeq(s, 1, k)) /\ Len(SubSeq(s, 1, k)) = k /\ \A i \in 1..k : SubSeq(s, 1, k)[i] = s[i]
    BY ListPart
  <2>4. \A i \in 1..k : i \in 1..Len(s)
    BY <1>4
  <2>5. \A i \in 1..k : SubSeq(a, 1, k)[i] = SubSeq(s, 1, k)[i]
    BY <1>3, <2>2, <2>3, <2>4
  <2> QED BY <2>2, <2>3, <2>5, ListSame
<1>6. SubSeq(a, 1, Len(s)) = s
  <2>1. Len(s) \in 0..Len(s)
    BY <1>4
  <2>2. SubSeq(s, 1, Len(s)) = s
    BY <2>1, ListPart
  <2> QED BY <1>5, <2>1, <2>2
<1>7. Len(a) - 1 = Len(s)
  BY <1>3, <1>4
<1>8. Last(a) = e /\ Front(a) = s
  BY <1>3, <1>6, <1>7 DEF Last, Front
<1> QED BY <1>3, <1>4, <1>5, <1>8 DEF a

\* A list that is not empty has a last member.
LEMMA ListLast ==
  ASSUME NEW s, Listed(s), s # <<>>
  PROVE  /\ Len(s) > 0 /\ Listed(Front(s)) /\ Len(Front(s)) = Len(s) - 1
         /\ Front(s) = SubSeq(s, 1, Len(s) - 1)
         /\ \A i \in 1..(Len(s) - 1) : Front(s)[i] = s[i]
         /\ s[Len(s)] = Last(s) /\ s = Append(Front(s), Last(s))
<1>1. Len(s) \in Nat /\ Len(s) > 0 /\ Len(s) - 1 \in 0..Len(s)
  BY ListLen
<1>2. /\ Listed(Front(s)) /\ Len(Front(s)) = Len(s) - 1
      /\ \A i \in 1..(Len(s) - 1) : Front(s)[i] = s[i]
  BY <1>1, ListPart DEF Front
<1> DEFINE a == Append(Front(s), Last(s))
<1>3. /\ Listed(a) /\ Len(a) = Len(s) - 1 + 1
      /\ \A i \in 1..(Len(s) - 1) : a[i] = Front(s)[i]
      /\ a[Len(s) - 1 + 1] = Last(s)
  BY <1>2, ListMore
<1> HIDE DEF a
<1>4. Len(s) - 1 + 1 = Len(s) /\ \A i \in 1..Len(s) : i \in 1..(Len(s) - 1) \/ i = Len(s)
  BY <1>1
<1>5. \A i \in 1..Len(s) : s[i] = a[i]
  BY <1>2, <1>3, <1>4 DEF Last
<1>6. s = a
  BY <1>3, <1>4, <1>5, ListSame
<1> QED BY <1>1, <1>2, <1>6 DEF a, Last, Front

\* Two lists in a row.
LEMMA ListJoin ==
  ASSUME NEW s, NEW t, Listed(s), Listed(t)
  PROVE  /\ Listed(s \o t) /\ Len(s \o t) = Len(s) + Len(t)
         /\ \A i \in 1..Len(s) : (s \o t)[i] = s[i]
         /\ \A i \in 1..Len(t) : (s \o t)[Len(s) + i] = t[i]
         /\ s = <<>> => s \o t = t
         /\ t = <<>> => s \o t = s
<1>1. PICK S : s \in Seq(S) /\ t \in Seq(S)
  BY Together
<1>2. Len(s) \in Nat /\ Len(t) \in Nat
  BY ListLen
<1>3. /\ s \o t \in Seq(S) /\ Len(s \o t) = Len(s) + Len(t)
      /\ \A i \in 1..(Len(s) + Len(t)) : (s \o t)[i] = IF i <= Len(s) THEN s[i] ELSE t[i - Len(s)]
  BY <1>1, ConcatProperties
<1>4. \A i \in 1..Len(s) : i \in 1..(Len(s) + Len(t)) /\ i <= Len(s)
  BY <1>2
<1>5. \A i \in 1..Len(t) : /\ Len(s) + i \in 1..(Len(s) + Len(t)) /\ ~(Len(s) + i <= Len(s))
                           /\ Len(s) + i - Len(s) = i
  BY <1>2
<1>6. \A i \in 1..Len(s) : (s \o t)[i] = s[i]
  BY <1>3, <1>4
<1>7. \A i \in 1..Len(t) : (s \o t)[Len(s) + i] = t[i]
  BY <1>3, <1>5
<1>8. (s = <<>> => s \o t = t) /\ (t = <<>> => s \o t = s)
  BY <1>1, ConcatEmptySeq
<1> QED BY <1>3, <1>6, <1>7, <1>8 DEF Listed

\* A list that is not empty has a first member.
LEMMA ListFirst ==
  ASSUME NEW s, Listed(s), s # <<>>
  PROVE  /\ Head(s) = s[1] /\ Listed(Tail(s)) /\ Len(Tail(s)) = Len(s) - 1
         /\ \A i \in 1..Len(Tail(s)) : Tail(s)[i] = s[i + 1]
         /\ \A t : Listed(t) => /\ s \o t # <<>> /\ Head(s \o t) = Head(s)
                                /\ Tail(s \o t) = Tail(s) \o t
<1>1. PICK S : s \in Seq(S)
  BY DEF Listed
<1>2. /\ Tail(s) \in Seq(S) /\ Len(Tail(s)) = Len(s) - 1
      /\ \A i \in 1..Len(Tail(s)) : Tail(s)[i] = s[i + 1]
  BY <1>1, HeadTailProperties
<1>3. Len(s) \in Nat /\ Len(s) > 0 /\ Head(s) = s[1] /\ Listed(Tail(s))
  BY <1>1, <1>2, ListLen DEF Listed
<1>4. ASSUME NEW t, Listed(t)
      PROVE  s \o t # <<>> /\ Head(s \o t) = Head(s) /\ Tail(s \o t) = Tail(s) \o t
  <2> DEFINE j == s \o t
             r == Tail(s) \o t
  <2>1. /\ Listed(j) /\ Len(j) = Len(s) + Len(t) /\ Len(t) \in Nat
        /\ \A i \in 1..Len(s) : j[i] = s[i]
        /\ \A i \in 1..Len(t) : j[Len(s) + i] = t[i]
    BY <1>4, ListJoin, ListLen
  <2>2. /\ Listed(r) /\ Len(r) = Len(s) - 1 + Len(t)
        /\ \A i \in 1..(Len(s) - 1) : r[i] = s[i + 1]
        /\ \A i \in 1..Len(t) : r[Len(s) - 1 + i] = t[i]
    BY <1>2, <1>3, <1>4, ListJoin
  <2> HIDE DEF j, r
  <2>3. j # <<>> /\ 1 \in 1..Len(s)
    BY <1>3, <2>1, ListLen
  <2>4. PICK S2 : j \in Seq(S2)
    BY <2>1 DEF Listed
  <2>5. /\ Tail(j) \in Seq(S2) /\ Len(Tail(j)) = Len(j) - 1
        /\ \A i \in 1..Len(Tail(j)) : Tail(j)[i] = j[i + 1]
    BY <2>3, <2>4, HeadTailProperties
  <2>6. Head(j) = j[1] /\ Listed(Tail(j))
    BY <2>3, <2>4, <2>5 DEF Listed
  <2>7. \A i \in 1..(Len(s) - 1 + Len(t)) :
           \/ i \in 1..(Len(s) - 1) /\ i + 1 \in 1..Len(s)
           \/ /\ i - (Len(s) - 1) \in 1..Len(t) /\ Len(s) - 1 + (i - (Len(s) - 1)) = i
              /\ Len(s) + (i - (Len(s) - 1)) = i + 1
    BY <1>3, <2>1
  <2>8. Len(Tail(j)) = Len(s) - 1 + Len(t)
    BY <1>3, <2>1, <2>5
  <2>9. \A i \in 1..Len(Tail(j)) : Tail(j)[i] = r[i]
    <3> TAKE i \in 1..Len(Tail(j))
    <3>1. Tail(j)[i] = j[i + 1]
      BY <2>5
    <3>2. CASE i \in 1..(Len(s) - 1) /\ i + 1 \in 1..Len(s)
      BY <2>1, <2>2, <3>1, <3>2
    <3>3. CASE /\ i - (Len(s) - 1) \in 1..Len(t) /\ Len(s) - 1 + (i - (Len(s) - 1)) = i
               /\ Len(s) + (i - (Len(s) - 1)) = i + 1
      BY <2>1, <2>2, <3>1, <3>3
    <3> QED BY <2>7, <2>8, <3>2, <3>3
  <2>10. Tail(j) = r
    BY <2>2, <2>6, <2>8, <2>9, ListSame
  <2> QED BY <1>3, <2>1, <2>3, <2>6, <2>10 DEF j, r
<1> QED BY <1>2, <1>3, <1>4

-----------------------------------------------------------------------------
(* Evaluation. One state leads to another when the machine moves there by   *)
(* itself, past no event.                                                    *)
Moves(b, S) == \A t \in S : ~AtEvent(t) => Move(b, t) \in S
Star(b, g, h) == \A S : g \in S /\ Moves(b, S) => h \in S

\* A state leads to itself.
LEMMA StarHere ==
  ASSUME NEW b, NEW g
  PROVE  Star(b, g, g)
BY DEF Star

\* A state that is not an event leads on to the next.
LEMMA StarOn ==
  ASSUME NEW b, NEW g, NEW h, Star(b, g, h), ~AtEvent(h)
  PROVE  Star(b, g, Move(b, h))
<1> SUFFICES ASSUME NEW S, g \in S, Moves(b, S) PROVE Move(b, h) \in S
  BY DEF Star
<1>1. h \in S
  BY DEF Star
<1> QED BY <1>1 DEF Moves

\* What a state leads to leads further.
LEMMA StarThen ==
  ASSUME NEW b, NEW g, NEW h, NEW k, Star(b, g, h), Star(b, h, k)
  PROVE  Star(b, g, k)
BY DEF Star

\* A move is on the way to the event it leads to.
LEMMA StarFirst ==
  ASSUME NEW b, NEW g, NEW h, Star(b, g, h), ~AtEvent(g), AtEvent(h)
  PROVE  Star(b, Move(b, g), h)
<1> SUFFICES ASSUME NEW S, Move(b, g) \in S, Moves(b, S) PROVE h \in S
  BY DEF Star
<1>1. g \in S \union {g} /\ Moves(b, S \union {g})
  BY DEF Moves
<1>2. h \in S \union {g}
  BY <1>1 DEF Star
<1> QED BY <1>2

\* An event leads nowhere by itself.
LEMMA StarEvent ==
  ASSUME NEW b, NEW g, NEW h, Star(b, g, h), AtEvent(g)
  PROVE  h = g
<1>1. g \in {g} /\ Moves(b, {g})
  BY DEF Moves
<1>2. h \in {g}
  BY <1>1 DEF Star
<1> QED BY <1>2

\* What the machine does has these fields.
LEMMA Fields ==
  ASSUME NEW do, NEW at, NEW vals, NEW turn, NEW pending
  PROVE  LET s == Doing(do, at, vals, turn, pending)
         IN  /\ s.do = do /\ s.at = at /\ s.vals = vals /\ s.turn = turn
             /\ s.pending = pending
             /\ AtEvent(s) <=> do \in {"leaf", "op", "next", "done"}
BY DEF Doing, AtEvent

Frames == [at : Nat, i : Nat, vals : Seq(Values), turn : Nat]

\* A frame has these fields.
LEMMA FrameFields ==
  ASSUME NEW at, NEW i, NEW vals, NEW turn
  PROVE  LET fr == Frame(at, i, vals, turn)
         IN  /\ fr.at = at /\ fr.i = i /\ fr.vals = vals /\ fr.turn = turn
             /\ at \in Nat /\ i \in Nat /\ vals \in Seq(Values) /\ turn \in Nat => fr \in Frames
BY DEF Frame, Frames

\* Starting an expression.
LEMMA EvalLit ==
  ASSUME NEW b, NEW n, NEW stack, b[n].kind = "lit"
  PROVE  ~AtEvent(Eval(n, stack)) /\ Move(b, Eval(n, stack)) = Yield(Unit, stack)
BY Fields DEF Eval, Move, Begin

\* A leaf is run.
LEMMA EvalLeaf ==
  ASSUME NEW b, NEW n, NEW stack, b[n].kind # "lit", ~b[n].rec
  PROVE  ~AtEvent(Eval(n, stack)) /\ Move(b, Eval(n, stack)) = Doing("leaf", n, <<>>, 0, stack)
BY Fields DEF Eval, Move, Begin

\* An expression without operands is performed at once.
LEMMA EvalBare ==
  ASSUME NEW b, NEW n, NEW stack, b[n].kind # "lit", b[n].rec, b[n].kids = <<>>
  PROVE  ~AtEvent(Eval(n, stack)) /\ Move(b, Eval(n, stack)) = Doing("op", n, <<>>, 0, stack)
BY Fields DEF Eval, Move, Begin

\* Any other begins with its first kid.
LEMMA EvalFirst ==
  ASSUME NEW b, NEW n, NEW stack, b[n].kind # "lit", b[n].rec, b[n].kids # <<>>
  PROVE  /\ ~AtEvent(Eval(n, stack))
         /\ Move(b, Eval(n, stack)) = Eval(b[n].kids[1], Append(stack, Frame(n, 1, <<>>, 0)))
BY Fields DEF Eval, Move, Begin

\* A value, at the end and inside.
LEMMA YieldEnd ==
  ASSUME NEW b, NEW v
  PROVE  ~AtEvent(Yield(v, <<>>)) /\ Move(b, Yield(v, <<>>)) = End(v)
<1>1. <<v>>[1] = v
  OBVIOUS
<1> QED BY <1>1, Fields DEF Yield, Move

\* A value reaches the expression that waits for it.
LEMMA YieldIn ==
  ASSUME NEW b, NEW v, NEW stack, Listed(stack), NEW fr
  PROVE  LET s == Yield(v, Append(stack, fr))
             t == b[fr.at]
             next == Following(t, fr.i, v)
         IN  /\ ~AtEvent(s)
             /\ Move(b, s) =
                  IF t.kind \in Strict THEN Operand(t, fr, v, stack)
                  ELSE IF t.kind = "return" THEN End(v)
                  ELSE IF t.kind = "break" THEN BreakLoop(Append(stack, fr), t.loop, v)
                  ELSE IF t.kind \in Iterating /\ fr.i = 1
                  THEN Doing("op", fr.at, <<v>>, 0, Append(stack, fr))
                  ELSE IF t.kind = "loop" \/ (t.kind \in Looping /\ fr.i = 2)
                  THEN NextTurn(b, Append(stack, fr), fr.at)
                  ELSE IF next # 0
                  THEN Eval(t.kids[next], Append(stack, Frame(fr.at, next, <<>>, fr.turn)))
                  ELSE Yield(Comes(t, fr.i, v), stack)
<1> DEFINE p == Append(stack, fr)
           s == Yield(v, p)
<1>1. /\ p # <<>> /\ p[Len(p)] = fr /\ SubSeq(p, 1, Len(p) - 1) = stack
  BY ListMore DEF Last, Front
<1>2. s.do = "value" /\ s.pending = p /\ s.vals = <<v>> /\ ~AtEvent(s)
  BY DEF Yield, Doing, AtEvent
<1>3. s.vals[1] = v
  BY <1>2
<1> HIDE DEF s, p
<1>4. Move(b, s) = Receive(b, s)
  BY <1>1, <1>2 DEF Move
<1>5. s.pending[Len(s.pending)] = fr /\ SubSeq(s.pending, 1, Len(s.pending) - 1) = stack
  BY <1>1, <1>2
<1>6. Receive(b, s) =
         LET t == b[fr.at]
             next == Following(t, fr.i, v)
         IN  IF t.kind \in Strict THEN Operand(t, fr, v, stack)
             ELSE IF t.kind = "return" THEN End(v)
             ELSE IF t.kind = "break" THEN BreakLoop(p, t.loop, v)
             ELSE IF t.kind \in Iterating /\ fr.i = 1 THEN Doing("op", fr.at, <<v>>, 0, p)
             ELSE IF t.kind = "loop" \/ (t.kind \in Looping /\ fr.i = 2) THEN NextTurn(b, p, fr.at)
             ELSE IF next # 0
             THEN Eval(t.kids[next], Append(stack, Frame(fr.at, next, <<>>, fr.turn)))
             ELSE Yield(Comes(t, fr.i, v), stack)
  BY <1>2, <1>3, <1>5 DEF Receive
<1> QED BY <1>2, <1>4, <1>6 DEF s, p

\* A value that an expression of the other kinds takes.
LEMMA YieldNext ==
  ASSUME NEW b, NEW v, NEW stack, Listed(stack), NEW fr,
         b[fr.at].kind \notin Strict \union {"return", "break", "loop"},
         b[fr.at].kind \in Looping => fr.i # 2 /\ b[fr.at].kind \notin Iterating
  PROVE  LET next == Following(b[fr.at], fr.i, v)
         IN  /\ ~AtEvent(Yield(v, Append(stack, fr)))
             /\ Move(b, Yield(v, Append(stack, fr))) =
                  IF next # 0
                  THEN Eval(b[fr.at].kids[next], Append(stack, Frame(fr.at, next, <<>>, fr.turn)))
                  ELSE Yield(Comes(b[fr.at], fr.i, v), stack)
<1> DEFINE t == b[fr.at]
           next == Following(t, fr.i, v)
           s == Yield(v, Append(stack, fr))
<1>1. /\ ~AtEvent(s)
      /\ Move(b, s) =
            IF t.kind \in Strict THEN Operand(t, fr, v, stack)
            ELSE IF t.kind = "return" THEN End(v)
            ELSE IF t.kind = "break" THEN BreakLoop(Append(stack, fr), t.loop, v)
            ELSE IF t.kind \in Iterating /\ fr.i = 1
            THEN Doing("op", fr.at, <<v>>, 0, Append(stack, fr))
            ELSE IF t.kind = "loop" \/ (t.kind \in Looping /\ fr.i = 2)
            THEN NextTurn(b, Append(stack, fr), fr.at)
            ELSE IF next # 0
            THEN Eval(t.kids[next], Append(stack, Frame(fr.at, next, <<>>, fr.turn)))
            ELSE Yield(Comes(t, fr.i, v), stack)
  BY YieldIn
<1>2. t.kind \notin Strict /\ t.kind # "return" /\ t.kind # "break" /\ t.kind # "loop"
      /\ ~(t.kind \in Looping /\ fr.i = 2) /\ t.kind \notin Iterating
  BY DEF Looping
<1> HIDE DEF t, next, s
<1>3. ~AtEvent(s) /\ Move(b, s) =
         IF next # 0 THEN Eval(t.kids[next], Append(stack, Frame(fr.at, next, <<>>, fr.turn)))
         ELSE Yield(Comes(t, fr.i, v), stack)
  BY <1>1, <1>2
<1> QED BY <1>3 DEF t, next, s

-----------------------------------------------------------------------------
(* What waits. The continuations stand for the expressions under way.       *)

\* Code of constants and pure operators, that leaves the values `vals`.
Pushes(b, item, vals, after) ==
    /\ ItemOK(item) /\ item.run \in {"push", "pure"}
    /\ item.run = "push" => after = Append(vals, item.v)
    /\ item.run = "pure" => /\ Arity(b[item.at]) \in 0..Len(vals)
                            /\ after = Append(Left(vals, Arity(b[item.at])), Unit)
Silent(b, code, vals) ==
    /\ Listed(code)
    /\ \E V \in [1..(Len(code) + 1) -> Seq(Values)] :
          /\ V[1] = <<>> /\ V[Len(code) + 1] = vals
          /\ \A j \in 1..Len(code) : Pushes(b, code[j], V[j], V[j + 1])

\* The expression the first `k` frames of a stack wait for.
Wanted(b, stack, k) == IF k = 0 THEN Len(b) ELSE b[stack[k].at].kids[stack[k].i]
Awaited(b, stack) == Wanted(b, stack, Len(stack))

\* No continuation waits for a kid that gives its expression its value.
Clear(t, i) == \/ t.kind = "block" /\ i = Len(t.kids)
               \/ t.kind = "if" /\ i > 1
               \/ t.kind \in {"and", "or"} /\ i = 2
OneCont(b, fr, c) ==
    LET t == b[fr.at] IN
    /\ c.at = fr.at /\ c.i \in Nat /\ (c.f = "operand" \/ c.acc = <<>>)
    /\ \/ /\ c.f = "operand" /\ t.kind \in {"op", "pure", "rec"} /\ c.i = fr.i
          /\ Silent(b, c.acc, fr.vals) /\ Len(fr.vals) = fr.i - 1 /\ b[t.kids[fr.i]].rec
       \/ c.f = "cond" /\ t.kind = "if" /\ fr.i = 1
       \/ c.f = "left" /\ t.kind \in {"and", "or"} /\ fr.i = 1
       \/ c.f \in {"return", "try", "assign", "break"} /\ t.kind = c.f /\ fr.vals = <<>>
       \/ c.f = "iter" /\ t.kind \in Iterating /\ fr.i = 1 /\ fr.turn = 0
       \/ c.f = "stmt" /\ t.kind \in {"block", "stmts"} /\ c.i = fr.i /\ ~IsValue(t, fr.i)

\* An iterator has moved on when its item is out, a range has not.
Turns(b, L, fr) ==
    /\ L.acc = <<>> /\ L.i \in Nat
    /\ b[fr.at].kind \in Iterating => L.i = fr.turn + (IF b[fr.at].kind = "for" THEN 1 ELSE 0)
LoopConts(b, fr, L, c) ==
    LET t == b[fr.at] IN
    /\ t.kind \in Looping
    /\ L.f = "loop" /\ L.at = fr.at /\ c.at = fr.at /\ Turns(b, L, fr)
    /\ c.acc = <<>> /\ c.i \in Nat
    /\ \/ c.f = "next" /\ fr.i = IF t.kind = "loop" THEN 1 ELSE 2
       \/ c.f = "while" /\ t.kind = "while" /\ fr.i = 1

\* The continuations of one frame, those of `cs` after `lo` up to `hi`.
Deal(b, fr, cs, lo, hi) ==
    \/ hi = lo /\ Clear(b[fr.at], fr.i)
    \/ hi = lo + 1 /\ OneCont(b, fr, cs[hi])
    \/ hi = lo + 2 /\ LoopConts(b, fr, cs[lo + 1], cs[hi])
Deeper(b, stack, k) ==
    /\ stack[k].at \in DOMAIN b /\ stack[k].at = Wanted(b, stack, k - 1)
    /\ b[stack[k].at].rec /\ stack[k].i \in DOMAIN b[stack[k].at].kids

\* The innermost loop around what the first `k` frames wait for has the last
\* loop continuation of theirs.
LoopAround(b, cs, stack, e, j, k) ==
    LET l == stack[j].at IN
    /\ b[l].kind \in Looping /\ e[j - 1] < e[k]
    /\ cs[e[j - 1] + 1].f = "loop" /\ cs[e[j - 1] + 1].at = l
    /\ Turns(b, cs[e[j - 1] + 1], stack[j])
    /\ \A m \in 1..e[k] : m > e[j - 1] + 1 => cs[m].f # "loop"
InLoop(b, cs, stack, e, k) ==
    LET n == Wanted(b, stack, k)
        l == b[n].loop IN
    /\ \A m \in 1..e[k] : cs[m].f = "loop" => cs[m].at \in Nat /\ cs[m].at > n
    /\ l = 0 => \A m \in 1..e[k] : cs[m].f # "loop"
    /\ l # 0 => \E j \in 1..k : stack[j].at = l /\ LoopAround(b, cs, stack, e, j, k)

Waits(b, cs, stack, e) ==
    /\ Listed(cs) /\ stack \in Seq(Frames)
    /\ e \in [0..Len(stack) -> 0..Len(cs)] /\ e[0] = 0 /\ e[Len(stack)] = Len(cs)
    /\ \A j, k \in 0..Len(stack) : j <= k => e[j] <= e[k]
    /\ \A k \in 1..Len(stack) :
          Deeper(b, stack, k) /\ Deal(b, stack[k], cs, e[k - 1], e[k])
    /\ \A j, k \in 1..Len(stack) : j < k => stack[k].at < stack[j].at
    /\ \A k \in 0..Len(stack) : InLoop(b, cs, stack, e, k)
Standing(b, cs, stack) == \E e : Waits(b, cs, stack, e)

\* The loop `break` and `continue` mean where `stack` is under way, 0 for none,
\* and its continuation with those before it.
Known(b, env, stack, l) ==
    LET j == LoopAt(stack, l) IN
    /\ l = 0 => env = <<>>
    /\ l # 0 => /\ Listed(env) /\ env # <<>> /\ Last(env).f = "loop" /\ Last(env).at = l
                /\ l \in DOMAIN b /\ b[l].rec /\ b[l].kind \in Looping
                /\ j \in DOMAIN stack /\ stack[j].at = l /\ Turns(b, Last(env), stack[j])
                /\ stack[j].turn \in Nat
                /\ \A m \in DOMAIN stack : stack[m].at = l => m = j
                /\ Standing(b, Front(env), SubSeq(stack, 1, j - 1))
                /\ Awaited(b, SubSeq(stack, 1, j - 1)) = l

\* An expression of a body.
LEMMA Inside ==
  ASSUME NEW b, WellFormed(b), NEW n \in DOMAIN b
  PROVE  /\ DOMAIN b = 1..Len(b) /\ Len(b) \in DOMAIN b /\ n \in Nat /\ n > 0
         /\ Listed(b[n].kids) /\ DOMAIN b[n].kids = 1..Len(b[n].kids)
         /\ b[n].loop \in Nat /\ b[n].places \in Nat /\ b[n].kind \in Kinds
         /\ \A i \in DOMAIN b[n].kids :
               /\ b[n].kids[i] \in DOMAIN b /\ b[n].kids[i] < n /\ b[n].kids[i] \in Nat
               /\ b[b[n].kids[i]].loop = LoopIn(b, n, i)
<1>1. b \in Seq(Expressions) /\ b # <<>>
  BY DEF WellFormed
<1>2. DOMAIN b = 1..Len(b) /\ Len(b) \in Nat /\ Len(b) > 0 /\ b[n] \in Expressions
  BY <1>1, LenProperties, EmptySeq
<1>3. /\ b[n].kids \in Seq(Nat) /\ b[n].loop \in Nat /\ b[n].places \in Nat
      /\ b[n].kind \in Kinds
  BY <1>2 DEF Expressions
<1>4. Listed(b[n].kids) /\ DOMAIN b[n].kids = 1..Len(b[n].kids)
  BY <1>3, LenProperties DEF Listed
<1>5. \A i \in DOMAIN b[n].kids : b[n].kids[i] \in 1..(n - 1) /\ b[b[n].kids[i]].loop = LoopIn(b, n, i)
  BY DEF WellFormed
<1>6. \A m \in 1..(n - 1) : m \in DOMAIN b /\ m < n /\ m \in Nat
  BY <1>2
<1> QED BY <1>2, <1>3, <1>4, <1>5, <1>6

\* What is said of a frame depends on it, on those below and on their
\* continuations.
LEMMA Alike ==
  ASSUME NEW b, NEW cs, NEW stack, NEW e, Waits(b, cs, stack, e),
         NEW cs2, NEW stack2, NEW e2, NEW k \in 0..Len(stack),
         \A j \in 0..k : e2[j] = e[j],
         \A j \in 1..k : stack2[j] = stack[j],
         \A m \in 1..e[k] : cs2[m] = cs[m]
  PROVE  /\ InLoop(b, cs2, stack2, e2, k)
         /\ k > 0 => Deeper(b, stack2, k) /\ Deal(b, stack[k], cs2, e[k - 1], e[k])
<1>1. Len(stack) \in Nat /\ Len(cs) \in Nat
  BY ListLen DEF Waits, Listed
<1>2. k \in Nat /\ \A j \in 0..k : j \in 0..Len(stack) /\ e[j] \in 0..Len(cs) /\ e[j] \in Nat /\ e[j] <= e[k]
  <2>1. k \in Nat /\ \A j \in 0..k : j \in 0..Len(stack) /\ j <= k
    BY <1>1
  <2>2. \A j \in 0..k : e[j] \in 0..Len(cs) /\ e[j] <= e[k]
    BY <2>1 DEF Waits
  <2>3. \A j \in 0..k : e[j] \in Nat
    BY <1>1, <2>2
  <2> QED BY <2>1, <2>2, <2>3
<1>3. \A m \in 0..k : Wanted(b, stack2, m) = Wanted(b, stack, m)
  <2> TAKE m \in 0..k
  <2>1. m = 0 \/ m \in 1..k
    BY <1>2
  <2> QED BY <2>1 DEF Wanted
<1>4. k \in 0..k /\ e2[k] = e[k]
  BY <1>2
<1>5. InLoop(b, cs2, stack2, e2, k)
  <2> DEFINE n == Wanted(b, stack, k)
             l == b[n].loop
  <2>1. InLoop(b, cs, stack, e, k)
    BY DEF Waits
  <2>2. \A m \in 1..e2[k] : cs2[m].f = "loop" => cs2[m].at \in Nat /\ cs2[m].at > n
    BY <1>4, <2>1 DEF InLoop
  <2>3. l = 0 => \A m \in 1..e2[k] : cs2[m].f # "loop"
    BY <1>4, <2>1 DEF InLoop
  <2>4. ASSUME l # 0 PROVE \E j \in 1..k : stack2[j].at = l /\ LoopAround(b, cs2, stack2, e2, j, k)
    <3>1. PICK j \in 1..k : stack[j].at = l /\ LoopAround(b, cs, stack, e, j, k)
      BY <2>1, <2>4 DEF InLoop
    <3>2. j \in Nat /\ j - 1 \in 0..k
      BY <1>2
    <3>3. e2[j - 1] = e[j - 1] /\ e[j - 1] \in Nat /\ e[k] \in Nat /\ stack2[j] = stack[j]
      BY <1>2, <1>4, <3>2
    <3>4. e[j - 1] < e[k]
      BY <3>1 DEF LoopAround
    <3>5. e[j - 1] + 1 \in 1..e[k]
      BY <3>3, <3>4
    <3>6. cs2[e[j - 1] + 1] = cs[e[j - 1] + 1]
      BY <3>5
    <3>7. LoopAround(b, cs2, stack2, e2, j, k)
      BY <1>4, <3>1, <3>3, <3>6 DEF LoopAround
    <3> QED BY <3>1, <3>3, <3>7
  <2>5. Wanted(b, stack2, k) = n
    BY <1>3, <1>4
  <2> QED BY <2>2, <2>3, <2>4, <2>5 DEF InLoop
<1>6. ASSUME k > 0
      PROVE  Deeper(b, stack2, k) /\ Deal(b, stack[k], cs2, e[k - 1], e[k])
  <2>1. k \in 1..Len(stack) /\ k \in 1..k /\ k - 1 \in 0..k
    BY <1>1, <1>2, <1>6
  <2>2. Deeper(b, stack, k) /\ Deal(b, stack[k], cs, e[k - 1], e[k])
    BY <2>1 DEF Waits
  <2>3. stack2[k] = stack[k] /\ Wanted(b, stack2, k - 1) = Wanted(b, stack, k - 1)
    BY <1>3, <2>1
  <2>4. e2[k - 1] = e[k - 1] /\ e[k - 1] \in Nat /\ e[k] \in Nat
    BY <1>2, <1>4, <2>1
  <2>5. e[k] # e[k - 1] /\ e[k] \in {e[k - 1] + 1, e[k - 1] + 2} =>
           cs2[e[k]] = cs[e[k]] /\ cs2[e[k - 1] + 1] = cs[e[k - 1] + 1]
    <3> SUFFICES ASSUME e[k] \in {e[k - 1] + 1, e[k - 1] + 2}
                 PROVE  cs2[e[k]] = cs[e[k]] /\ cs2[e[k - 1] + 1] = cs[e[k - 1] + 1]
      OBVIOUS
    <3>1. e[k] \in 1..e[k] /\ e[k - 1] + 1 \in 1..e[k]
      BY <2>4
    <3> QED BY <3>1
  <2>6. Deeper(b, stack2, k)
    BY <2>2, <2>3 DEF Deeper
  <2>7. Deal(b, stack[k], cs2, e[k - 1], e[k])
    <3>1. CASE e[k] = e[k - 1] /\ Clear(b[stack[k].at], stack[k].i)
      BY <3>1 DEF Deal
    <3>2. CASE e[k] = e[k - 1] + 1 /\ OneCont(b, stack[k], cs[e[k]])
      <4>1. e[k] # e[k - 1]
        BY <2>4, <3>2
      <4> QED BY <2>5, <3>2, <4>1 DEF Deal
    <3>3. CASE e[k] = e[k - 1] + 2 /\ LoopConts(b, stack[k], cs[e[k - 1] + 1], cs[e[k]])
      <4>1. e[k] # e[k - 1]
        BY <2>4, <3>3
      <4> QED BY <2>5, <3>3, <4>1 DEF Deal
    <3> QED BY <2>2, <3>1, <3>2, <3>3 DEF Deal
  <2> QED BY <2>6, <2>7
<1> QED BY <1>5, <1>6

\* The numbers of what waits.
LEMMA WaitsTypes ==
  ASSUME NEW b, NEW cs, NEW stack, NEW e, Waits(b, cs, stack, e)
  PROVE  /\ Listed(cs) /\ Len(cs) \in Nat /\ Listed(stack) /\ Len(stack) \in Nat
         /\ DOMAIN stack = 1..Len(stack) /\ DOMAIN cs = 1..Len(cs)
         /\ \A j \in 1..Len(stack) : stack[j] \in Frames /\ stack[j].at \in Nat /\ stack[j].i \in Nat
         /\ \A j \in 0..Len(stack) : e[j] \in Nat /\ e[j] <= Len(cs) /\ e[j] \in 0..Len(cs)
         /\ e[0] = 0 /\ e[Len(stack)] = Len(cs)
<1>1. Listed(cs) /\ stack \in Seq(Frames) /\ e \in [0..Len(stack) -> 0..Len(cs)]
      /\ e[0] = 0 /\ e[Len(stack)] = Len(cs)
  BY DEF Waits
<1>2. Len(cs) \in Nat /\ DOMAIN cs = 1..Len(cs)
  BY <1>1, ListLen
<1>3. Listed(stack) /\ Len(stack) \in Nat /\ DOMAIN stack = 1..Len(stack)
      /\ \A j \in 1..Len(stack) : stack[j] \in Frames
  BY <1>1, LenProperties DEF Listed
<1>4. \A j \in 1..Len(stack) : stack[j].at \in Nat /\ stack[j].i \in Nat
  BY <1>3 DEF Frames
<1>5. \A j \in 0..Len(stack) : e[j] \in 0..Len(cs)
  BY <1>1
<1>6. \A m \in 0..Len(cs) : m \in Nat /\ m <= Len(cs)
  BY <1>2
<1> QED BY <1>1, <1>2, <1>3, <1>4, <1>5, <1>6

\* The first frames stand on their own.
LEMMA StandingPart ==
  ASSUME NEW b, NEW cs, NEW stack, NEW e, Waits(b, cs, stack, e), NEW k \in 0..Len(stack)
  PROVE  /\ Waits(b, SubSeq(cs, 1, e[k]), SubSeq(stack, 1, k), [j \in 0..k |-> e[j]])
         /\ Awaited(b, SubSeq(stack, 1, k)) = Wanted(b, stack, k)
<1> DEFINE cs2 == SubSeq(cs, 1, e[k])
           stack2 == SubSeq(stack, 1, k)
           e2 == [j \in 0..k |-> e[j]]
<1>1. /\ Listed(cs) /\ Len(cs) \in Nat /\ Listed(stack) /\ Len(stack) \in Nat
      /\ \A j \in 0..Len(stack) : e[j] \in Nat /\ e[j] \in 0..Len(cs)
      /\ e[0] = 0
  BY WaitsTypes
<1>2. k \in Nat /\ e[k] \in 0..Len(cs) /\ e[k] \in Nat /\ \A j \in 0..k : j \in 0..Len(stack)
  BY <1>1
<1>3. Listed(cs2) /\ Len(cs2) = e[k] /\ \A m \in 1..e[k] : cs2[m] = cs[m]
  BY <1>1, <1>2, ListPart
<1>4. Listed(stack2) /\ Len(stack2) = k /\ \A j \in 1..k : stack2[j] = stack[j]
  BY <1>1, ListPart
<1>5. stack2 \in Seq(Frames)
  <2>1. \A j \in 1..k : stack[j] \in Frames
    BY <1>1, <1>2, WaitsTypes
  <2> QED BY <1>2, <2>1, SubSeqProperties
<1>6. /\ \A j \in 0..k : e2[j] = e[j]
      /\ e2 \in [0..k -> 0..e[k]]
  <2>1. \A j \in 0..k : e[j] \in 0..e[k]
    <3> TAKE j \in 0..k
    <3>1. j \in 0..Len(stack) /\ k \in 0..Len(stack) /\ j <= k
      BY <1>1, <1>2
    <3>2. e[j] <= e[k]
      BY <3>1 DEF Waits
    <3> QED BY <1>1, <1>2, <3>1, <3>2
  <2> QED BY <2>1
<1> HIDE DEF cs2, stack2, e2
<1>7. \A j \in 0..k : /\ \A i \in 0..j : e2[i] = e[i]
                      /\ \A i \in 1..j : stack2[i] = stack[i]
                      /\ \A m \in 1..e[j] : cs2[m] = cs[m]
  <2> TAKE j \in 0..k
  <2>1. (\A i \in 0..j : i \in 0..k) /\ (\A i \in 1..j : i \in 1..k) /\ j \in 0..Len(stack) /\ j <= k
    BY <1>1, <1>2
  <2>2. e[j] <= e[k]
    BY <2>1 DEF Waits
  <2>3. \A m \in 1..e[j] : m \in 1..e[k]
    BY <1>1, <1>2, <2>1, <2>2
  <2> QED BY <1>3, <1>4, <1>6, <2>1, <2>3
<1>8. ASSUME NEW j \in 0..k
      PROVE  /\ InLoop(b, cs2, stack2, e2, j)
             /\ j > 0 => Deeper(b, stack2, j) /\ Deal(b, stack2[j], cs2, e2[j - 1], e2[j])
  <2>1. j \in 0..Len(stack)
    BY <1>2
  <2>2. /\ \A i \in 0..j : e2[i] = e[i]
        /\ \A i \in 1..j : stack2[i] = stack[i]
        /\ \A m \in 1..e[j] : cs2[m] = cs[m]
    BY <1>7
  <2>3. InLoop(b, cs2, stack2, e2, j)
    BY <2>1, <2>2, Alike
  <2>4. j > 0 => Deeper(b, stack2, j)
    BY <2>1, <2>2, Alike
  <2>5. j > 0 => Deal(b, stack[j], cs2, e[j - 1], e[j])
    BY <2>1, <2>2, Alike
  <2>6. j > 0 => j - 1 \in 0..j /\ j \in 0..j /\ j \in 1..j
    BY <1>2
  <2> QED BY <2>2, <2>3, <2>4, <2>5, <2>6
<1>9. 0 \in 0..k /\ k \in 0..k
  BY <1>2
<1>10. \A i, j \in 0..k : i <= j => e2[i] <= e2[j]
  <2>1. \A i, j \in 0..k : i <= j => e[i] <= e[j]
    BY <1>2 DEF Waits
  <2> QED BY <1>6, <2>1
<1>11. \A i, j \in 1..k : i < j => stack2[j].at < stack2[i].at
  <2>1. \A i \in 1..k : i \in 1..Len(stack)
    BY <1>1, <1>2
  <2>2. \A i, j \in 1..Len(stack) : i < j => stack[j].at < stack[i].at
    BY DEF Waits
  <2> QED BY <1>4, <2>1, <2>2
<1>12. \A j \in 1..k : Deeper(b, stack2, j) /\ Deal(b, stack2[j], cs2, e2[j - 1], e2[j])
  <2>1. \A j \in 1..k : j \in 0..k /\ j > 0
    BY <1>2
  <2> QED BY <1>8, <2>1
<1>13. Waits(b, cs2, stack2, e2)
  BY <1>1, <1>3, <1>4, <1>5, <1>6, <1>8, <1>9, <1>10, <1>11, <1>12 DEF Waits
<1>14. Awaited(b, stack2) = Wanted(b, stack, k)
  <2>1. k = 0 \/ k \in 1..k
    BY <1>2
  <2> QED BY <1>4, <2>1 DEF Awaited, Wanted
<1> QED BY <1>13, <1>14 DEF cs2, stack2, e2

\* One more frame waits, with its continuations.
LEMMA StandingMore ==
  ASSUME NEW b, WellFormed(b), NEW cs, NEW stack, NEW e, Waits(b, cs, stack, e),
         NEW fr \in Frames, NEW cs2, Listed(cs2), Len(cs) <= Len(cs2),
         \A m \in 1..Len(cs) : cs2[m] = cs[m],
         fr.at = Awaited(b, stack), fr.at \in DOMAIN b, b[fr.at].rec, fr.i \in DOMAIN b[fr.at].kids,
         Deal(b, fr, cs2, Len(cs), Len(cs2)),
         \/ /\ LoopIn(b, fr.at, fr.i) = b[fr.at].loop
            /\ \A m \in 1..Len(cs2) : m > Len(cs) => cs2[m].f # "loop"
         \/ /\ LoopIn(b, fr.at, fr.i) = fr.at
            /\ Len(cs2) = Len(cs) + 2 /\ LoopConts(b, fr, cs2[Len(cs) + 1], cs2[Len(cs2)])
  PROVE  Standing(b, cs2, Append(stack, fr))
<1> DEFINE N == Len(stack)
           C == Len(cs)
           stack2 == Append(stack, fr)
           e2 == [j \in 0..(N + 1) |-> IF j <= N THEN e[j] ELSE Len(cs2)]
           n == fr.at
           kid == b[n].kids[fr.i]
<1>1. /\ Listed(cs) /\ C \in Nat /\ Listed(stack) /\ N \in Nat
      /\ \A j \in 1..N : stack[j] \in Frames /\ stack[j].at \in Nat /\ stack[j].i \in Nat
      /\ \A j \in 0..N : e[j] \in Nat /\ e[j] \in 0..C /\ e[j] <= C
      /\ e[0] = 0 /\ e[N] = C
  BY WaitsTypes
<1>2. Len(cs2) \in Nat /\ C <= Len(cs2)
  BY ListLen
<1>3. Listed(stack2) /\ Len(stack2) = N + 1 /\ stack2[N + 1] = fr /\ \A j \in 1..N : stack2[j] = stack[j]
  BY <1>1, ListMore
<1>4. stack2 \in Seq(Frames)
  BY AppendProperties DEF Waits
<1>5. (\A j \in 0..N : e2[j] = e[j]) /\ e2[N + 1] = Len(cs2)
  BY <1>1
<1>6. e2 \in [0..(N + 1) -> 0..Len(cs2)]
  <2>1. \A j \in 0..(N + 1) : (IF j <= N THEN e[j] ELSE Len(cs2)) \in 0..Len(cs2)
    <3> TAKE j \in 0..(N + 1)
    <3>1. CASE j \in 0..N
      BY <1>1, <1>2, <3>1
    <3>2. CASE j = N + 1
      BY <1>1, <1>2, <3>2
    <3> QED BY <1>1, <3>1, <3>2
  <2> QED BY <2>1
<1> HIDE DEF stack2, e2
<1>7. \A j \in 0..N : /\ \A i \in 0..j : e2[i] = e[i]
                      /\ \A i \in 1..j : stack2[i] = stack[i]
                      /\ \A m \in 1..e[j] : cs2[m] = cs[m]
  <2> TAKE j \in 0..N
  <2>1. (\A i \in 0..j : i \in 0..N) /\ (\A i \in 1..j : i \in 1..N)
    BY <1>1
  <2>2. \A m \in 1..e[j] : m \in 1..C
    BY <1>1
  <2> QED BY <1>3, <1>5, <2>1, <2>2
<1>8. \A j \in 0..N :
         /\ InLoop(b, cs2, stack2, e2, j)
         /\ j > 0 => Deeper(b, stack2, j) /\ Deal(b, stack2[j], cs2, e2[j - 1], e2[j])
  <2> TAKE j \in 0..N
  <2>1. /\ \A i \in 0..j : e2[i] = e[i]
        /\ \A i \in 1..j : stack2[i] = stack[i]
        /\ \A m \in 1..e[j] : cs2[m] = cs[m]
    BY <1>7
  <2>2. InLoop(b, cs2, stack2, e2, j)
    BY <2>1, Alike
  <2>3. j > 0 => Deeper(b, stack2, j) /\ Deal(b, stack[j], cs2, e[j - 1], e[j])
    BY <2>1, Alike
  <2>4. j > 0 => j - 1 \in 0..j /\ j \in 0..j /\ j \in 1..j
    BY <1>1
  <2> QED BY <2>1, <2>2, <2>3, <2>4
<1>9. \A j \in 0..(N + 1) : j \in 0..N \/ j = N + 1
  BY <1>1
<1>10. N \in 0..N /\ N + 1 - 1 = N /\ N + 1 > 0 /\ N + 1 # 0
  BY <1>1
<1>11. Wanted(b, stack2, N) = n
  <2>1. N = 0 \/ N \in 1..N
    BY <1>1
  <2> QED BY <1>3, <2>1 DEF Awaited, Wanted
<1>12. Wanted(b, stack2, N + 1) = kid
  BY <1>3, <1>10 DEF Wanted
<1>13. /\ n \in Nat /\ kid \in DOMAIN b /\ kid \in Nat /\ kid < n
       /\ b[kid].loop = LoopIn(b, n, fr.i) /\ n > 0 /\ b[n].loop \in Nat
  BY Inside
<1>14. Deeper(b, stack2, N + 1) /\ Deal(b, stack2[N + 1], cs2, e2[N], e2[N + 1])
  BY <1>1, <1>3, <1>5, <1>10, <1>11 DEF Deeper
<1>15. InLoop(b, cs, stack, e, N) /\ Wanted(b, stack, N) = n
  BY <1>10 DEF Waits, Awaited
<1>16. InLoop(b, cs2, stack2, e2, N + 1)
  <2>1. ASSUME NEW m \in 1..Len(cs2), cs2[m].f = "loop" PROVE cs2[m].at \in Nat /\ cs2[m].at > kid
    <3>1. CASE m \in 1..C
      <4>1. cs[m].f = "loop" /\ cs[m] = cs2[m]
        BY <2>1, <3>1
      <4>2. cs[m].at \in Nat /\ cs[m].at > n
        BY <1>1, <1>15, <3>1, <4>1 DEF InLoop
      <4> QED BY <1>13, <4>1, <4>2
    <3>2. CASE m > C
      <4>1. LoopConts(b, fr, cs2[C + 1], cs2[Len(cs2)]) /\ Len(cs2) = C + 2
        BY <2>1, <3>2
      <4>2. m = C + 1 \/ m = Len(cs2)
        BY <1>1, <1>2, <3>2, <4>1
      <4>3. cs2[Len(cs2)].f # "loop" /\ cs2[C + 1].at = n
        BY <4>1 DEF LoopConts
      <4> QED BY <1>13, <2>1, <4>2, <4>3
    <3>3. m \in 1..C \/ m > C
      BY <1>1, <1>2
    <3> QED BY <3>1, <3>2, <3>3
  <2>2. CASE /\ LoopIn(b, n, fr.i) = b[n].loop
             /\ \A m \in 1..Len(cs2) : m > C => cs2[m].f # "loop"
    <3> DEFINE l == b[n].loop
    <3>1. b[kid].loop = l
      BY <1>13, <2>2
    <3>2. ASSUME l = 0, NEW m \in 1..Len(cs2) PROVE cs2[m].f # "loop"
      <4>1. CASE m \in 1..C
        <5>1. cs[m].f # "loop" /\ cs[m] = cs2[m]
          BY <1>1, <1>15, <3>2, <4>1 DEF InLoop
        <5> QED BY <5>1
      <4>2. m \in 1..C \/ m > C
        BY <1>1, <1>2
      <4> QED BY <2>2, <4>1, <4>2
    <3>3. ASSUME l # 0
          PROVE  \E j \in 1..(N + 1) : stack2[j].at = l /\ LoopAround(b, cs2, stack2, e2, j, N + 1)
      <4>1. PICK j \in 1..N : stack[j].at = l /\ LoopAround(b, cs, stack, e, j, N)
        BY <1>15, <3>3 DEF InLoop
      <4>2. j \in 1..(N + 1) /\ j - 1 \in 0..N /\ stack2[j] = stack[j]
        BY <1>1, <1>3
      <4>3. e2[j - 1] = e[j - 1] /\ e[j - 1] \in Nat /\ e[j - 1] < C
        BY <1>1, <1>5, <4>1, <4>2 DEF LoopAround
      <4>4. cs2[e[j - 1] + 1] = cs[e[j - 1] + 1] /\ e[j - 1] < Len(cs2)
        <5>1. e[j - 1] + 1 \in 1..C
          BY <1>1, <4>3
        <5> QED BY <1>1, <1>2, <4>3, <5>1
      <4>5. \A m \in 1..Len(cs2) : m > e[j - 1] + 1 => cs2[m].f # "loop"
        <5> SUFFICES ASSUME NEW m \in 1..Len(cs2), m > e[j - 1] + 1 PROVE cs2[m].f # "loop"
          OBVIOUS
        <5>1. CASE m \in 1..C
          <6>1. cs[m].f # "loop" /\ cs2[m] = cs[m]
            BY <1>1, <4>1, <5>1 DEF LoopAround
          <6> QED BY <6>1
        <5>2. m \in 1..C \/ m > C
          BY <1>1, <1>2
        <5> QED BY <2>2, <5>1, <5>2
      <4>6. /\ b[l].kind \in Looping /\ cs[e[j - 1] + 1].f = "loop"
            /\ cs[e[j - 1] + 1].at = l /\ Turns(b, cs[e[j - 1] + 1], stack[j])
        BY <4>1 DEF LoopAround
      <4>7. LoopAround(b, cs2, stack2, e2, j, N + 1)
        BY <1>5, <4>1, <4>2, <4>3, <4>4, <4>5, <4>6 DEF LoopAround
      <4> QED BY <4>1, <4>2, <4>7
    <3> QED BY <1>5, <1>12, <2>1, <3>1, <3>2, <3>3 DEF InLoop
  <2>3. CASE /\ LoopIn(b, n, fr.i) = n
             /\ Len(cs2) = C + 2 /\ LoopConts(b, fr, cs2[C + 1], cs2[Len(cs2)])
    <3>1. b[kid].loop = n /\ n # 0
      BY <1>13, <2>3
    <3>2. N + 1 \in 1..(N + 1) /\ e2[N + 1 - 1] = C /\ stack2[N + 1] = fr
      BY <1>1, <1>3, <1>5, <1>10
    <3>3. \A m \in 1..Len(cs2) : m > C + 1 => cs2[m].f # "loop"
      <4>1. \A m \in 1..Len(cs2) : m > C + 1 => m = Len(cs2)
        BY <1>1, <2>3
      <4> QED BY <2>3, <4>1 DEF LoopConts
    <3>4. C < Len(cs2)
      BY <1>1, <2>3
    <3>5. LoopAround(b, cs2, stack2, e2, N + 1, N + 1)
      BY <1>5, <2>3, <3>2, <3>3, <3>4 DEF LoopAround, LoopConts
    <3>6. b[kid].loop # 0 => \E j \in 1..(N + 1) : /\ stack2[j].at = b[kid].loop
                                                    /\ LoopAround(b, cs2, stack2, e2, j, N + 1)
      BY <3>1, <3>2, <3>5
    <3> QED BY <1>5, <1>12, <2>1, <3>1, <3>6 DEF InLoop
  <2> QED BY <2>2, <2>3
<1>17. \A i, j \in 0..(N + 1) : i <= j => e2[i] <= e2[j]
  <2> TAKE i, j \in 0..(N + 1)
  <2> HAVE i <= j
  <2>1. \A m \in 0..(N + 1) : e2[m] \in Nat /\ e2[m] <= Len(cs2)
    BY <1>2, <1>6
  <2>2. CASE i \in 0..N /\ j \in 0..N
    <3>1. e[i] <= e[j]
      BY <2>2 DEF Waits
    <3> QED BY <1>5, <2>2, <3>1
  <2>3. CASE j = N + 1
    BY <1>5, <2>1, <2>3
  <2>4. i = N + 1 => j = N + 1
    BY <1>1
  <2> QED BY <1>9, <2>2, <2>3, <2>4
<1>18. \A i, j \in 1..(N + 1) : i < j => stack2[j].at < stack2[i].at
  <2> TAKE i, j \in 1..(N + 1)
  <2> SUFFICES ASSUME i < j PROVE stack2[j].at < stack2[i].at
    OBVIOUS
  <2>0. N \in Nat
    BY <1>1
  <2> HIDE DEF N
  <2>1. i \in 1..N /\ (j \in 1..N \/ j = N + 1)
    BY <2>0
  <2> USE DEF N
  <2>2. CASE j \in 1..N
    <3>1. stack[j].at < stack[i].at
      BY <2>1, <2>2 DEF Waits
    <3> QED BY <1>3, <2>1, <2>2, <3>1
  <2>3. CASE j = N + 1
    <3>1. stack2[j].at = n
      BY <1>3, <2>3
    <3>2. N \in 1..N /\ stack[N].at \in DOMAIN b /\ stack[N].i \in DOMAIN b[stack[N].at].kids
      <4>1. N \in 1..N
        BY <1>1, <2>1
      <4> QED BY <4>1 DEF Waits, Deeper
    <3>3. n = b[stack[N].at].kids[stack[N].i]
      BY <1>1, <3>2 DEF Awaited, Wanted
    <3>4. n < stack[N].at /\ stack[N].at \in Nat
      BY <3>2, <3>3, Inside
    <3>5. i = N \/ stack[N].at < stack[i].at
      <4>1. i = N \/ i < N
        BY <1>1, <2>1
      <4> QED BY <2>1, <3>2, <4>1 DEF Waits
    <3>6. stack[i].at \in Nat
      BY <1>1, <2>1
    <3> QED BY <1>3, <1>13, <2>1, <3>1, <3>4, <3>5, <3>6
  <2> QED BY <2>1, <2>2, <2>3
<1>19. \A j \in 1..(N + 1) : Deeper(b, stack2, j) /\ Deal(b, stack2[j], cs2, e2[j - 1], e2[j])
  <2> TAKE j \in 1..(N + 1)
  <2>1. CASE j \in 1..N
    <3>1. j \in 0..N /\ j > 0
      BY <1>1, <2>1
    <3> QED BY <1>8, <3>1
  <2>2. CASE j = N + 1
    BY <1>10, <1>14, <2>2
  <2> QED BY <1>1, <2>1, <2>2
<1>20. \A j \in 0..(N + 1) : InLoop(b, cs2, stack2, e2, j)
  BY <1>8, <1>9, <1>16
<1>21. e2[0] = 0
  BY <1>1, <1>5
<1>22. Waits(b, cs2, stack2, e2)
  BY <1>3, <1>4, <1>5, <1>6, <1>17, <1>18, <1>19, <1>20, <1>21 DEF Waits
<1> QED BY <1>22 DEF Standing, stack2

\* Nothing waits around the whole body.
LEMMA StandingNone ==
  ASSUME NEW b, WellFormed(b)
  PROVE  Standing(b, <<>>, <<>>) /\ Awaited(b, <<>>) = Len(b)
<1> DEFINE e == [k \in 0..0 |-> 0]
<1>1. Len(<<>>) = 0 /\ Listed(<<>>) /\ <<>> \in Seq(Frames)
  BY EmptySeq DEF Listed
<1>2. e \in [0..Len(<<>>) -> 0..Len(<<>>)] /\ e[0] = 0 /\ e[Len(<<>>)] = 0
  BY <1>1
<1>3. b[Len(b)].loop = 0
  BY DEF WellFormed
<1>4. InLoop(b, <<>>, <<>>, e, 0)
  BY <1>2, <1>3 DEF InLoop, Wanted
<1>5. Waits(b, <<>>, <<>>, e)
  BY <1>1, <1>2, <1>4 DEF Waits
<1> QED BY <1>1, <1>5 DEF Standing, Awaited, Wanted

\* Kinds of expressions with a loop around their kids.
LEMMA LoopInPlain ==
  ASSUME NEW b, NEW n, NEW i, b[n].kind \notin Looping \/ (b[n].kind \in Iterating /\ i = 1)
  PROVE  LoopIn(b, n, i) = b[n].loop
BY DEF LoopIn

\* A frame no continuation waits for.
LEMMA StandingClear ==
  ASSUME NEW b, WellFormed(b), NEW cs, NEW stack, Standing(b, cs, stack),
         NEW fr \in Frames, fr.at = Awaited(b, stack), fr.at \in DOMAIN b,
         b[fr.at].rec, fr.i \in DOMAIN b[fr.at].kids, Clear(b[fr.at], fr.i)
  PROVE  Standing(b, cs, Append(stack, fr))
<1>1. PICK e : Waits(b, cs, stack, e)
  BY DEF Standing
<1>2. Listed(cs) /\ Len(cs) \in Nat
  BY <1>1, WaitsTypes
<1>3. LoopIn(b, fr.at, fr.i) = b[fr.at].loop
  BY LoopInPlain DEF Clear, Looping, Iterating
<1>4. Deal(b, fr, cs, Len(cs), Len(cs))
  BY DEF Deal
<1>5. Len(cs) <= Len(cs) /\ \A m \in 1..Len(cs) : ~(m > Len(cs))
  BY <1>2
<1> QED BY <1>1, <1>2, <1>3, <1>4, <1>5, StandingMore

\* A frame with one continuation is not that of a loop.
LEMMA OneContPlain ==
  ASSUME NEW b, NEW fr, NEW c, OneCont(b, fr, c)
  PROVE  LoopIn(b, fr.at, fr.i) = b[fr.at].loop /\ c.f # "loop"
<1>1. b[fr.at].kind \notin Looping \/ (b[fr.at].kind \in Iterating /\ fr.i = 1)
  BY DEF OneCont, Looping, Iterating
<1>2. c.f # "loop"
  BY DEF OneCont
<1> QED BY <1>1, <1>2, LoopInPlain

\* A frame with one continuation.
LEMMA StandingOne ==
  ASSUME NEW b, WellFormed(b), NEW cs, NEW stack, Standing(b, cs, stack),
         NEW fr \in Frames, fr.at = Awaited(b, stack), fr.at \in DOMAIN b,
         b[fr.at].rec, fr.i \in DOMAIN b[fr.at].kids, NEW c, OneCont(b, fr, c)
  PROVE  Standing(b, Append(cs, c), Append(stack, fr))
<1> DEFINE cs2 == Append(cs, c)
<1>1. PICK e : Waits(b, cs, stack, e)
  BY DEF Standing
<1>2. Listed(cs) /\ Len(cs) \in Nat
  BY <1>1, WaitsTypes
<1>3. /\ Listed(cs2) /\ Len(cs2) = Len(cs) + 1
      /\ \A m \in 1..Len(cs) : cs2[m] = cs[m]
      /\ cs2[Len(cs) + 1] = c
  BY <1>2, ListMore
<1> HIDE DEF cs2
<1>4. LoopIn(b, fr.at, fr.i) = b[fr.at].loop /\ c.f # "loop"
  BY OneContPlain
<1>5. Deal(b, fr, cs2, Len(cs), Len(cs2))
  BY <1>3 DEF Deal
<1>6. Len(cs) <= Len(cs2) /\ \A m \in 1..Len(cs2) : m > Len(cs) => m = Len(cs) + 1
  BY <1>2, <1>3
<1>7. \A m \in 1..Len(cs2) : m > Len(cs) => cs2[m].f # "loop"
  BY <1>3, <1>4, <1>6
<1>8. Standing(b, cs2, Append(stack, fr))
  BY <1>1, <1>3, <1>4, <1>5, <1>6, <1>7, StandingMore
<1> QED BY <1>8 DEF cs2

\* The frame of a loop, with the continuation after the loop and that of the turn.
LEMMA StandingLoop ==
  ASSUME NEW b, WellFormed(b), NEW cs, NEW stack, Standing(b, cs, stack),
         NEW fr \in Frames, fr.at = Awaited(b, stack), fr.at \in DOMAIN b,
         b[fr.at].rec, fr.i \in DOMAIN b[fr.at].kids, NEW L, NEW c, LoopConts(b, fr, L, c)
  PROVE  Standing(b, Append(Append(cs, L), c), Append(stack, fr))
<1> DEFINE cs1 == Append(cs, L)
           cs2 == Append(cs1, c)
<1>1. PICK e : Waits(b, cs, stack, e)
  BY DEF Standing
<1>2. Listed(cs) /\ Len(cs) \in Nat
  BY <1>1, WaitsTypes
<1>3. /\ Listed(cs1) /\ Len(cs1) = Len(cs) + 1
      /\ \A m \in 1..Len(cs) : cs1[m] = cs[m]
      /\ cs1[Len(cs) + 1] = L
  BY <1>2, ListMore
<1> HIDE DEF cs1
<1>4. /\ Listed(cs2) /\ Len(cs2) = Len(cs1) + 1
      /\ \A m \in 1..Len(cs1) : cs2[m] = cs1[m]
      /\ cs2[Len(cs1) + 1] = c
  BY <1>3, ListMore
<1> HIDE DEF cs2
<1>5. /\ Len(cs2) = Len(cs) + 2 /\ Len(cs) <= Len(cs2) /\ Len(cs) + 1 \in 1..Len(cs1)
      /\ \A m \in 1..Len(cs) : m \in 1..Len(cs1)
  BY <1>2, <1>3, <1>4
<1>6. /\ \A m \in 1..Len(cs) : cs2[m] = cs[m]
      /\ cs2[Len(cs) + 1] = L /\ cs2[Len(cs2)] = c
  BY <1>3, <1>4, <1>5
<1>7. LoopIn(b, fr.at, fr.i) = fr.at
  BY DEF LoopConts, LoopIn, Looping, Iterating
<1>8. Deal(b, fr, cs2, Len(cs), Len(cs2))
  BY <1>5, <1>6 DEF Deal
<1>9. Standing(b, cs2, Append(stack, fr))
  BY <1>1, <1>4, <1>5, <1>6, <1>7, <1>8, StandingMore
<1> QED BY <1>9 DEF cs1, cs2

-----------------------------------------------------------------------------
(* A value goes down the stack. *)

\* It passes a frame no continuation waits for.
LEMMA ClearStep ==
  ASSUME NEW b, WellFormed(b), NEW stack, Listed(stack), NEW fr, fr.at \in DOMAIN b,
         Clear(b[fr.at], fr.i), NEW v
  PROVE  ~AtEvent(Yield(v, Append(stack, fr))) /\ Move(b, Yield(v, Append(stack, fr))) = Yield(v, stack)
<1> DEFINE t == b[fr.at]
           next == Following(t, fr.i, v)
<1>1. t.kind \in {"block", "if", "and", "or"}
  BY DEF Clear
<1>2. /\ ~AtEvent(Yield(v, Append(stack, fr)))
      /\ Move(b, Yield(v, Append(stack, fr))) =
             IF next # 0 THEN Eval(t.kids[next], Append(stack, Frame(fr.at, next, <<>>, fr.turn)))
             ELSE Yield(Comes(t, fr.i, v), stack)
  <2>1. t.kind \notin Strict \union {"return", "break", "loop"} /\ t.kind \notin Looping
    BY <1>1 DEF Strict, Looping, Iterating
  <2> QED BY <2>1, YieldNext
<1>3. Len(t.kids) \in Nat
  BY Inside, ListLen
<1>4. next = 0
  BY <1>3 DEF Clear, Following
<1>5. Comes(t, fr.i, v) = v
  BY DEF Clear, Comes
<1> QED BY <1>1, <1>2, <1>4, <1>5

\* It passes any number of them.
LEMMA ClearDown ==
  ASSUME NEW b, WellFormed(b), NEW stack, Listed(stack), NEW k \in 0..Len(stack),
         \A j \in 1..Len(stack) : j > k => stack[j].at \in DOMAIN b /\ Clear(b[stack[j].at], stack[j].i),
         NEW v
  PROVE  Star(b, Yield(v, stack), Yield(v, SubSeq(stack, 1, k)))
<1> SUFFICES ASSUME NEW S, Yield(v, stack) \in S, Moves(b, S)
             PROVE  Yield(v, SubSeq(stack, 1, k)) \in S
  BY DEF Star
<1> DEFINE T == {m \in 0..Len(stack) : m >= k /\ Yield(v, SubSeq(stack, 1, m)) \in S}
<1>1. Len(stack) \in Nat /\ k \in Nat
  BY ListLen
<1>2. Len(stack) \in T
  <2>1. Len(stack) \in 0..Len(stack) /\ Len(stack) >= k
    BY <1>1
  <2>2. SubSeq(stack, 1, Len(stack)) = stack
    BY <2>1, ListPart
  <2> QED BY <2>1, <2>2
<1>3. T \subseteq Nat
  BY <1>1
<1>4. PICK m \in T : \A y \in T : m <= y
  BY <1>2, <1>3, LeastNat
<1>5. CASE m = k
  BY <1>4, <1>5
<1>6. CASE m # k
  <2>1. m \in 1..Len(stack) /\ m > k /\ m - 1 \in 0..Len(stack) /\ m - 1 >= k /\ m \in 0..Len(stack)
    BY <1>1, <1>4, <1>6
  <2>2. SubSeq(stack, 1, m) = Append(SubSeq(stack, 1, m - 1), stack[m])
    <3> DEFINE p == SubSeq(stack, 1, m)
    <3>1. Listed(p) /\ Len(p) = m /\ (\A i \in 1..m : p[i] = stack[i])
          /\ \A i \in 0..m : SubSeq(p, 1, i) = SubSeq(stack, 1, i)
      BY <2>1, ListPart
    <3> HIDE DEF p
    <3>2. m \in Nat /\ m > 0 /\ m \in 1..m /\ m - 1 \in 0..m
      BY <1>1, <2>1
    <3>3. p # <<>>
      BY <3>1, <3>2, ListLen
    <3>4. Front(p) = SubSeq(p, 1, m - 1) /\ p[m] = Last(p) /\ p = Append(Front(p), Last(p))
      BY <3>1, <3>3, ListLast
    <3>5. Front(p) = SubSeq(stack, 1, m - 1) /\ Last(p) = stack[m]
      BY <3>1, <3>2, <3>4
    <3> QED BY <3>4, <3>5 DEF p
  <2>3. Listed(SubSeq(stack, 1, m - 1))
    BY <2>1, ListPart
  <2>4. stack[m].at \in DOMAIN b /\ Clear(b[stack[m].at], stack[m].i)
    BY <2>1
  <2> DEFINE below == SubSeq(stack, 1, m - 1)
             fr == stack[m]
  <2>5. /\ ~AtEvent(Yield(v, SubSeq(stack, 1, m)))
        /\ Move(b, Yield(v, SubSeq(stack, 1, m))) = Yield(v, SubSeq(stack, 1, m - 1))
    <3> HIDE DEF below, fr
    <3>1. /\ ~AtEvent(Yield(v, Append(below, fr)))
          /\ Move(b, Yield(v, Append(below, fr))) = Yield(v, below)
      <4>1. Listed(below) /\ fr.at \in DOMAIN b /\ Clear(b[fr.at], fr.i)
        BY <2>3, <2>4 DEF below, fr
      <4> QED BY <4>1, ClearStep
    <3> QED BY <2>2, <3>1 DEF below, fr
  <2>6. Yield(v, SubSeq(stack, 1, m - 1)) \in S
    BY <1>4, <2>5 DEF Moves
  <2>7. m - 1 \in T /\ ~(m <= m - 1)
    BY <1>1, <2>1, <2>6
  <2> QED BY <1>4, <2>7
<1> QED BY <1>5, <1>6

\* What may have code left to run keeps it past such a frame.
LEMMA ClearHands ==
  ASSUME NEW b, WellFormed(b), NEW H, KeepsOrder(b, H),
         NEW stack, Listed(stack), NEW k \in 0..Len(stack),
         \A j \in 1..Len(stack) : j > k => Deeper(b, stack, j) /\ Clear(b[stack[j].at], stack[j].i),
         Wanted(b, stack, Len(stack)) \in H
  PROVE  Wanted(b, stack, k) \in H
<1> DEFINE T == {m \in 0..Len(stack) : m >= k /\ Wanted(b, stack, m) \in H}
<1>1. Len(stack) \in Nat /\ k \in Nat
  BY ListLen
<1>2. Len(stack) \in T
  BY <1>1
<1>3. T \subseteq Nat
  BY <1>1
<1>4. PICK m \in T : \A y \in T : m <= y
  BY <1>2, <1>3, LeastNat
<1>5. CASE m = k
  BY <1>4, <1>5
<1>6. CASE m # k
  <2>1. m \in 1..Len(stack) /\ m > k /\ m - 1 \in 0..Len(stack) /\ m - 1 >= k /\ m # 0
    BY <1>1, <1>4, <1>6
  <2> DEFINE n == stack[m].at
             i == stack[m].i
             t == b[n]
  <2>2. n \in DOMAIN b /\ n = Wanted(b, stack, m - 1) /\ t.rec /\ i \in DOMAIN t.kids /\ Clear(t, i)
    BY <2>1 DEF Deeper
  <2>3. t.kids[i] \in H
    BY <1>4, <2>1 DEF Wanted
  <2>4. DOMAIN t.kids = 1..Len(t.kids) /\ Len(t.kids) \in Nat
    BY <2>2, Inside, ListLen
  <2>5. t.kind \in {"and", "or"} => Len(t.kids) = 2
    BY <2>2 DEF WellFormed, Binary
  <2>6. Hands(b, H, n)
    BY <2>2, <2>3, <2>4, <2>5 DEF Hands, Clear
  <2>7. n \in H
    BY <2>2, <2>6 DEF KeepsOrder
  <2>8. m - 1 \in T /\ ~(m <= m - 1)
    BY <1>1, <2>1, <2>2, <2>7
  <2> QED BY <1>4, <2>8
<1> QED BY <1>5, <1>6

\* The top continuation is one of the last frame that has any.
LEMMA TopFrame ==
  ASSUME NEW b, NEW cs, NEW stack, NEW e, Waits(b, cs, stack, e)
  PROVE  \E k \in 0..Len(stack) :
            /\ e[k] = Len(cs) /\ (k = 0 => cs = <<>>) /\ (k > 0 => e[k - 1] < e[k])
            /\ \A j \in 1..Len(stack) : j > k => Deeper(b, stack, j) /\ Clear(b[stack[j].at], stack[j].i)
<1> DEFINE T == {k \in 0..Len(stack) : e[k] = Len(cs)}
<1>1. /\ Len(stack) \in Nat /\ Len(cs) \in Nat /\ Listed(cs)
      /\ \A j \in 0..Len(stack) : e[j] \in Nat /\ e[j] <= Len(cs)
      /\ e[0] = 0 /\ e[Len(stack)] = Len(cs)
  BY WaitsTypes
<1>2. T \subseteq Nat /\ Len(stack) \in T
  BY <1>1
<1>3. PICK k \in T : \A y \in T : k <= y
  BY <1>2, LeastNat
<1>4. k \in 0..Len(stack) /\ e[k] = Len(cs) /\ k \in Nat
  BY <1>1, <1>3
<1>5. k = 0 => cs = <<>>
  BY <1>1, <1>4, ListLen
<1>6. ASSUME k > 0 PROVE e[k - 1] < e[k]
  <2>1. k - 1 \in 0..Len(stack) /\ ~(k <= k - 1)
    BY <1>1, <1>4, <1>6
  <2>2. e[k - 1] # Len(cs)
    BY <1>3, <2>1
  <2> QED BY <1>1, <1>4, <2>1, <2>2
<1>7. ASSUME NEW j \in 1..Len(stack), j > k
      PROVE  Deeper(b, stack, j) /\ Clear(b[stack[j].at], stack[j].i)
  <2>1. j - 1 \in 0..Len(stack) /\ j \in 0..Len(stack) /\ k <= j - 1 /\ k <= j
    BY <1>1, <1>4, <1>7
  <2>2. e[k] <= e[j - 1] /\ e[k] <= e[j]
    BY <1>4, <2>1 DEF Waits
  <2>3. e[j - 1] = Len(cs) /\ e[j] = Len(cs)
    BY <1>1, <1>4, <2>1, <2>2
  <2>4. Deeper(b, stack, j) /\ Deal(b, stack[j], cs, e[j - 1], e[j])
    BY DEF Waits
  <2>5. Clear(b[stack[j].at], stack[j].i)
    BY <1>1, <2>3, <2>4 DEF Deal
  <2> QED BY <2>4, <2>5
<1> QED BY <1>4, <1>5, <1>6, <1>7

\* `fr` is the frame the top continuation of `cs` belongs to, on top of `below`.
TopIs(b, cs, stack, below, fr) ==
    /\ below \in Seq(Frames) /\ fr \in Frames /\ Listed(below)
    /\ fr.at \in DOMAIN b /\ b[fr.at].rec /\ fr.i \in DOMAIN b[fr.at].kids
    /\ fr.at = Awaited(b, below)
    /\ \A v : Star(b, Yield(v, stack), Yield(v, Append(below, fr)))
    /\ \A H : KeepsOrder(b, H) /\ Awaited(b, stack) \in H => b[fr.at].kids[fr.i] \in H
    /\ Standing(b, cs, Append(below, fr))
    /\ \/ OneCont(b, fr, Last(cs)) /\ Standing(b, Front(cs), below)
       \/ /\ Front(cs) # <<>> /\ LoopConts(b, fr, Last(Front(cs)), Last(cs))
          /\ Standing(b, Front(Front(cs)), below)

\* There is such a frame wherever a continuation waits.
LEMMA Top ==
  ASSUME NEW b, WellFormed(b), NEW cs, NEW stack, Standing(b, cs, stack), cs # <<>>
  PROVE  \E below, fr : TopIs(b, cs, stack, below, fr)
<1>1. PICK e : Waits(b, cs, stack, e)
  BY DEF Standing
<1>2. /\ Len(stack) \in Nat /\ Len(cs) \in Nat /\ Listed(cs) /\ Listed(stack)
      /\ \A j \in 0..Len(stack) : e[j] \in Nat /\ e[j] <= Len(cs)
      /\ e[0] = 0 /\ e[Len(stack)] = Len(cs)
      /\ \A j \in 1..Len(stack) : stack[j] \in Frames
  BY <1>1, WaitsTypes
<1>3. PICK k \in 0..Len(stack) :
         /\ e[k] = Len(cs) /\ (k = 0 => cs = <<>>) /\ (k > 0 => e[k - 1] < e[k])
         /\ \A j \in 1..Len(stack) : j > k => Deeper(b, stack, j) /\ Clear(b[stack[j].at], stack[j].i)
  BY <1>1, TopFrame
<1>4. k \in 1..Len(stack) /\ k > 0 /\ k - 1 \in 0..Len(stack) /\ k \in Nat
  BY <1>2, <1>3
<1> DEFINE below == SubSeq(stack, 1, k - 1)
           fr == stack[k]
           upto == SubSeq(stack, 1, k)
<1>5. upto = Append(below, fr) /\ Listed(below) /\ Len(below) = k - 1
  <2>1. Listed(upto) /\ Len(upto) = k /\ (\A i \in 1..k : upto[i] = stack[i])
        /\ \A i \in 0..k : SubSeq(upto, 1, i) = SubSeq(stack, 1, i)
    BY <1>2, ListPart
  <2>2. k \in 1..k /\ k - 1 \in 0..k
    BY <1>4
  <2> HIDE DEF upto
  <2>3. upto # <<>>
    BY <1>4, <2>1, ListLen
  <2>4. upto = Append(Front(upto), Last(upto)) /\ Front(upto) = SubSeq(upto, 1, k - 1) /\ Last(upto) = upto[k]
    BY <2>1, <2>3, ListLast
  <2>5. Listed(below) /\ Len(below) = k - 1
    BY <1>2, <1>4, ListPart
  <2> QED BY <2>1, <2>2, <2>4, <2>5
<1>6. /\ Waits(b, SubSeq(cs, 1, e[k - 1]), below, [j \in 0..(k - 1) |-> e[j]])
      /\ Awaited(b, below) = Wanted(b, stack, k - 1)
  BY <1>1, <1>4, StandingPart
<1>7. Waits(b, SubSeq(cs, 1, e[k]), upto, [j \in 0..k |-> e[j]])
  BY <1>1, StandingPart
<1>8. SubSeq(cs, 1, e[k]) = cs
  <2>1. Len(cs) \in 0..Len(cs)
    BY <1>2
  <2> QED BY <1>2, <1>3, <2>1, ListPart
<1>9. Standing(b, cs, Append(below, fr))
  BY <1>5, <1>7, <1>8 DEF Standing
<1>10. Deeper(b, stack, k) /\ Deal(b, fr, cs, e[k - 1], e[k])
  BY <1>1, <1>4 DEF Waits
<1>11. /\ fr.at \in DOMAIN b /\ b[fr.at].rec /\ fr.i \in DOMAIN b[fr.at].kids
       /\ fr.at = Awaited(b, below) /\ fr \in Frames
  BY <1>2, <1>4, <1>6, <1>10 DEF Deeper
<1>12. below \in Seq(Frames)
  BY <1>6 DEF Waits
<1>13. \A v : Star(b, Yield(v, stack), Yield(v, Append(below, fr)))
  <2> TAKE v
  <2>1. \A j \in 1..Len(stack) : j > k => stack[j].at \in DOMAIN b /\ Clear(b[stack[j].at], stack[j].i)
    BY <1>3 DEF Deeper
  <2>2. Star(b, Yield(v, stack), Yield(v, upto))
    BY <1>2, <2>1, ClearDown
  <2> QED BY <1>5, <2>2
<1>14. \A H : KeepsOrder(b, H) /\ Awaited(b, stack) \in H => b[fr.at].kids[fr.i] \in H
  <2> SUFFICES ASSUME NEW H, KeepsOrder(b, H), Awaited(b, stack) \in H
               PROVE  b[fr.at].kids[fr.i] \in H
    OBVIOUS
  <2>1. Wanted(b, stack, k) \in H
    BY <1>2, <1>3, ClearHands DEF Awaited
  <2> QED BY <1>4, <2>1 DEF Wanted
<1>15. e[k - 1] \in Nat /\ e[k] \in Nat /\ e[k - 1] # e[k]
  BY <1>2, <1>3, <1>4
<1>16. CASE e[k] = e[k - 1] + 1 /\ OneCont(b, fr, cs[e[k]])
  <2>1. e[k - 1] = Len(cs) - 1
    BY <1>3, <1>15, <1>16
  <2>2. Front(cs) = SubSeq(cs, 1, e[k - 1]) /\ Last(cs) = cs[e[k]]
    BY <1>3, <2>1 DEF Front, Last
  <2>3. OneCont(b, fr, Last(cs)) /\ Standing(b, Front(cs), below)
    BY <1>6, <1>16, <2>2 DEF Standing
  <2> QED BY <1>5, <1>9, <1>11, <1>12, <1>13, <1>14, <2>3 DEF TopIs
<1>17. CASE e[k] = e[k - 1] + 2 /\ LoopConts(b, fr, cs[e[k - 1] + 1], cs[e[k]])
  <2>1. e[k - 1] = Len(cs) - 2 /\ Len(cs) - 1 > 0 /\ Len(cs) - 1 \in 0..Len(cs)
    BY <1>2, <1>3, <1>15, <1>17
  <2>2. Listed(Front(cs)) /\ Len(Front(cs)) = Len(cs) - 1 /\ Front(cs)[Len(cs) - 1] = cs[Len(cs) - 1]
        /\ SubSeq(Front(cs), 1, Len(cs) - 2) = SubSeq(cs, 1, Len(cs) - 2)
    <3>1. Len(cs) - 1 \in 1..(Len(cs) - 1) /\ Len(cs) - 2 \in 0..(Len(cs) - 1)
      BY <1>2, <2>1
    <3> QED BY <1>2, <2>1, <3>1, ListPart DEF Front
  <2>3. Front(cs) # <<>>
    BY <2>1, <2>2, ListLen
  <2>4. Last(Front(cs)) = cs[e[k - 1] + 1] /\ Last(cs) = cs[e[k]]
    <3>1. e[k - 1] + 1 = Len(cs) - 1
      BY <1>2, <2>1
    <3> QED BY <1>3, <2>2, <3>1 DEF Last
  <2>5. Front(Front(cs)) = SubSeq(cs, 1, e[k - 1])
    <3>1. Len(cs) - 1 - 1 = Len(cs) - 2
      BY <1>2
    <3> QED BY <2>1, <2>2, <3>1 DEF Front
  <2>6. LoopConts(b, fr, Last(Front(cs)), Last(cs)) /\ Standing(b, Front(Front(cs)), below)
    BY <1>6, <1>17, <2>4, <2>5 DEF Standing
  <2> QED BY <1>5, <1>9, <1>11, <1>12, <1>13, <1>14, <2>3, <2>6 DEF TopIs
<1> QED BY <1>10, <1>15, <1>16, <1>17 DEF Deal

\* Where nothing waits, a value falls to the end.
LEMMA Bottom ==
  ASSUME NEW b, WellFormed(b), NEW stack, Standing(b, <<>>, stack), NEW v
  PROVE  Star(b, Yield(v, stack), End(v))
<1>1. PICK e : Waits(b, <<>>, stack, e)
  BY DEF Standing
<1>2. /\ Len(stack) \in Nat /\ Listed(stack)
      /\ \A j \in 0..Len(stack) : e[j] \in Nat /\ e[j] <= Len(<<>>)
  BY <1>1, WaitsTypes
<1>3. PICK k \in 0..Len(stack) :
         /\ e[k] = Len(<<>>) /\ (k > 0 => e[k - 1] < e[k])
         /\ \A j \in 1..Len(stack) : j > k => Deeper(b, stack, j) /\ Clear(b[stack[j].at], stack[j].i)
  BY <1>1, TopFrame
<1>4. k = 0
  <2>1. k > 0 => k - 1 \in 0..Len(stack)
    BY <1>2
  <2>2. Len(<<>>) = 0
    BY EmptySeq
  <2> QED BY <1>2, <1>3, <2>1, <2>2
<1>5. \A j \in 1..Len(stack) : j > k => stack[j].at \in DOMAIN b /\ Clear(b[stack[j].at], stack[j].i)
  BY <1>3 DEF Deeper
<1>6. Star(b, Yield(v, stack), Yield(v, SubSeq(stack, 1, k)))
  BY <1>2, <1>5, ClearDown
<1>7. SubSeq(stack, 1, k) = <<>>
  BY <1>2, <1>4, ListPart
<1>8. ~AtEvent(Yield(v, <<>>)) /\ Move(b, Yield(v, <<>>)) = End(v)
  BY YieldEnd
<1>9. Star(b, Yield(v, stack), Move(b, Yield(v, <<>>)))
  BY <1>6, <1>7, <1>8, StarOn
<1> QED BY <1>8, <1>9

\* The last loop continuation is that of the loop around.
LEMMA KnownHere ==
  ASSUME NEW b, WellFormed(b), NEW cs, NEW stack, Standing(b, cs, stack)
  PROVE  Known(b, Env(cs), stack, b[Awaited(b, stack)].loop)
<1> DEFINE N == Len(stack)
           l == b[Awaited(b, stack)].loop
<1>1. PICK e : Waits(b, cs, stack, e)
  BY DEF Standing
<1>2. /\ N \in Nat /\ Len(cs) \in Nat /\ Listed(cs) /\ Listed(stack)
      /\ \A j \in 0..N : e[j] \in Nat /\ e[j] <= Len(cs) /\ e[j] \in 0..Len(cs)
      /\ e[0] = 0 /\ e[N] = Len(cs) /\ DOMAIN stack = 1..N /\ DOMAIN cs = 1..Len(cs)
  BY <1>1, WaitsTypes
<1>3. N \in 0..N /\ InLoop(b, cs, stack, e, N)
  BY <1>1, <1>2 DEF Waits
<1>4. ASSUME l = 0 PROVE Env(cs) = <<>>
  <2>1. \A m \in DOMAIN cs : cs[m].f # "loop"
    BY <1>2, <1>3, <1>4 DEF InLoop, Awaited
  <2>2. LastLoop(cs) = 0
    BY <2>1 DEF LastLoop
  <2>3. 0 \in 0..Len(cs)
    BY <1>2
  <2> QED BY <1>2, <2>2, <2>3, ListPart DEF Env
<1>5. ASSUME l # 0
      PROVE  /\ Listed(Env(cs)) /\ Env(cs) # <<>> /\ Last(Env(cs)).f = "loop" /\ Last(Env(cs)).at = l
             /\ l \in DOMAIN b /\ b[l].rec /\ b[l].kind \in Looping
             /\ LoopAt(stack, l) \in DOMAIN stack /\ stack[LoopAt(stack, l)].at = l
             /\ Turns(b, Last(Env(cs)), stack[LoopAt(stack, l)])
             /\ stack[LoopAt(stack, l)].turn \in Nat
             /\ \A m \in DOMAIN stack : stack[m].at = l => m = LoopAt(stack, l)
             /\ Standing(b, Front(Env(cs)), SubSeq(stack, 1, LoopAt(stack, l) - 1))
             /\ Awaited(b, SubSeq(stack, 1, LoopAt(stack, l) - 1)) = l
  <2>1. PICK j \in 1..N : stack[j].at = l /\ LoopAround(b, cs, stack, e, j, N)
    BY <1>3, <1>5 DEF InLoop, Awaited
  <2> DEFINE p == e[j - 1] + 1
  <2>2. j - 1 \in 0..N /\ j \in Nat /\ e[j - 1] \in Nat /\ e[j - 1] < Len(cs)
    BY <1>2, <2>1 DEF LoopAround
  <2>3. p \in 1..Len(cs) /\ p \in 0..Len(cs) /\ p > 0 /\ p - 1 = e[j - 1] /\ p \in Nat
    BY <1>2, <2>2
  <2>4. /\ b[l].kind \in Looping /\ cs[p].f = "loop" /\ cs[p].at = l /\ Turns(b, cs[p], stack[j])
        /\ \A m \in 1..Len(cs) : m > p => cs[m].f # "loop"
    BY <1>2, <2>1 DEF LoopAround
  <2>5. LastLoop(cs) = p
    <3> HIDE DEF p
    <3>1. IsLastLoop(cs, p)
      BY <1>2, <2>3, <2>4 DEF IsLastLoop
    <3>2. \A m \in DOMAIN cs : IsLastLoop(cs, m) => m = p
      <4> SUFFICES ASSUME NEW m \in DOMAIN cs, IsLastLoop(cs, m) PROVE m = p
        OBVIOUS
      <4>1. p <= m /\ m <= p /\ m \in Nat
        BY <1>2, <2>3, <2>4, <3>1 DEF IsLastLoop
      <4> QED BY <2>3, <4>1
    <3> QED BY <1>2, <2>3, <2>4, <3>1, <3>2 DEF LastLoop
  <2>6. \A m \in DOMAIN stack : stack[m].at = l => m = j
    <3> SUFFICES ASSUME NEW m \in 1..N, stack[m].at = l PROVE m = j
      BY <1>2
    <3>1. m < j => stack[j].at < stack[m].at
      BY <1>1 DEF Waits
    <3>2. j < m => stack[m].at < stack[j].at
      BY <1>1 DEF Waits
    <3>3. stack[j].at \in Nat /\ stack[m].at \in Nat
      BY <1>1, WaitsTypes
    <3>4. stack[j].at = stack[m].at
      BY <2>1
    <3>5. ~(m < j) /\ ~(j < m)
      BY <3>1, <3>2, <3>3, <3>4
    <3> QED BY <1>2, <3>5
  <2>7. LoopAt(stack, l) = j
    BY <1>2, <2>1, <2>6 DEF LoopAt
  <2>8. /\ Listed(Env(cs)) /\ Len(Env(cs)) = p /\ Env(cs)[p] = cs[p]
        /\ SubSeq(Env(cs), 1, p - 1) = SubSeq(cs, 1, p - 1)
    <3>1. p \in 1..p /\ p - 1 \in 0..p
      BY <2>3
    <3> HIDE DEF p
    <3> QED BY <1>2, <2>3, <2>5, <3>1, ListPart DEF Env
  <2>9. Env(cs) # <<>> /\ Last(Env(cs)) = cs[p] /\ Front(Env(cs)) = SubSeq(cs, 1, e[j - 1])
    <3> HIDE DEF p
    <3>1. Env(cs) # <<>>
      BY <2>3, <2>8, ListLen
    <3> QED BY <2>3, <2>8, <3>1 DEF Last, Front
  <2>10. /\ Standing(b, SubSeq(cs, 1, e[j - 1]), SubSeq(stack, 1, j - 1))
         /\ Awaited(b, SubSeq(stack, 1, j - 1)) = Wanted(b, stack, j - 1)
    BY <1>1, <2>2, StandingPart DEF Standing
  <2>11. stack[j].at \in DOMAIN b /\ stack[j].at = Wanted(b, stack, j - 1) /\ b[stack[j].at].rec
    BY <1>1 DEF Waits, Deeper
  <2>12. l \in DOMAIN b /\ b[l].rec /\ Awaited(b, SubSeq(stack, 1, j - 1)) = l
    BY <2>1, <2>10, <2>11
  <2>13. stack[j].turn \in Nat
    <3>1. stack[j] \in Frames
      BY <1>1, WaitsTypes
    <3> QED BY <3>1 DEF Frames
  <2> HIDE DEF p
  <2> QED BY <1>2, <2>1, <2>4, <2>6, <2>7, <2>8, <2>9, <2>10, <2>12, <2>13
<1> QED BY <1>4, <1>5 DEF Known

\* It stays so under an expression of another kind.
LEMMA KnownMore ==
  ASSUME NEW b, NEW env, NEW stack, Listed(stack), NEW l, Known(b, env, stack, l),
         NEW fr, fr.at # l
  PROVE  Known(b, env, Append(stack, fr), l)
<1> DEFINE N == Len(stack)
           more == Append(stack, fr)
           j == LoopAt(stack, l)
<1>1. /\ N \in Nat /\ DOMAIN stack = 1..N /\ Len(more) = N + 1 /\ Listed(more)
      /\ \A m \in 1..N : more[m] = stack[m]
      /\ more[N + 1] = fr
      /\ \A k \in 0..N : SubSeq(more, 1, k) = SubSeq(stack, 1, k)
  BY ListLen, ListMore
<1>2. DOMAIN more = 1..(N + 1)
  BY <1>1, ListLen
<1> HIDE DEF more
<1>3. CASE l = 0
  BY <1>3 DEF Known
<1>4. CASE l # 0
  <2>1. j \in DOMAIN stack /\ stack[j].at = l /\ \A m \in DOMAIN stack : stack[m].at = l => m = j
    BY <1>4 DEF Known
  <2>2. \A m \in 1..(N + 1) : m \in 1..N \/ m = N + 1
    BY <1>1
  <2>3. \A m \in DOMAIN more : more[m].at = l => m = j
    BY <1>1, <1>2, <2>1, <2>2
  <2>4. j \in DOMAIN more /\ more[j].at = l /\ j - 1 \in 0..N /\ more[j] = stack[j]
    BY <1>1, <1>2, <2>1
  <2>5. LoopAt(more, l) = j
    BY <2>3, <2>4 DEF LoopAt
  <2>6. SubSeq(more, 1, j - 1) = SubSeq(stack, 1, j - 1)
    BY <1>1, <2>4
  <2> HIDE DEF j
  <2>7. Known(b, env, more, l)
    BY <1>4, <2>3, <2>4, <2>5, <2>6 DEF Known, j
  <2> QED BY <2>7 DEF more
<1> QED BY <1>3, <1>4 DEF more

-----------------------------------------------------------------------------
(* Code that runs beside the machine. A set of moments, each the code left,  *)
(* the values on hand and a state of the machine, is a run when each moment  *)
(* goes on to moments in it, whatever the user's code comes to.              *)
Performs(b, item, vals, h) ==
    /\ AtEvent(h) /\ h.do = item.run /\ h.at = item.at /\ h.turn = item.turn
    /\ h.vals = Taken(vals, Operands(b, item))
    /\ item.run = "leaf" => Known(b, item.loop, h.pending, b[item.at].loop)
    /\ item.run # "leaf" => item.loop = <<>>
Goings(b, item, rest, vals, g, X) ==
    /\ ItemOK(item)
    /\ item.run = "push" => <<rest, Append(vals, item.v), g>> \in X
    /\ item.run = "pure" =>
          /\ Arity(b[item.at]) \in 0..Len(vals)
          /\ <<rest, Append(Left(vals, Arity(b[item.at])), Unit), g>> \in X
    /\ Runnable(item) =>
          /\ Operands(b, item) \in 0..Len(vals) /\ item.at \in DOMAIN b
          /\ \E h : /\ Star(b, g, h) /\ Performs(b, item, vals, h)
                    /\ \A out \in Values :
                          <<rest, Append(Left(vals, Operands(b, item)), out), Went(b, h, out)>> \in X
Moment(t) == t = <<t[1], t[2], t[3]>> /\ Listed(t[1]) /\ t[2] \in Seq(Values)
Run(b, X) ==
    \A t \in X : Moment(t) /\ (t[1] # <<>> => Goings(b, Head(t[1]), Tail(t[1]), t[2], t[3], X))

\* Where code may lead: to one value handed to what `stack` waits for; to the
\* operands of `n` before the `i`-th; to given values and a given state; to a
\* value the top continuation of `cs` takes.
ToValue(stack) == <<"value", stack>>
ToOperand(n, i, stack) == <<"operand", n, i, stack>>
ToState(vals, g) == <<"state", vals, g>>
ToCont(cs) == <<"cont", cs>>

\* The machine with the first operands of `n` evaluated.
Position(b, n, i, vals, stack) ==
    IF i <= Len(b[n].kids) THEN Eval(b[n].kids[i], Append(stack, Frame(n, i, vals, 0)))
    ELSE IF b[n].kind = "pure" THEN Yield(Unit, stack)
    ELSE Doing("op", n, vals, 0, stack)

\* What a running continuation goes on from. `Under`: the frame of `c` is `fr`.
Here(b, n, stack) == n = Awaited(b, stack) /\ n \in DOMAIN b /\ b[n].rec
Under(b, cs, n, stack, fr) ==
    /\ Standing(b, cs, stack) /\ Here(b, n, stack)
    /\ fr \in Frames /\ fr.at = n /\ fr.i \in DOMAIN b[n].kids
InsideLoop(b, cs, n, stack, fr) ==
    /\ cs # <<>> /\ Listed(cs) /\ Last(cs).f = "loop" /\ Last(cs).at = n /\ b[n].kind \in Looping
    /\ Under(b, Front(cs), n, stack, fr) /\ Turns(b, Last(cs), fr)

AfterTemp(b, cs, c, v, g) ==
    \E stack, fr :
        /\ Under(b, cs, c.at, stack, fr) /\ Star(b, g, Yield(v, Append(stack, fr)))
        /\ b[c.at].kind \in {"op", "pure", "rec"} /\ fr.i = c.i
        /\ Silent(b, c.acc, fr.vals) /\ Len(fr.vals) = c.i - 1
AfterFirst(b, cs, c, v, g, kinds) ==
    \E stack, fr :
        /\ Under(b, cs, c.at, stack, fr) /\ Star(b, g, Yield(v, Append(stack, fr)))
        /\ b[c.at].kind \in kinds /\ fr.i = 1
AfterStmt(b, cs, c, v, g) ==
    \E stack, fr :
        /\ Under(b, cs, c.at, stack, fr) /\ Star(b, g, Yield(v, Append(stack, fr)))
        /\ b[c.at].kind \in {"block", "stmts"} /\ fr.i = c.i /\ ~IsValue(b[c.at], fr.i)
After(b, cs, g, w) == \E stack : Standing(b, cs, stack) /\ Star(b, g, Yield(w, stack))
AfterTry(b, cs, v, g) == IF v = "yes" THEN After(b, cs, g, v) ELSE Star(b, g, End(v))
AfterIter(b, cs, c, g) ==
    \E stack, fr :
        /\ Under(b, cs, c.at, stack, fr) /\ b[c.at].kind \in Iterating
        /\ Star(b, g, Doing("next", c.at, <<>>, 0, Append(stack, fr)))
AfterTurn(b, cs, c, v, g) ==
    \E stack, fr :
        /\ InsideLoop(b, cs, c.at, stack, fr) /\ Star(b, g, Yield(v, Append(stack, fr)))
        /\ fr.i = IF b[c.at].kind = "loop" THEN 1 ELSE 2
AfterTest(b, cs, c, v, g) ==
    \E stack, fr :
        /\ InsideLoop(b, cs, c.at, stack, fr) /\ b[c.at].kind # "loop" /\ fr.i = 2
        /\ v = "yes" => Star(b, g, Eval(b[c.at].kids[2], Append(stack, fr)))
        /\ v = "no" => Star(b, g, Yield(Unit, stack))
Resumes(b, rest, c, v, g) ==
    \/ c.f = "temp" /\ AfterTemp(b, rest, c, v, g)
    \/ c.f = "called" /\ After(b, rest, g, v)
    \/ c.f = "branch" /\ AfterFirst(b, rest, c, v, g, {"if"})
    \/ c.f = "lazy" /\ AfterFirst(b, rest, c, v, g, {"and", "or"})
    \/ c.f = "rest" /\ AfterStmt(b, rest, c, v, g)
    \/ c.f = "finish" /\ Star(b, g, End(v))
    \/ c.f = "tried" /\ AfterTry(b, rest, v, g)
    \/ c.f = "assigned" /\ After(b, rest, g, Unit)
    \/ c.f = "looped" /\ AfterIter(b, rest, c, g)
    \/ c.f = "again" /\ AfterTurn(b, rest, c, v, g)
    \/ c.f \in {"step", "whether"} /\ AfterTest(b, rest, c, v, g)
Goes(b, cs, v, g) ==
    v \in Values /\ Listed(cs) /\ cs # <<>> /\ Resumes(b, Front(cs), Last(cs), v, g)

Reached(b, goal, vals, g) ==
    \/ goal[1] = "value" /\ \E v \in Values : vals = <<v>> /\ Star(b, g, Yield(v, goal[2]))
    \/ /\ goal[1] = "operand" /\ Len(vals) = goal[3] - 1
       /\ Star(b, g, Position(b, goal[2], goal[3], vals, goal[4]))
    \/ goal[1] = "state" /\ vals = goal[2] /\ g = goal[3]
    \/ goal[1] = "cont" /\ \E v \in Values : vals = <<v>> /\ Goes(b, goal[2], v, g)

Follows(b, code, vals, g, goal) ==
    \E X : /\ Run(b, X) /\ <<code, vals, g>> \in X
           /\ \A t \in X : t[1] = <<>> => Reached(b, goal, t[2], t[3])

\* What each of the goals says.
LEMMA ReachedValue ==
  ASSUME NEW b, NEW stack, NEW vals, NEW g
  PROVE  Reached(b, ToValue(stack), vals, g) <=>
            \E v \in Values : vals = <<v>> /\ Star(b, g, Yield(v, stack))
BY DEF Reached, ToValue

\* The operands of an expression are evaluated up to one of them.
LEMMA ReachedOperand ==
  ASSUME NEW b, NEW n, NEW i, NEW stack, NEW vals, NEW g
  PROVE  Reached(b, ToOperand(n, i, stack), vals, g) <=>
            Len(vals) = i - 1 /\ Star(b, g, Position(b, n, i, vals, stack))
BY DEF Reached, ToOperand

\* The values and the state are the ones given.
LEMMA ReachedState ==
  ASSUME NEW b, NEW vs, NEW s, NEW vals, NEW g
  PROVE  Reached(b, ToState(vs, s), vals, g) <=> vals = vs /\ g = s
BY DEF Reached, ToState

\* A continuation takes the value.
LEMMA ReachedCont ==
  ASSUME NEW b, NEW cs, NEW vals, NEW g
  PROVE  Reached(b, ToCont(cs), vals, g) <=>
            \E v \in Values : vals = <<v>> /\ Goes(b, cs, v, g)
BY DEF Reached, ToCont

\* A moment is its three parts.
LEMMA MomentParts ==
  ASSUME NEW x, NEW y, NEW z
  PROVE  <<x, y, z>>[1] = x /\ <<x, y, z>>[2] = y /\ <<x, y, z>>[3] = z
OBVIOUS

\* More moments harm no run.
LEMMA GoingsMore ==
  ASSUME NEW b, NEW item, NEW rest, NEW vals, NEW g, NEW X, NEW Y, X \subseteq Y,
         Goings(b, item, rest, vals, g, X)
  PROVE  Goings(b, item, rest, vals, g, Y)
BY DEF Goings

\* Runs taken together are a run.
LEMMA RunUnion ==
  ASSUME NEW b, NEW XS, \A X \in XS : Run(b, X)
  PROVE  Run(b, UNION XS)
<1> SUFFICES ASSUME NEW t \in UNION XS
             PROVE  /\ Moment(t)
                    /\ t[1] # <<>> => Goings(b, Head(t[1]), Tail(t[1]), t[2], t[3], UNION XS)
  BY DEF Run
<1>1. PICK X \in XS : t \in X
  OBVIOUS
<1>2. Moment(t) /\ (t[1] # <<>> => Goings(b, Head(t[1]), Tail(t[1]), t[2], t[3], X))
  BY <1>1 DEF Run
<1>3. X \subseteq UNION XS
  OBVIOUS
<1> QED BY <1>2, <1>3, GoingsMore

\* What code does first.
Starts(b, item, rest, vals, g, goal) ==
    /\ ItemOK(item)
    /\ item.run = "push" => Follows(b, rest, Append(vals, item.v), g, goal)
    /\ item.run = "pure" =>
          /\ Arity(b[item.at]) \in 0..Len(vals)
          /\ Follows(b, rest, Append(Left(vals, Arity(b[item.at])), Unit), g, goal)
    /\ Runnable(item) =>
          /\ Operands(b, item) \in 0..Len(vals) /\ item.at \in DOMAIN b
          /\ \E h : /\ Star(b, g, h) /\ Performs(b, item, vals, h)
                    /\ \A out \in Values :
                          Follows(b, rest, Append(Left(vals, Operands(b, item)), out),
                                  Went(b, h, out), goal)

\* Code that leads to a goal is there, or leads to it from its first item.
LEMMA FollowsNow ==
  ASSUME NEW b, NEW code, NEW vals, NEW g, NEW goal, Follows(b, code, vals, g, goal)
  PROVE  /\ Listed(code) /\ vals \in Seq(Values)
         /\ code = <<>> => Reached(b, goal, vals, g)
         /\ code # <<>> => Starts(b, Head(code), Tail(code), vals, g, goal)
<1>1. PICK X : /\ Run(b, X) /\ <<code, vals, g>> \in X
               /\ \A t \in X : t[1] = <<>> => Reached(b, goal, t[2], t[3])
  BY DEF Follows
<1> DEFINE t == <<code, vals, g>>
<1>2. t[1] = code /\ t[2] = vals /\ t[3] = g
  BY MomentParts
<1>3. t \in X
  BY <1>1
<1> HIDE DEF t
<1>4. Moment(t) /\ (t[1] # <<>> => Goings(b, Head(t[1]), Tail(t[1]), t[2], t[3], X))
  BY <1>1, <1>3 DEF Run
<1>5. Listed(code) /\ vals \in Seq(Values)
  BY <1>2, <1>4 DEF Moment
<1>6. code = <<>> => Reached(b, goal, vals, g)
  BY <1>1, <1>2, <1>3
<1>7. \A c, w, s : <<c, w, s>> \in X => Follows(b, c, w, s, goal)
  BY <1>1 DEF Follows
<1>8. ASSUME code # <<>> PROVE Starts(b, Head(code), Tail(code), vals, g, goal)
  <2>1. Goings(b, Head(code), Tail(code), vals, g, X)
    BY <1>2, <1>4, <1>8
  <2> DEFINE item == Head(code)
             rest == Tail(code)
  <2> HIDE DEF item, rest
  <2>2. Goings(b, item, rest, vals, g, X)
    BY <2>1 DEF item, rest
  <2>3. Starts(b, item, rest, vals, g, goal)
    BY <1>7, <2>2 DEF Goings, Starts
  <2> QED BY <2>3 DEF item, rest
<1> QED BY <1>5, <1>6, <1>8

\* Without code left, the goal is reached.
LEMMA FollowsEnd ==
  ASSUME NEW b, NEW vals \in Seq(Values), NEW g, NEW goal, Reached(b, goal, vals, g)
  PROVE  Follows(b, <<>>, vals, g, goal)
<1> DEFINE t == << <<>>, vals, g >>
<1>1. t[1] = <<>> /\ t[2] = vals /\ t[3] = g /\ Moment(t)
  <2>1. Listed(<<>>)
    BY EmptySeq DEF Listed
  <2> QED BY <2>1, MomentParts DEF Moment
<1> HIDE DEF t
<1>2. Run(b, {t}) /\ t \in {t} /\ \A s \in {t} : s[1] = <<>> => Reached(b, goal, s[2], s[3])
  BY <1>1 DEF Run
<1> QED BY <1>2 DEF Follows, t

\* Code leads to a goal when it does from its first item.
LEMMA FollowsBack ==
  ASSUME NEW b, NEW code, Listed(code), code # <<>>, NEW vals \in Seq(Values), NEW g, NEW goal,
         Starts(b, Head(code), Tail(code), vals, g, goal)
  PROVE  Follows(b, code, vals, g, goal)
<1> DEFINE item == Head(code)
           rest == Tail(code)
           n == Operands(b, item)
           a == Arity(b[item.at])
           Good(X, c, w, s) == /\ Run(b, X) /\ <<c, w, s>> \in X
                               /\ \A m \in X : m[1] = <<>> => Reached(b, goal, m[2], m[3])
           Of(c, w, s) == CHOOSE X : Good(X, c, w, s)
           t == <<code, vals, g>>
<1>1. \A c, w, s : Follows(b, c, w, s, goal) => Good(Of(c, w, s), c, w, s)
  BY DEF Follows
<1>2. t[1] = code /\ t[2] = vals /\ t[3] = g /\ Moment(t)
  BY MomentParts DEF Moment
<1> HIDE DEF t, Of
<1>3. ASSUME NEW XS, \A X \in XS : Run(b, X) /\ \A m \in X : m[1] = <<>> => Reached(b, goal, m[2], m[3]),
             Goings(b, item, rest, vals, g, UNION XS)
      PROVE  Follows(b, code, vals, g, goal)
  <2> DEFINE Y == (UNION XS) \union {t}
  <2>1. Run(b, UNION XS)
    BY <1>3, RunUnion
  <2>2. UNION XS \subseteq Y
    OBVIOUS
  <2>3. Goings(b, item, rest, vals, g, Y)
    BY <1>3, <2>2, GoingsMore
  <2>4. Run(b, Y)
    <3> SUFFICES ASSUME NEW m \in Y
                 PROVE  Moment(m) /\ (m[1] # <<>> => Goings(b, Head(m[1]), Tail(m[1]), m[2], m[3], Y))
      BY DEF Run
    <3>1. CASE m = t
      BY <1>2, <2>3, <3>1
    <3>2. CASE m \in UNION XS
      <4>1. Moment(m) /\ (m[1] # <<>> => Goings(b, Head(m[1]), Tail(m[1]), m[2], m[3], UNION XS))
        BY <2>1, <3>2 DEF Run
      <4> QED BY <2>2, <4>1, GoingsMore
    <3> QED BY <3>1, <3>2
  <2>5. \A m \in Y : m[1] = <<>> => Reached(b, goal, m[2], m[3])
    BY <1>2, <1>3
  <2>6. t \in Y
    OBVIOUS
  <2> HIDE DEF Y
  <2> QED BY <2>4, <2>5, <2>6 DEF Follows, t
<1>4. Starts(b, item, rest, vals, g, goal)
  OBVIOUS
<1>5. ItemOK(item)
  BY <1>4 DEF Starts
<1> HIDE DEF item, rest, n, a, Good
<1>6. CASE item.run = "push"
  <2> DEFINE X == Of(rest, Append(vals, item.v), g)
  <2>1. Good(X, rest, Append(vals, item.v), g)
    BY <1>1, <1>4, <1>6 DEF Starts
  <2> HIDE DEF X
  <2> DEFINE XS == {X}
  <2>2. Goings(b, item, rest, vals, g, UNION XS)
    BY <1>5, <1>6, <2>1 DEF Goings, Good, Runnable
  <2>3. \A Z \in XS : Run(b, Z) /\ \A m \in Z : m[1] = <<>> => Reached(b, goal, m[2], m[3])
    BY <2>1 DEF Good
  <2> HIDE DEF XS
  <2> QED BY <1>3, <2>2, <2>3
<1>7. CASE item.run = "pure"
  <2> DEFINE X == Of(rest, Append(Left(vals, a), Unit), g)
  <2>1. Good(X, rest, Append(Left(vals, a), Unit), g) /\ a \in 0..Len(vals)
    BY <1>1, <1>4, <1>7 DEF Starts, a
  <2> HIDE DEF X
  <2> DEFINE XS == {X}
  <2>2. Goings(b, item, rest, vals, g, UNION XS)
    BY <1>5, <1>7, <2>1 DEF Goings, Good, Runnable, a
  <2>3. \A Z \in XS : Run(b, Z) /\ \A m \in Z : m[1] = <<>> => Reached(b, goal, m[2], m[3])
    BY <2>1 DEF Good
  <2> HIDE DEF XS
  <2> QED BY <1>3, <2>2, <2>3
<1>8. CASE Runnable(item)
  <2>1. n \in 0..Len(vals) /\ item.at \in DOMAIN b
    BY <1>4, <1>8 DEF Starts, n
  <2>2. PICK h : /\ Star(b, g, h) /\ Performs(b, item, vals, h)
                 /\ \A out \in Values : Follows(b, rest, Append(Left(vals, n), out), Went(b, h, out), goal)
    BY <1>4, <1>8 DEF Starts, n
  <2> DEFINE X(out) == Of(rest, Append(Left(vals, n), out), Went(b, h, out))
             XS == {X(out) : out \in Values}
  <2>3. \A out \in Values : Good(X(out), rest, Append(Left(vals, n), out), Went(b, h, out))
    BY <1>1, <2>2
  <2> HIDE DEF X
  <2>4. \A out \in Values : <<rest, Append(Left(vals, n), out), Went(b, h, out)>> \in UNION XS
    BY <2>3 DEF Good
  <2>5. \A Z \in XS : Run(b, Z) /\ \A m \in Z : m[1] = <<>> => Reached(b, goal, m[2], m[3])
    BY <2>3 DEF Good
  <2> HIDE DEF XS
  <2>6. item.run # "push" /\ item.run # "pure"
    BY <1>8 DEF Runnable
  <2>7. Goings(b, item, rest, vals, g, UNION XS)
    BY <1>5, <2>1, <2>2, <2>4, <2>6 DEF Goings, n
  <2> QED BY <1>3, <2>5, <2>7
<1> QED BY <1>5, <1>6, <1>7, <1>8 DEF ItemOK, Runnable

\* What follows the moments may change.
LEMMA GoingsMap ==
  ASSUME NEW b, NEW item, NEW rest, NEW vals, NEW g, NEW X, NEW rest2, NEW Y,
         \A w, s : <<rest, w, s>> \in X => <<rest2, w, s>> \in Y,
         Goings(b, item, rest, vals, g, X)
  PROVE  Goings(b, item, rest2, vals, g, Y)
BY DEF Goings

\* Code that goes on with more code.
LEMMA FollowsJoin ==
  ASSUME NEW b, NEW code, NEW vals, NEW g, NEW goal, Follows(b, code, vals, g, goal),
         NEW more, Listed(more), NEW goal2,
         \A w \in Seq(Values) : \A h : Reached(b, goal, w, h) => Follows(b, more, w, h, goal2)
  PROVE  Follows(b, code \o more, vals, g, goal2)
<1>1. PICK X : /\ Run(b, X) /\ <<code, vals, g>> \in X
               /\ \A t \in X : t[1] = <<>> => Reached(b, goal, t[2], t[3])
  BY DEF Follows
<1> DEFINE Good(Z, w, s) == /\ Run(b, Z) /\ <<more, w, s>> \in Z
                            /\ \A m \in Z : m[1] = <<>> => Reached(b, goal2, m[2], m[3])
           Of(t) == CHOOSE Z : Good(Z, t[2], t[3])
           F == {t \in X : t[1] = <<>>}
           longer(t) == <<t[1] \o more, t[2], t[3]>>
           L == {longer(t) : t \in X}
           U == UNION {Of(t) : t \in F}
           Y == L \union U
<1>2. \A t \in X : Moment(t) /\ (t[1] # <<>> => Goings(b, Head(t[1]), Tail(t[1]), t[2], t[3], X))
  BY <1>1 DEF Run
<1>3. \A t \in F : Good(Of(t), t[2], t[3])
  <2> TAKE t \in F
  <2>1. t[2] \in Seq(Values) /\ Reached(b, goal, t[2], t[3])
    BY <1>1, <1>2 DEF Moment
  <2>2. Follows(b, more, t[2], t[3], goal2)
    BY <2>1
  <2>3. \E Z : Good(Z, t[2], t[3])
    BY <2>2 DEF Follows
  <2> QED BY <2>3
<1> HIDE DEF Of
<1>4. Run(b, U)
  <2>1. \A Z \in {Of(t) : t \in F} : Run(b, Z)
    BY <1>3
  <2> QED BY <2>1, RunUnion
<1>5. \A m \in U : m[1] = <<>> => Reached(b, goal2, m[2], m[3])
  BY <1>3
<1>6. \A t \in F : <<more, t[2], t[3]>> \in U
  BY <1>3
<1> HIDE DEF U, Good
<1>7. \A t \in X : /\ longer(t)[1] = t[1] \o more /\ longer(t)[2] = t[2] /\ longer(t)[3] = t[3]
  BY MomentParts
<1>8. \A t \in X : t[1] = <<>> => longer(t) \in U
  <2> TAKE t \in X
  <2> HAVE t[1] = <<>>
  <2>1. t[1] \o more = more
    BY ListJoin, <1>2 DEF Moment
  <2>2. t \in F
    OBVIOUS
  <2> QED BY <1>6, <2>1, <2>2
<1>9. \A t \in X : t[1] # <<>> =>
         /\ t[1] \o more # <<>>
         /\ Head(t[1] \o more) = Head(t[1]) /\ Tail(t[1] \o more) = Tail(t[1]) \o more
  BY <1>2, ListFirst DEF Moment
<1>10. ASSUME NEW t \in X
       PROVE  /\ Moment(longer(t))
              /\ t[1] # <<>> => Goings(b, Head(t[1]), Tail(t[1]) \o more, t[2], t[3], Y)
  <2>1. Listed(t[1] \o more) /\ t[2] \in Seq(Values)
    BY <1>2, ListJoin DEF Moment
  <2>2. Moment(longer(t))
    BY <1>7, <2>1 DEF Moment
  <2>3. ASSUME t[1] # <<>> PROVE Goings(b, Head(t[1]), Tail(t[1]) \o more, t[2], t[3], Y)
    <3> DEFINE item == Head(t[1])
               rest == Tail(t[1])
    <3>1. Goings(b, item, rest, t[2], t[3], X)
      BY <1>2, <2>3
    <3> HIDE DEF item, rest
    <3>2. \A w, s : <<rest, w, s>> \in X => <<rest \o more, w, s>> \in Y
      <4> SUFFICES ASSUME NEW w, NEW s, <<rest, w, s>> \in X PROVE <<rest \o more, w, s>> \in L
        OBVIOUS
      <4>1. longer(<<rest, w, s>>) = <<rest \o more, w, s>>
        BY MomentParts
      <4> QED BY <4>1
    <3> HIDE DEF Y
    <3>3. Goings(b, item, rest \o more, t[2], t[3], Y)
      BY <3>1, <3>2, GoingsMap
    <3> QED BY <3>3 DEF item, rest
  <2> QED BY <2>2, <2>3
<1>11. Run(b, Y)
  <2> SUFFICES ASSUME NEW m \in Y
               PROVE  Moment(m) /\ (m[1] # <<>> => Goings(b, Head(m[1]), Tail(m[1]), m[2], m[3], Y))
    BY DEF Run
  <2>1. CASE m \in U
    <3>1. Moment(m) /\ (m[1] # <<>> => Goings(b, Head(m[1]), Tail(m[1]), m[2], m[3], U))
      BY <1>4, <2>1 DEF Run
    <3>2. U \subseteq Y
      OBVIOUS
    <3> HIDE DEF Y
    <3> QED BY <3>1, <3>2, GoingsMore
  <2>2. CASE m \in L
    <3>1. PICK t \in X : m = longer(t)
      BY <2>2
    <3>2. CASE t[1] = <<>>
      BY <1>8, <2>1, <3>1, <3>2
    <3>3. CASE t[1] # <<>>
      <4>1. m[1] = t[1] \o more /\ m[2] = t[2] /\ m[3] = t[3]
        BY <1>7, <3>1
      <4>2. Head(m[1]) = Head(t[1]) /\ Tail(m[1]) = Tail(t[1]) \o more
        BY <1>9, <3>3, <4>1
      <4>3. Moment(m) /\ Goings(b, Head(t[1]), Tail(t[1]) \o more, t[2], t[3], Y)
        BY <1>10, <3>1, <3>3
      <4> HIDE DEF Y
      <4> QED BY <4>1, <4>2, <4>3
    <3> QED BY <3>2, <3>3
  <2> QED BY <2>1, <2>2
<1>12. \A m \in Y : m[1] = <<>> => Reached(b, goal2, m[2], m[3])
  <2> TAKE m \in Y
  <2> HAVE m[1] = <<>>
  <2>1. CASE m \in L
    <3>1. PICK t \in X : m = longer(t)
      BY <2>1
    <3>2. t[1] = <<>>
      BY <1>7, <1>9, <3>1
    <3> QED BY <1>5, <1>8, <3>1, <3>2
  <2> QED BY <1>5, <2>1
<1>13. <<code \o more, vals, g>> \in Y
  <2>1. longer(<<code, vals, g>>) = <<code \o more, vals, g>>
    BY MomentParts
  <2> QED BY <1>1, <2>1
<1> HIDE DEF Y
<1> QED BY <1>11, <1>12, <1>13 DEF Follows

\* Values below those the code works on.
LEMMA OnTop ==
  ASSUME NEW under \in Seq(Values), NEW w \in Seq(Values)
  PROVE  /\ under \o w \in Seq(Values) /\ Len(w) \in Nat /\ Len(under \o w) = Len(under) + Len(w)
         /\ \A x \in Values : Append(under \o w, x) = under \o Append(w, x)
         /\ \A n \in 0..Len(w) : /\ n \in 0..Len(under \o w)
                                 /\ Taken(under \o w, n) = Taken(w, n)
                                 /\ Left(under \o w, n) = under \o Left(w, n)
                                 /\ Left(w, n) \in Seq(Values) /\ Len(Left(w, n)) = Len(w) - n
<1> DEFINE j == under \o w
<1>1. /\ j \in Seq(Values) /\ Len(w) \in Nat /\ Len(under) \in Nat /\ Len(j) = Len(under) + Len(w)
      /\ \A i \in 1..(Len(under) + Len(w)) :
            j[i] = IF i <= Len(under) THEN under[i] ELSE w[i - Len(under)]
  BY ConcatProperties, LenProperties
<1>2. Listed(j) /\ Listed(under) /\ Listed(w)
  BY <1>1 DEF Listed
<1>3. ASSUME NEW x \in Values PROVE Append(j, x) = under \o Append(w, x)
  <2>1. /\ Append(j, x) = j \o <<x>> /\ Append(w, x) = w \o <<x>>
        /\ <<x>> \in Seq(Values)
    BY <1>1, AppendIsConcat
  <2>2. j \o <<x>> = under \o (w \o <<x>>)
    BY <2>1, ConcatAssociative
  <2> QED BY <2>1, <2>2
<1>4. ASSUME NEW n \in 0..Len(w)
      PROVE  /\ n \in 0..Len(j) /\ Taken(j, n) = Taken(w, n)
             /\ Left(j, n) = under \o Left(w, n)
             /\ Left(w, n) \in Seq(Values) /\ Len(Left(w, n)) = Len(w) - n
  <2>1. n \in Nat /\ n <= Len(w) /\ n \in 0..Len(j) /\ Len(w) - n \in 0..Len(w) /\ Len(j) - n \in 0..Len(j)
    BY <1>1
  <2>2. Left(w, n) \in Seq(Values) /\ Len(Left(w, n)) = Len(w) - n
        /\ \A i \in 1..(Len(w) - n) : Left(w, n)[i] = w[i]
    <3>1. \A i \in 1..(Len(w) - n) : w[i] \in Values
      <4>1. \A i \in 1..(Len(w) - n) : i \in 1..Len(w)
        BY <1>1, <2>1
      <4> QED BY <4>1, ElementOfSeq
    <3>2. SubSeq(w, 1, Len(w) - n) \in Seq(Values)
      BY <2>1, <3>1, SubSeqProperties
    <3> QED BY <1>2, <2>1, <3>2, ListPart DEF Left
  <2>3. /\ Listed(Left(j, n)) /\ Len(Left(j, n)) = Len(j) - n
        /\ \A i \in 1..(Len(j) - n) : Left(j, n)[i] = j[i]
    BY <1>2, <2>1, ListPart DEF Left
  <2> DEFINE r == under \o Left(w, n)
  <2>4. /\ Listed(r) /\ Len(r) = Len(under) + (Len(w) - n)
        /\ \A i \in 1..Len(under) : r[i] = under[i]
        /\ \A i \in 1..(Len(w) - n) : r[Len(under) + i] = w[i]
    <3>1. Listed(Left(w, n))
      BY <2>2 DEF Listed
    <3>2. /\ Listed(r) /\ Len(r) = Len(under) + Len(Left(w, n))
          /\ \A i \in 1..Len(under) : r[i] = under[i]
          /\ \A i \in 1..Len(Left(w, n)) : r[Len(under) + i] = Left(w, n)[i]
      BY <1>2, <3>1, ListJoin
    <3> QED BY <2>2, <3>2
  <2> HIDE DEF r
  <2>5. \A i \in 1..(Len(j) - n) : Left(j, n)[i] = r[i]
    <3> TAKE i \in 1..(Len(j) - n)
    <3>1. Left(j, n)[i] = j[i] /\ i \in 1..(Len(under) + Len(w))
      BY <1>1, <2>1, <2>3
    <3>2. CASE i <= Len(under)
      <4>1. i \in 1..Len(under)
        BY <1>1, <2>1, <3>2
      <4> QED BY <1>1, <2>4, <3>1, <3>2, <4>1
    <3>3. CASE ~(i <= Len(under))
      <4>1. i - Len(under) \in 1..(Len(w) - n) /\ Len(under) + (i - Len(under)) = i
        BY <1>1, <2>1, <3>1, <3>3
      <4>2. r[Len(under) + (i - Len(under))] = w[i - Len(under)]
        BY <2>4, <4>1
      <4> QED BY <1>1, <3>1, <3>3, <4>1, <4>2
    <3> QED BY <3>2, <3>3
  <2>6. Left(j, n) = r
    <3>1. Len(j) - n = Len(under) + (Len(w) - n)
      BY <1>1, <2>1
    <3> QED BY <2>3, <2>4, <2>5, <3>1, ListSame
  <2>7. Taken(j, n) = Taken(w, n)
    <3> DEFINE p == Len(j) - n + 1
               q == Len(w) - n + 1
    <3>1. p \in Int /\ q \in Int /\ Len(j) \in Int /\ Len(w) \in Int /\ Len(j) - p + 1 = n /\ Len(w) - q + 1 = n
      BY <1>1, <2>1
    <3>2. \A i \in p..Len(j) : j[i] \in Values
      <4>1. \A i \in p..Len(j) : i \in 1..Len(j)
        BY <1>1, <2>1
      <4> QED BY <1>1, <4>1, ElementOfSeq
    <3>3. \A i \in q..Len(w) : w[i] \in Values
      <4>1. \A i \in q..Len(w) : i \in 1..Len(w)
        BY <1>1, <2>1
      <4> QED BY <4>1, ElementOfSeq
    <3>4. /\ Taken(j, n) \in Seq(Values)
          /\ Len(Taken(j, n)) = (IF p <= Len(j) THEN Len(j) - p + 1 ELSE 0)
          /\ \A i \in 1..(Len(j) - p + 1) : Taken(j, n)[i] = j[p + i - 1]
      BY <3>1, <3>2, SubSeqProperties DEF Taken
    <3>5. /\ Taken(w, n) \in Seq(Values)
          /\ Len(Taken(w, n)) = (IF q <= Len(w) THEN Len(w) - q + 1 ELSE 0)
          /\ \A i \in 1..(Len(w) - q + 1) : Taken(w, n)[i] = w[q + i - 1]
      BY <3>1, <3>3, SubSeqProperties DEF Taken
    <3>6. Len(Taken(j, n)) = n /\ Len(Taken(w, n)) = n
      BY <2>1, <3>1, <3>4, <3>5
    <3>7. \A i \in 1..n : Taken(j, n)[i] = Taken(w, n)[i]
      <4> TAKE i \in 1..n
      <4>1. /\ p + i - 1 \in 1..(Len(under) + Len(w)) /\ ~(p + i - 1 <= Len(under))
            /\ p + i - 1 - Len(under) = q + i - 1
        BY <1>1, <2>1
      <4>2. j[p + i - 1] = w[p + i - 1 - Len(under)]
        BY <1>1, <4>1
      <4>3. Taken(j, n)[i] = j[p + i - 1] /\ Taken(w, n)[i] = w[q + i - 1]
        BY <3>1, <3>4, <3>5
      <4> QED BY <4>1, <4>2, <4>3
    <3> QED BY <3>4, <3>5, <3>6, <3>7, SeqEqual
  <2> QED BY <2>1, <2>2, <2>6, <2>7 DEF r
<1> QED BY <1>1, <1>3, <1>4

\* Values below change nothing for code that does not reach them.
LEMMA GoingsLift ==
  ASSUME NEW b, NEW item, NEW rest, NEW under \in Seq(Values), NEW vals \in Seq(Values), NEW g,
         NEW X, NEW Y, Goings(b, item, rest, vals, g, X),
         \A w \in Seq(Values) : \A s : <<rest, w, s>> \in X => <<rest, under \o w, s>> \in Y
  PROVE  Goings(b, item, rest, under \o vals, g, Y)
<1> DEFINE more == under \o vals
           n == Operands(b, item)
           a == Arity(b[item.at])
<1>1. /\ more \in Seq(Values)
      /\ \A x \in Values : Append(more, x) = under \o Append(vals, x)
      /\ \A k \in 0..Len(vals) : /\ k \in 0..Len(more)
                                 /\ Taken(more, k) = Taken(vals, k)
                                 /\ Left(more, k) = under \o Left(vals, k)
                                 /\ Left(vals, k) \in Seq(Values)
  BY OnTop
<1> HIDE DEF more, n, a
<1>2. \A k \in 0..Len(vals) : \A x \in Values :
         /\ Append(Left(more, k), x) = under \o Append(Left(vals, k), x)
         /\ Append(Left(vals, k), x) \in Seq(Values)
  <2> TAKE k \in 0..Len(vals)
  <2> TAKE x \in Values
  <2>1. Left(vals, k) \in Seq(Values) /\ Left(more, k) = under \o Left(vals, k)
    BY <1>1
  <2>2. Append(under \o Left(vals, k), x) = under \o Append(Left(vals, k), x)
    BY <2>1, OnTop
  <2>3. Append(Left(vals, k), x) \in Seq(Values)
    BY <2>1, AppendProperties
  <2> QED BY <2>1, <2>2, <2>3
<1>3. ItemOK(item) /\ item.v \in Values
  BY DEF Goings, ItemOK
<1>4. ASSUME item.run = "push" PROVE <<rest, Append(more, item.v), g>> \in Y
  <2>1. <<rest, Append(vals, item.v), g>> \in X /\ Append(vals, item.v) \in Seq(Values)
    BY <1>3, <1>4, AppendProperties DEF Goings
  <2> QED BY <1>1, <1>3, <2>1
<1>5. ASSUME item.run = "pure"
      PROVE  a \in 0..Len(more) /\ <<rest, Append(Left(more, a), Unit), g>> \in Y
  <2>1. a \in 0..Len(vals) /\ <<rest, Append(Left(vals, a), Unit), g>> \in X
    BY <1>5 DEF Goings, a
  <2>2. Unit \in Values
    BY DEF Unit, Values
  <2>3. /\ Append(Left(more, a), Unit) = under \o Append(Left(vals, a), Unit)
        /\ Append(Left(vals, a), Unit) \in Seq(Values)
    BY <1>2, <2>1, <2>2
  <2> QED BY <1>1, <2>1, <2>3
<1>6. ASSUME Runnable(item)
      PROVE  /\ n \in 0..Len(more) /\ item.at \in DOMAIN b
             /\ \E h : /\ Star(b, g, h) /\ Performs(b, item, more, h)
                       /\ \A out \in Values : <<rest, Append(Left(more, n), out), Went(b, h, out)>> \in Y
  <2>1. n \in 0..Len(vals) /\ item.at \in DOMAIN b
    BY <1>6 DEF Goings, n
  <2>2. PICK h : /\ Star(b, g, h) /\ Performs(b, item, vals, h)
                 /\ \A out \in Values : <<rest, Append(Left(vals, n), out), Went(b, h, out)>> \in X
    BY <1>6 DEF Goings, n
  <2>3. Taken(more, n) = Taken(vals, n) /\ n \in 0..Len(more)
    BY <1>1, <2>1
  <2>4. Performs(b, item, more, h)
    BY <2>2, <2>3 DEF Performs, n
  <2>5. \A out \in Values : <<rest, Append(Left(more, n), out), Went(b, h, out)>> \in Y
    <3> TAKE out \in Values
    <3>1. /\ Append(Left(more, n), out) = under \o Append(Left(vals, n), out)
          /\ Append(Left(vals, n), out) \in Seq(Values)
      BY <1>2, <2>1
    <3>2. <<rest, Append(Left(vals, n), out), Went(b, h, out)>> \in X
      BY <2>2
    <3> QED BY <3>1, <3>2
  <2> QED BY <2>1, <2>2, <2>3, <2>4, <2>5
<1>7. Goings(b, item, rest, more, g, Y)
  BY <1>3, <1>4, <1>5, <1>6 DEF Goings, n, a
<1> QED BY <1>7 DEF more

\* The same of the whole code.
LEMMA FollowsLift ==
  ASSUME NEW b, NEW code, NEW vals, NEW g, NEW goal, Follows(b, code, vals, g, goal),
         NEW under \in Seq(Values), NEW goal2,
         \A w \in Seq(Values) : \A h : Reached(b, goal, w, h) => Reached(b, goal2, under \o w, h)
  PROVE  Follows(b, code, under \o vals, g, goal2)
<1>1. PICK X : /\ Run(b, X) /\ <<code, vals, g>> \in X
               /\ \A t \in X : t[1] = <<>> => Reached(b, goal, t[2], t[3])
  BY DEF Follows
<1> DEFINE lifted(t) == <<t[1], under \o t[2], t[3]>>
           Y == {lifted(t) : t \in X}
<1>2. \A t \in X : Moment(t) /\ (t[1] # <<>> => Goings(b, Head(t[1]), Tail(t[1]), t[2], t[3], X))
  BY <1>1 DEF Run
<1>3. \A t \in X : lifted(t)[1] = t[1] /\ lifted(t)[2] = under \o t[2] /\ lifted(t)[3] = t[3]
  BY MomentParts
<1>4. \A r, w, s : <<r, w, s>> \in X => <<r, under \o w, s>> \in Y
  <2> TAKE r, w, s
  <2> HAVE <<r, w, s>> \in X
  <2>1. lifted(<<r, w, s>>) = <<r, under \o w, s>>
    BY MomentParts
  <2> QED BY <2>1
<1> HIDE DEF lifted
<1>5. ASSUME NEW t \in X
      PROVE  /\ Moment(lifted(t))
             /\ t[1] # <<>> => Goings(b, Head(t[1]), Tail(t[1]), under \o t[2], t[3], Y)
             /\ t[1] = <<>> => Reached(b, goal2, under \o t[2], t[3])
  <2>1. Moment(t) /\ Listed(t[1]) /\ t[2] \in Seq(Values)
    BY <1>2 DEF Moment
  <2>2. under \o t[2] \in Seq(Values)
    BY <2>1, OnTop
  <2>3. lifted(t) = <<t[1], under \o t[2], t[3]>>
    BY DEF lifted
  <2>4. Moment(lifted(t))
    BY <1>3, <2>1, <2>2, <2>3 DEF Moment
  <2>5. ASSUME t[1] # <<>> PROVE Goings(b, Head(t[1]), Tail(t[1]), under \o t[2], t[3], Y)
    <3> DEFINE item == Head(t[1])
               rest == Tail(t[1])
    <3>1. Goings(b, item, rest, t[2], t[3], X)
      BY <1>2, <2>5
    <3> HIDE DEF item, rest, Y
    <3>2. \A w \in Seq(Values) : \A s : <<rest, w, s>> \in X => <<rest, under \o w, s>> \in Y
      BY <1>4
    <3>3. Goings(b, item, rest, under \o t[2], t[3], Y)
      BY <2>1, <3>1, <3>2, GoingsLift
    <3> QED BY <3>3 DEF item, rest
  <2>6. t[1] = <<>> => Reached(b, goal2, under \o t[2], t[3])
    BY <1>1, <2>1
  <2> QED BY <2>4, <2>5, <2>6
<1>6. Run(b, Y)
  <2> SUFFICES ASSUME NEW t \in X
               PROVE  /\ Moment(lifted(t))
                      /\ lifted(t)[1] # <<>> => Goings(b, Head(lifted(t)[1]), Tail(lifted(t)[1]),
                                                       lifted(t)[2], lifted(t)[3], Y)
    BY DEF Run
  <2> HIDE DEF Y
  <2> QED BY <1>3, <1>5
<1>7. \A m \in Y : m[1] = <<>> => Reached(b, goal2, m[2], m[3])
  <2> TAKE m \in Y
  <2>1. PICK t \in X : m = lifted(t)
    OBVIOUS
  <2> HIDE DEF Y
  <2>2. m[1] = t[1] /\ m[2] = under \o t[2] /\ m[3] = t[3]
    BY <1>3, <2>1
  <2> QED BY <1>5, <2>2
<1>8. <<code, under \o vals, g>> \in Y
  BY <1>1, <1>4
<1> HIDE DEF Y
<1> QED BY <1>6, <1>7, <1>8 DEF Follows

\* A goal that holds of more.
LEMMA FollowsTo ==
  ASSUME NEW b, NEW code, NEW vals, NEW g, NEW goal, Follows(b, code, vals, g, goal),
         NEW goal2, \A w \in Seq(Values) : \A h : Reached(b, goal, w, h) => Reached(b, goal2, w, h)
  PROVE  Follows(b, code, vals, g, goal2)
<1>1. vals \in Seq(Values)
  BY FollowsNow
<1>2. <<>> \in Seq(Values) /\ \A w \in Seq(Values) : <<>> \o w = w
  BY EmptySeq, ConcatEmptySeq
<1>3. \A w \in Seq(Values) : \A h : Reached(b, goal, w, h) => Reached(b, goal2, <<>> \o w, h)
  BY <1>2
<1>4. Follows(b, code, <<>> \o vals, g, goal2)
  BY <1>2, <1>3, FollowsLift
<1> QED BY <1>1, <1>2, <1>4

\* A list without its start.
LEMMA ListRest ==
  ASSUME NEW s, Listed(s), NEW k \in 1..(Len(s) + 1)
  PROVE  /\ Listed(SubSeq(s, k, Len(s)))
         /\ k = 1 => SubSeq(s, k, Len(s)) = s
         /\ SubSeq(s, k, Len(s)) = <<>> <=> k = Len(s) + 1
         /\ k <= Len(s) => /\ Head(SubSeq(s, k, Len(s))) = s[k]
                           /\ Tail(SubSeq(s, k, Len(s))) = SubSeq(s, k + 1, Len(s))
<1>1. PICK S : s \in Seq(S)
  BY DEF Listed
<1>2. Len(s) \in Nat /\ \A i \in 1..Len(s) : s[i] \in S
  BY <1>1, LenProperties
<1>3. \A m \in 1..(Len(s) + 1) :
         /\ SubSeq(s, m, Len(s)) \in Seq(S) /\ Len(SubSeq(s, m, Len(s))) = Len(s) - m + 1
         /\ \A i \in 1..(Len(s) - m + 1) : SubSeq(s, m, Len(s))[i] = s[m + i - 1]
  <2> TAKE m \in 1..(Len(s) + 1)
  <2>1. m \in Int /\ Len(s) \in Int /\ \A i \in m..Len(s) : s[i] \in S
    BY <1>2
  <2>2. /\ SubSeq(s, m, Len(s)) \in Seq(S)
        /\ Len(SubSeq(s, m, Len(s))) = (IF m <= Len(s) THEN Len(s) - m + 1 ELSE 0)
        /\ \A i \in 1..(Len(s) - m + 1) : SubSeq(s, m, Len(s))[i] = s[m + i - 1]
    BY <2>1, SubSeqProperties
  <2>3. m <= Len(s) \/ Len(s) - m + 1 = 0
    BY <1>2
  <2> QED BY <2>2, <2>3
<1>4. k = 1 => SubSeq(s, k, Len(s)) = s
  BY <1>1, SubSeqFull
<1> DEFINE r == SubSeq(s, k, Len(s))
<1>5. r \in Seq(S) /\ Len(r) = Len(s) - k + 1 /\ \A i \in 1..(Len(s) - k + 1) : r[i] = s[k + i - 1]
  BY <1>3
<1>6. Listed(r)
  BY <1>5 DEF Listed
<1>7. r = <<>> <=> k = Len(s) + 1
  <2>1. r # <<>> <=> Len(r) > 0
    BY <1>6, ListLen
  <2>2. Len(s) - k + 1 > 0 <=> k # Len(s) + 1
    BY <1>2
  <2> HIDE DEF r
  <2> QED BY <1>5, <2>1, <2>2
<1>8. ASSUME k <= Len(s) PROVE Head(r) = s[k] /\ Tail(r) = SubSeq(s, k + 1, Len(s))
  <2> DEFINE q == SubSeq(s, k + 1, Len(s))
  <2>1. k + 1 \in 1..(Len(s) + 1) /\ k \in Nat /\ 1 \in 1..(Len(s) - k + 1) /\ k + 1 - 1 = k
    BY <1>2, <1>8
  <2>2. q \in Seq(S) /\ Len(q) = Len(s) - (k + 1) + 1
        /\ \A i \in 1..(Len(s) - (k + 1) + 1) : q[i] = s[k + 1 + i - 1]
    BY <1>3, <2>1
  <2>3. r # <<>>
    BY <1>2, <1>7, <1>8, <2>1
  <2>4. r[1] = s[k]
    BY <1>5, <2>1
  <2> HIDE DEF r, q
  <2>5. /\ Head(r) = r[1] /\ Listed(Tail(r)) /\ Len(Tail(r)) = Len(r) - 1
        /\ \A i \in 1..Len(Tail(r)) : Tail(r)[i] = r[i + 1]
    BY <1>6, <2>3, ListFirst
  <2>61. Len(s) - k + 1 - 1 = Len(s) - k /\ Len(s) - (k + 1) + 1 = Len(s) - k
    BY <1>2, <2>1
  <2>62. Listed(q)
    BY <2>2 DEF Listed
  <2>6. Len(Tail(r)) = Len(q) /\ Len(q) = Len(s) - k /\ Listed(q)
    BY <1>5, <2>2, <2>5, <2>61, <2>62
  <2>7. \A i \in 1..Len(Tail(r)) : Tail(r)[i] = q[i]
    <3> TAKE i \in 1..Len(Tail(r))
    <3>1. /\ i + 1 \in 1..(Len(s) - k + 1) /\ i \in 1..(Len(s) - (k + 1) + 1)
          /\ k + (i + 1) - 1 = k + 1 + i - 1
      BY <1>2, <2>1, <2>6
    <3>2. r[i + 1] = s[k + (i + 1) - 1] /\ q[i] = s[k + 1 + i - 1]
      BY <1>5, <2>2, <3>1
    <3> QED BY <2>5, <3>1, <3>2
  <2>8. Tail(r) = q
    BY <2>5, <2>6, <2>7, ListSame
  <2> QED BY <2>4, <2>5, <2>8 DEF q
<1> QED BY <1>4, <1>6, <1>7, <1>8

-----------------------------------------------------------------------------
(* Code that runs silently. *)

\* The items of such code.
LEMMA SilentParts ==
  ASSUME NEW b, NEW code, NEW vals, Silent(b, code, vals)
  PROVE  /\ Listed(code) /\ vals \in Seq(Values)
         /\ \A j \in DOMAIN code : ItemOK(code[j]) /\ ~Runnable(code[j])
<1>1. Listed(code) /\ Len(code) \in Nat /\ DOMAIN code = 1..Len(code)
  BY ListLen DEF Silent
<1>2. PICK V \in [1..(Len(code) + 1) -> Seq(Values)] :
         /\ V[1] = <<>> /\ V[Len(code) + 1] = vals
         /\ \A j \in 1..Len(code) : Pushes(b, code[j], V[j], V[j + 1])
  BY DEF Silent
<1>3. Len(code) + 1 \in 1..(Len(code) + 1)
  BY <1>1
<1>4. vals \in Seq(Values)
  BY <1>2, <1>3
<1>5. \A j \in 1..Len(code) : ItemOK(code[j]) /\ ~Runnable(code[j])
  BY <1>2 DEF Pushes, Runnable
<1> QED BY <1>1, <1>4, <1>5

\* No code leaves no values.
LEMMA SilentEmpty ==
  ASSUME NEW b
  PROVE  Silent(b, <<>>, <<>>)
<1>1. Len(<<>>) = 0 /\ Listed(<<>>) /\ <<>> \in Seq(Values)
  BY EmptySeq DEF Listed
<1> DEFINE V == [j \in 1..1 |-> <<>>]
<1>2. V \in [1..(0 + 1) -> Seq(Values)] /\ V[1] = <<>> /\ V[0 + 1] = <<>>
  BY <1>1
<1>3. \A j \in 1..0 : FALSE
  OBVIOUS
<1> HIDE DEF V
<1> QED BY <1>1, <1>2, <1>3 DEF Silent

\* One more item.
LEMMA SilentMore ==
  ASSUME NEW b, NEW code, NEW vals, Silent(b, code, vals),
         NEW item, NEW after \in Seq(Values), Pushes(b, item, vals, after)
  PROVE  Silent(b, Append(code, item), after)
<1> DEFINE n == Len(code)
           more == Append(code, item)
<1>1. Listed(code) /\ n \in Nat
  BY ListLen DEF Silent
<1>2. PICK V \in [1..(n + 1) -> Seq(Values)] :
         /\ V[1] = <<>> /\ V[n + 1] = vals
         /\ \A j \in 1..n : Pushes(b, code[j], V[j], V[j + 1])
  BY DEF Silent
<1>3. /\ Listed(more) /\ Len(more) = n + 1 /\ more[n + 1] = item
      /\ \A j \in 1..n : more[j] = code[j]
  BY <1>1, ListMore
<1> DEFINE W == [j \in 1..(n + 1 + 1) |-> IF j <= n + 1 THEN V[j] ELSE after]
<1> HIDE DEF n, more
<1>4. \A j \in 1..(n + 1) : j \in 1..(n + 1 + 1) /\ j <= n + 1
  BY <1>1
<1>5. \A j \in 1..(n + 1) : W[j] = V[j]
  BY <1>4
<1>6. n + 1 + 1 \in 1..(n + 1 + 1) /\ ~(n + 1 + 1 <= n + 1) /\ 1 \in 1..(n + 1) /\ n + 1 \in 1..(n + 1)
      /\ \A j \in 1..(n + 1 + 1) : j <= n + 1 => j \in 1..(n + 1)
  BY <1>1
<1>7. W[n + 1 + 1] = after
  BY <1>6
<1>8. W \in [1..(n + 1 + 1) -> Seq(Values)]
  BY <1>2, <1>6
<1> HIDE DEF W
<1>9. ASSUME NEW j \in 1..(n + 1) PROVE Pushes(b, more[j], W[j], W[j + 1])
  <2>1. CASE j \in 1..n
    <3>1. j + 1 \in 1..(n + 1) /\ j \in 1..(n + 1)
      BY <1>1, <2>1
    <3>2. Pushes(b, code[j], V[j], V[j + 1])
      BY <1>2, <2>1
    <3>3. W[j] = V[j] /\ W[j + 1] = V[j + 1] /\ more[j] = code[j]
      BY <1>3, <1>5, <2>1, <3>1
    <3> QED BY <3>2, <3>3
  <2>2. CASE j = n + 1
    <3>1. W[j] = vals /\ W[j + 1] = after /\ more[j] = item
      BY <1>2, <1>3, <1>5, <1>6, <1>7, <2>2
    <3> QED BY <3>1
  <2> QED BY <1>1, <2>1, <2>2
<1>10. W[1] = <<>>
  BY <1>2, <1>5, <1>6
<1>11. Silent(b, more, after)
  BY <1>3, <1>7, <1>8, <1>9, <1>10 DEF Silent
<1> QED BY <1>11 DEF more

\* Two pieces of such code in a row.
LEMMA SilentJoin ==
  ASSUME NEW b, NEW code, NEW vals, Silent(b, code, vals),
         NEW more, NEW vals2, Silent(b, more, vals2)
  PROVE  Silent(b, code \o more, vals \o vals2)
<1> DEFINE n == Len(code)
           m == Len(more)
           all == code \o more
<1>1. Listed(code) /\ n \in Nat /\ Listed(more) /\ m \in Nat
  BY ListLen DEF Silent
<1>2. PICK V \in [1..(n + 1) -> Seq(Values)] :
         /\ V[1] = <<>> /\ V[n + 1] = vals
         /\ \A j \in 1..n : Pushes(b, code[j], V[j], V[j + 1])
  BY DEF Silent
<1>3. PICK U \in [1..(m + 1) -> Seq(Values)] :
         /\ U[1] = <<>> /\ U[m + 1] = vals2
         /\ \A j \in 1..m : Pushes(b, more[j], U[j], U[j + 1])
  BY DEF Silent
<1>4. /\ Listed(all) /\ Len(all) = n + m
      /\ \A j \in 1..n : all[j] = code[j]
      /\ \A j \in 1..m : all[n + j] = more[j]
  BY <1>1, ListJoin
<1>5. vals \in Seq(Values) /\ vals \o <<>> = vals
  BY SilentParts, ConcatEmptySeq
<1> HIDE DEF n, m, all
<1> DEFINE W == [j \in 1..(n + m + 1) |-> IF j <= n THEN V[j] ELSE vals \o U[j - n]]
<1>6. /\ \A j \in 1..n : j \in 1..(n + m + 1) /\ j <= n /\ j \in 1..(n + 1)
      /\ \A j \in 1..(m + 1) : n + j \in 1..(n + m + 1) /\ ~(n + j <= n) /\ n + j - n = j
      /\ \A j \in 1..(n + m + 1) : ~(j <= n) => j - n \in 1..(m + 1)
      /\ \A j \in 1..(n + m + 1) : j <= n => j \in 1..n
  BY <1>1
<1>7. \A j \in 1..n : W[j] = V[j]
  BY <1>6
<1>8. \A j \in 1..(m + 1) : W[n + j] = vals \o U[j]
  <2> TAKE j \in 1..(m + 1)
  <2> DEFINE k == n + j
  <2>1. k \in 1..(n + m + 1) /\ ~(k <= n) /\ k - n = j
    BY <1>1, <1>6
  <2> HIDE DEF k
  <2>2. W[k] = vals \o U[k - n]
    BY <2>1
  <2> QED BY <2>1, <2>2 DEF k
<1>9. W \in [1..(n + m + 1) -> Seq(Values)]
  <2>1. \A j \in 1..(n + m + 1) : (IF j <= n THEN V[j] ELSE vals \o U[j - n]) \in Seq(Values)
    <3> TAKE j \in 1..(n + m + 1)
    <3>1. CASE j <= n
      BY <1>2, <1>6, <3>1
    <3>2. CASE ~(j <= n)
      <4>1. U[j - n] \in Seq(Values)
        BY <1>3, <1>6, <3>2
      <4>2. vals \o U[j - n] \in Seq(Values)
        BY <1>5, <4>1, ConcatProperties
      <4> QED BY <3>2, <4>2
    <3> QED BY <3>1, <3>2
  <2> QED BY <2>1
<1> HIDE DEF W
<1>10. 1 \in 1..(m + 1) /\ m + 1 \in 1..(m + 1) /\ n + (m + 1) = n + m + 1
  BY <1>1
<1>11. W[n + 1] = vals
  BY <1>3, <1>5, <1>8, <1>10
<1>12. W[n + m + 1] = vals \o vals2
  BY <1>3, <1>8, <1>10
<1>13. W[1] = <<>>
  <2>1. CASE n = 0
    BY <1>2, <1>11, <2>1
  <2>2. CASE n # 0
    <3>1. 1 \in 1..n
      BY <1>1, <2>2
    <3> QED BY <1>2, <1>7, <3>1
  <2> QED BY <2>1, <2>2
<1>14. \A j \in 1..(n + 1) : W[j] = V[j]
  <2>1. \A j \in 1..(n + 1) : j \in 1..n \/ j = n + 1
    BY <1>1
  <2> QED BY <1>2, <1>7, <1>11, <2>1
<1>15. ASSUME NEW j \in 1..(n + m) PROVE Pushes(b, all[j], W[j], W[j + 1])
  <2>1. CASE j \in 1..n
    <3>1. j \in 1..(n + 1) /\ j + 1 \in 1..(n + 1)
      BY <1>1, <2>1
    <3>2. Pushes(b, code[j], V[j], V[j + 1])
      BY <1>2, <2>1
    <3>3. all[j] = code[j] /\ W[j] = V[j] /\ W[j + 1] = V[j + 1]
      BY <1>4, <1>14, <2>1, <3>1
    <3> QED BY <3>2, <3>3
  <2>2. CASE j \notin 1..n
    <3> DEFINE i == j - n
    <3>1. i \in 1..m /\ i \in 1..(m + 1) /\ i + 1 \in 1..(m + 1) /\ n + i = j /\ n + (i + 1) = j + 1
      BY <1>1, <2>2
    <3> HIDE DEF i
    <3>2. Pushes(b, more[i], U[i], U[i + 1]) /\ U[i] \in Seq(Values) /\ U[i + 1] \in Seq(Values)
      BY <1>3, <3>1
    <3>3. all[n + i] = more[i] /\ W[n + i] = vals \o U[i] /\ W[n + (i + 1)] = vals \o U[i + 1]
      BY <1>4, <1>8, <3>1
    <3>4. Pushes(b, more[i], vals \o U[i], vals \o U[i + 1])
      <4> DEFINE x == U[i]
                 a == Arity(b[more[i].at])
                 item == more[i]
      <4>1. /\ \A y \in Values : Append(vals \o x, y) = vals \o Append(x, y)
            /\ \A k \in 0..Len(x) : /\ k \in 0..Len(vals \o x)
                                    /\ Left(vals \o x, k) = vals \o Left(x, k)
                                    /\ Left(x, k) \in Seq(Values)
        BY <1>5, <3>2, OnTop
      <4>2. ItemOK(item) /\ item.run \in {"push", "pure"} /\ item.v \in Values
        BY <3>2 DEF Pushes, ItemOK
      <4>3. item.run = "push" => vals \o U[i + 1] = Append(vals \o x, item.v)
        BY <3>2, <4>1, <4>2 DEF Pushes
      <4>4. ASSUME item.run = "pure"
            PROVE  a \in 0..Len(vals \o x) /\ vals \o U[i + 1] = Append(Left(vals \o x, a), Unit)
        <5>1. a \in 0..Len(x) /\ U[i + 1] = Append(Left(x, a), Unit)
          BY <3>2, <4>4 DEF Pushes
        <5>2. Unit \in Values
          BY DEF Unit, Values
        <5>3. Left(x, a) \in Seq(Values) /\ Left(vals \o x, a) = vals \o Left(x, a) /\ a \in 0..Len(vals \o x)
          BY <4>1, <5>1
        <5>4. Append(vals \o Left(x, a), Unit) = vals \o Append(Left(x, a), Unit)
          BY <1>5, <5>2, <5>3, OnTop
        <5> QED BY <5>1, <5>3, <5>4
      <4> QED BY <4>2, <4>3, <4>4 DEF Pushes
    <3> QED BY <3>1, <3>3, <3>4
  <2> QED BY <2>1, <2>2
<1>16. Silent(b, all, vals \o vals2)
  BY <1>4, <1>9, <1>12, <1>13, <1>15 DEF Silent
<1> QED BY <1>16 DEF all

\* It comes to its values and the machine does not move.
LEMMA SilentFollows ==
  ASSUME NEW b, NEW code, NEW vals, Silent(b, code, vals), NEW g
  PROVE  Follows(b, code, <<>>, g, ToState(vals, g))
<1> DEFINE n == Len(code)
           rest(j) == SubSeq(code, j, n)
<1>1. Listed(code) /\ n \in Nat
  BY ListLen DEF Silent
<1>2. PICK V \in [1..(n + 1) -> Seq(Values)] :
         /\ V[1] = <<>> /\ V[n + 1] = vals
         /\ \A j \in 1..n : Pushes(b, code[j], V[j], V[j + 1])
  BY DEF Silent
<1>3. \A j \in 1..(n + 1) : /\ Listed(rest(j)) /\ (j = 1 => rest(j) = code)
                            /\ rest(j) = <<>> <=> j = n + 1
                            /\ j <= n => Head(rest(j)) = code[j] /\ Tail(rest(j)) = rest(j + 1)
  BY <1>1, ListRest
<1> HIDE DEF n, rest
<1> DEFINE moment(j) == <<rest(j), V[j], g>>
           X == {moment(j) : j \in 1..(n + 1)}
<1>4. \A j \in 1..(n + 1) : moment(j)[1] = rest(j) /\ moment(j)[2] = V[j] /\ moment(j)[3] = g
  BY MomentParts
<1>5. \A j \in 1..(n + 1) : <<rest(j), V[j], g>> \in X
  OBVIOUS
<1>6. ASSUME NEW j \in 1..(n + 1)
      PROVE  /\ Moment(moment(j))
             /\ rest(j) # <<>> => Goings(b, Head(rest(j)), Tail(rest(j)), V[j], g, X)
             /\ rest(j) = <<>> => V[j] = vals
  <2>1. Moment(moment(j))
    BY <1>2, <1>3, <1>4 DEF Moment
  <2>2. ASSUME rest(j) # <<>> PROVE Goings(b, Head(rest(j)), Tail(rest(j)), V[j], g, X)
    <3>1. j # n + 1
      BY <1>3, <2>2
    <3>2. j \in 1..n /\ j + 1 \in 1..(n + 1) /\ j <= n
      BY <1>1, <3>1
    <3>3. Pushes(b, code[j], V[j], V[j + 1])
      BY <1>2, <3>2
    <3>4. <<rest(j + 1), V[j + 1], g>> \in X
      BY <1>5, <3>2
    <3>5. Goings(b, code[j], rest(j + 1), V[j], g, X)
      <4> HIDE DEF X
      <4> QED BY <3>3, <3>4 DEF Goings, Pushes, Runnable
    <3>6. Head(rest(j)) = code[j] /\ Tail(rest(j)) = rest(j + 1)
      BY <1>3, <3>2
    <3> HIDE DEF X
    <3> QED BY <3>5, <3>6
  <2> QED BY <1>2, <1>3, <2>1, <2>2
<1>7. Run(b, X)
  <2> SUFFICES ASSUME NEW j \in 1..(n + 1)
               PROVE  /\ Moment(moment(j))
                      /\ moment(j)[1] # <<>> => Goings(b, Head(moment(j)[1]), Tail(moment(j)[1]),
                                                       moment(j)[2], moment(j)[3], X)
    BY DEF Run
  <2> HIDE DEF X, moment
  <2> QED BY <1>4, <1>6
<1>8. <<code, <<>>, g>> \in X
  <2>1. 1 \in 1..(n + 1)
    BY <1>1
  <2>2. <<rest(1), V[1], g>> \in X
    BY <1>5, <2>1
  <2> QED BY <1>2, <1>3, <2>1, <2>2
<1>9. \A t \in X : t[1] = <<>> => Reached(b, ToState(vals, g), t[2], t[3])
  <2> TAKE t \in X
  <2>1. PICK j \in 1..(n + 1) : t = moment(j)
    OBVIOUS
  <2> HIDE DEF X
  <2> SUFFICES ASSUME t[1] = <<>> PROVE Reached(b, ToState(vals, g), t[2], t[3])
    OBVIOUS
  <2>2. t[2] = vals /\ t[3] = g
    BY <1>4, <1>6, <2>1
  <2> QED BY <2>2, ReachedState
<1> HIDE DEF X
<1> QED BY <1>7, <1>8, <1>9 DEF Follows

\* Code of one item.
LEMMA ListOne ==
  ASSUME NEW e
  PROVE  /\ Listed(<<e>>) /\ <<e>> # <<>> /\ Head(<<e>>) = e /\ Tail(<<e>>) = <<>>
         /\ Len(<<e>>) = 1 /\ DOMAIN <<e>> = 1..1 /\ <<e>>[1] = e /\ Last(<<e>>) = e /\ Front(<<e>>) = <<>>
         /\ \A s : Listed(s) => s \o <<e>> = Append(s, e)
         /\ Append(<<>>, e) = <<e>>
<1>1. <<e>> \in Seq({e}) /\ Len(<<e>>) = 1 /\ <<e>>[1] = e
  OBVIOUS
<1>2. Listed(<<e>>) /\ <<e>> # <<>> /\ DOMAIN <<e>> = 1..1
  BY <1>1, ListLen DEF Listed
<1>3. Head(<<e>>) = e /\ Listed(Tail(<<e>>)) /\ Len(Tail(<<e>>)) = 0
  <2> DEFINE s == <<e>>
  <2>1. Listed(s) /\ s # <<>> /\ Len(s) = 1 /\ s[1] = e
    BY <1>1, <1>2
  <2> HIDE DEF s
  <2>2. Head(s) = s[1] /\ Listed(Tail(s)) /\ Len(Tail(s)) = Len(s) - 1
    BY <2>1, ListFirst
  <2>3. Head(s) = e /\ Listed(Tail(s)) /\ Len(Tail(s)) = 0
    BY <2>1, <2>2
  <2> QED BY <2>3 DEF s
<1>4. Tail(<<e>>) = <<>>
  BY <1>3, ListLen
<1>5. ASSUME NEW s, Listed(s) PROVE s \o <<e>> = Append(s, e)
  <2>1. PICK S : s \in Seq(S)
    BY <1>5 DEF Listed
  <2>2. s \in Seq(S \union {e}) /\ e \in S \union {e}
    BY <2>1, SeqMonotonic
  <2> QED BY <2>2, AppendIsConcat
<1>6. Append(<<>>, e) = <<e>>
  OBVIOUS
<1>7. Last(<<e>>) = e /\ Front(<<e>>) = <<>>
  <2>1. 1 - 1 = 0 /\ SubSeq(<<e>>, 1, 0) = <<>>
    BY SubSeqEmpty
  <2> QED BY <1>1, <2>1 DEF Last, Front
<1> QED BY <1>1, <1>2, <1>3, <1>4, <1>5, <1>6, <1>7

\* One item leads to a goal when what it comes to reaches it.
LEMMA FollowsOne ==
  ASSUME NEW b, NEW item, ItemOK(item), NEW vals \in Seq(Values), NEW g, NEW goal,
         item.run = "push" => Reached(b, goal, Append(vals, item.v), g),
         item.run # "pure",
         Runnable(item) =>
            /\ Operands(b, item) \in 0..Len(vals) /\ item.at \in DOMAIN b
            /\ \E h : /\ Star(b, g, h) /\ Performs(b, item, vals, h)
                      /\ \A out \in Values :
                            Reached(b, goal, Append(Left(vals, Operands(b, item)), out), Went(b, h, out))
  PROVE  Follows(b, <<item>>, vals, g, goal)
<1> DEFINE n == Operands(b, item)
<1>1. item.v \in Values /\ Append(vals, item.v) \in Seq(Values)
  BY AppendProperties DEF ItemOK
<1>2. item.run = "push" => Follows(b, <<>>, Append(vals, item.v), g, goal)
  BY <1>1, FollowsEnd
<1>3. ASSUME Runnable(item)
      PROVE  /\ n \in 0..Len(vals) /\ item.at \in DOMAIN b
             /\ \E h : /\ Star(b, g, h) /\ Performs(b, item, vals, h)
                       /\ \A out \in Values : Follows(b, <<>>, Append(Left(vals, n), out), Went(b, h, out), goal)
  <2> HIDE DEF n
  <2>1. n \in 0..Len(vals) /\ item.at \in DOMAIN b
    BY <1>3 DEF n
  <2>2. PICK h : /\ Star(b, g, h) /\ Performs(b, item, vals, h)
                 /\ \A out \in Values : Reached(b, goal, Append(Left(vals, n), out), Went(b, h, out))
    BY <1>3 DEF n
  <2>3. Left(vals, n) \in Seq(Values)
    <3>1. <<>> \in Seq(Values)
      BY EmptySeq
    <3> QED BY <2>1, <3>1, OnTop
  <2>4. \A out \in Values : Follows(b, <<>>, Append(Left(vals, n), out), Went(b, h, out), goal)
    <3> TAKE out \in Values
    <3>1. Append(Left(vals, n), out) \in Seq(Values)
      BY <2>3, AppendProperties
    <3> QED BY <2>2, <3>1, FollowsEnd
  <2> QED BY <2>1, <2>2, <2>4
<1>4. Starts(b, item, <<>>, vals, g, goal)
  BY <1>2, <1>3 DEF Starts
<1>5. /\ Listed(<<item>>) /\ <<item>> # <<>>
      /\ Starts(b, Head(<<item>>), Tail(<<item>>), vals, g, goal)
  BY <1>4, ListOne
<1> DEFINE code == <<item>>
<1> HIDE DEF code
<1>6. Follows(b, code, vals, g, goal)
  BY <1>5, FollowsBack DEF code
<1> QED BY <1>6 DEF code

\* The fields of code.
LEMMA CodeFields ==
  ASSUME NEW run, NEW at, NEW v, NEW turn, NEW loop
  PROVE  LET c == Code(run, at, v, turn, loop)
         IN  c.run = run /\ c.at = at /\ c.v = v /\ c.turn = turn /\ c.loop = loop
BY DEF Code

\* Code after code is code.
LEMMA CodeOKJoin ==
  ASSUME NEW code, NEW more, Listed(code), Listed(more), CodeOK(code), CodeOK(more)
  PROVE  Listed(code \o more) /\ CodeOK(code \o more)
<1> DEFINE n == Len(code)
           m == Len(more)
           all == code \o more
<1>1. n \in Nat /\ m \in Nat /\ DOMAIN code = 1..n /\ DOMAIN more = 1..m
  BY ListLen
<1>2. /\ Listed(all) /\ Len(all) = n + m
      /\ \A i \in 1..n : all[i] = code[i]
      /\ \A i \in 1..m : all[n + i] = more[i]
  BY ListJoin
<1>3. DOMAIN all = 1..(n + m)
  BY <1>2, ListLen
<1> HIDE DEF n, m, all
<1>4. ASSUME NEW i \in DOMAIN all PROVE ItemOK(all[i])
  <2>1. CASE i \in 1..n
    BY <1>1, <1>2, <2>1 DEF CodeOK
  <2>2. CASE i \notin 1..n
    <3>1. i - n \in 1..m /\ n + (i - n) = i
      BY <1>1, <1>3, <2>2
    <3>2. ItemOK(more[i - n]) /\ all[n + (i - n)] = more[i - n]
      BY <1>1, <1>2, <3>1 DEF CodeOK
    <3> QED BY <3>1, <3>2
  <2> QED BY <2>1, <2>2
<1> QED BY <1>2, <1>4 DEF CodeOK, all

\* An item is code.
LEMMA CodeOKOne ==
  ASSUME NEW item, ItemOK(item)
  PROVE  Listed(<<item>>) /\ CodeOK(<<item>>)
BY ListOne DEF CodeOK

\* No item is code.
LEMMA CodeOKNone == Listed(<<>>) /\ CodeOK(<<>>)
<1>1. Listed(<<>>) /\ DOMAIN <<>> = {}
  BY EmptySeq DEF Listed
<1> QED BY <1>1 DEF CodeOK

\* Code that runs silently is code.
LEMMA CodeOKSilent ==
  ASSUME NEW b, NEW code, NEW vals, Silent(b, code, vals)
  PROVE  Listed(code) /\ CodeOK(code)
BY SilentParts DEF CodeOK

\* What the rewriter emits is code.
LEMMA ItemsOK ==
  ASSUME NEW b, NEW cs, NEW n
  PROVE  /\ \A v \in Values : ItemOK(Push(v))
         /\ Listed(UnitCode) /\ CodeOK(UnitCode)
         /\ Listed(Splice(b, cs, n)) /\ CodeOK(Splice(b, cs, n))
         /\ Listed(Perform(b, n)) /\ CodeOK(Perform(b, n))
         /\ \A turn \in Nat : Listed(Item(n, turn)) /\ CodeOK(Item(n, turn))
<1>1. Unit \in Values /\ 0 \in Nat
  BY DEF Unit, Values
<1>2. \A v \in Values : ItemOK(Push(v))
  BY <1>1, CodeFields DEF ItemOK, Push
<1>3. Listed(UnitCode) /\ CodeOK(UnitCode)
  BY <1>1, <1>2, CodeOKOne DEF UnitCode
<1>4. Listed(Splice(b, cs, n)) /\ CodeOK(Splice(b, cs, n))
  <2>1. ItemOK(Code("leaf", n, Unit, 0, Env(cs)))
    BY <1>1, CodeFields DEF ItemOK
  <2> QED BY <1>3, <2>1, CodeOKOne DEF Splice
<1>5. Listed(Perform(b, n)) /\ CodeOK(Perform(b, n))
  <2>1. ItemOK(Code(IF b[n].kind = "pure" THEN "pure" ELSE "op", n, Unit, 0, <<>>))
    BY <1>1, CodeFields DEF ItemOK
  <2> QED BY <2>1, CodeOKOne DEF Perform
<1>6. ASSUME NEW turn \in Nat PROVE Listed(Item(n, turn)) /\ CodeOK(Item(n, turn))
  <2>1. ItemOK(Code("next", n, Unit, turn, <<>>))
    BY <1>1, CodeFields DEF ItemOK
  <2> QED BY <2>1, CodeOKOne DEF Item
<1> QED BY <1>2, <1>3, <1>4, <1>5, <1>6

\* A pushed value, and a value computed silently.
LEMMA SilentPush ==
  ASSUME NEW b, NEW v \in Values
  PROVE  Silent(b, <<Push(v)>>, <<v>>)
<1>1. <<v>> \in Seq(Values) /\ Append(<<>>, v) = <<v>>
  OBVIOUS
<1>2. Pushes(b, Push(v), <<>>, <<v>>)
  BY <1>1, ItemsOK, CodeFields DEF Pushes, Push
<1>3. Silent(b, Append(<<>>, Push(v)), <<v>>)
  BY <1>1, <1>2, SilentEmpty, SilentMore
<1> QED BY <1>3, ListOne

\* The value ().
LEMMA SilentUnit ==
  ASSUME NEW b
  PROVE  Silent(b, UnitCode, <<Unit>>)
BY SilentPush DEF UnitCode, Unit, Values

\* An operator without an effect, on operands that are on hand.
LEMMA SilentPure ==
  ASSUME NEW b, NEW n, b[n].kind = "pure", NEW code, NEW vals, Silent(b, code, vals),
         Len(vals) = Len(b[n].kids)
  PROVE  Silent(b, code \o Perform(b, n), <<Unit>>)
<1> DEFINE item == Code("pure", n, Unit, 0, <<>>)
<1>1. Perform(b, n) = <<item>> /\ item.run = "pure" /\ item.at = n
  BY CodeFields DEF Perform
<1>2. ItemOK(item)
  BY CodeFields DEF ItemOK, Unit, Values
<1> HIDE DEF item
<1>3. vals \in Seq(Values) /\ Listed(code) /\ Len(vals) \in Nat
  BY SilentParts, LenProperties
<1>4. Arity(b[n]) = Len(vals)
  BY DEF Arity, Iterating
<1>5. Len(vals) \in 0..Len(vals) /\ Left(vals, Len(vals)) = <<>>
  <2>1. Len(vals) - Len(vals) = 0
    BY <1>3
  <2> QED BY <1>3, <2>1, SubSeqEmpty DEF Left
<1>6. <<Unit>> \in Seq(Values) /\ Append(<<>>, Unit) = <<Unit>>
  BY DEF Unit, Values
<1>7. Pushes(b, item, vals, <<Unit>>)
  BY <1>1, <1>2, <1>4, <1>5, <1>6 DEF Pushes
<1>8. Silent(b, Append(code, item), <<Unit>>)
  BY <1>6, <1>7, SilentMore
<1> QED BY <1>1, <1>3, <1>8, ListOne

\* The outcome of a leaf and of an expression on its operands.
LEMMA WentLeaf ==
  ASSUME NEW b, NEW n, NEW stack, NEW out \in Values
  PROVE  Went(b, Doing("leaf", n, <<>>, 0, stack), out) = Yield(out, stack)
<1>1. out # "return" /\ out # "break" /\ out # "continue"
  BY DEF Values
<1> QED BY <1>1 DEF Went, Doing

\* The outcome of an expression performed on its operands.
LEMMA WentOp ==
  ASSUME NEW b, NEW n, NEW vals, NEW stack, NEW out \in Values
  PROVE  LET h == Doing("op", n, vals, 0, stack)
         IN  /\ b[n].kind \in {"op", "pure", "rec"} => Went(b, h, out) = Yield(out, stack)
             /\ b[n].kind \in Iterating => Went(b, h, out) = Doing("next", n, <<>>, 0, stack)
             /\ b[n].kind = "try" => Went(b, h, out) = IF out = "no" THEN End(out) ELSE Yield(out, stack)
             /\ b[n].kind = "assign" => Went(b, h, out) = Yield(Unit, stack)
<1>1. out # "return" /\ out # "break" /\ out # "continue"
  BY DEF Values
<1> QED BY <1>1 DEF Went, Doing, Iterating

\* The outcome of asking for the next item.
LEMMA WentNext ==
  ASSUME NEW b, NEW n, NEW turn, NEW stack, Listed(stack), NEW fr, NEW out \in Values
  PROVE  Went(b, Doing("next", n, <<>>, turn, Append(stack, fr)), out) =
            IF out = "yes" THEN Eval(b[n].kids[2], Append(stack, Frame(n, 2, <<>>, turn)))
            ELSE Yield(Unit, stack)
<1> DEFINE p == Append(stack, fr)
           h == Doing("next", n, <<>>, turn, p)
<1>1. out # "return" /\ out # "break" /\ out # "continue"
  BY DEF Values
<1>2. SubSeq(p, 1, Len(p) - 1) = stack
  BY ListMore DEF Front
<1> HIDE DEF p
<1>3. h.do = "next" /\ h.at = n /\ h.turn = turn /\ h.pending = p
  BY DEF Doing
<1> HIDE DEF h
<1>4. Went(b, h, out) =
         IF out = "yes" THEN Eval(b[n].kids[2], Append(stack, Frame(n, 2, <<>>, turn)))
         ELSE Yield(Unit, stack)
  BY <1>1, <1>2, <1>3 DEF Went
<1> QED BY <1>4 DEF h, p

\* One move further.
LEMMA StarStep ==
  ASSUME NEW b, NEW g, NEW h, NEW k, Star(b, g, h), ~AtEvent(h), Move(b, h) = k
  PROVE  Star(b, g, k)
BY StarOn

\* A leaf runs where it is spliced.
LEMMA FollowsSplice ==
  ASSUME NEW b, NEW n \in DOMAIN b, ~b[n].rec, NEW cs, NEW stack,
         Known(b, Env(cs), stack, b[n].loop),
         NEW vals \in Seq(Values), NEW g, Star(b, g, Eval(n, stack)), NEW goal,
         \A v \in Values : \A h : Star(b, h, Yield(v, stack)) => Reached(b, goal, Append(vals, v), h)
  PROVE  Follows(b, Splice(b, cs, n), vals, g, goal)
<1>0. Unit \in Values
  BY DEF Unit, Values
<1>1. CASE b[n].kind = "lit"
  <2>1. Splice(b, cs, n) = <<Push(Unit)>>
    BY <1>1 DEF Splice, UnitCode
  <2>2. Star(b, g, Yield(Unit, stack))
    BY <1>1, EvalLit, StarStep
  <2>3. Reached(b, goal, Append(vals, Unit), g)
    BY <1>0, <2>2
  <2> DEFINE item == Push(Unit)
  <2>4. ItemOK(item) /\ item.run = "push" /\ item.v = Unit
    BY <1>0, ItemsOK, CodeFields DEF Push
  <2> HIDE DEF item
  <2>5. Follows(b, <<item>>, vals, g, goal)
    BY <2>3, <2>4, FollowsOne DEF Runnable
  <2> QED BY <2>1, <2>5 DEF item
<1>2. CASE b[n].kind # "lit"
  <2> DEFINE item == Code("leaf", n, Unit, 0, Env(cs))
             h == Doing("leaf", n, <<>>, 0, stack)
  <2>1. Splice(b, cs, n) = <<item>>
    BY <1>2 DEF Splice
  <2>2. item.run = "leaf" /\ item.at = n /\ item.turn = 0 /\ item.loop = Env(cs) /\ ItemOK(item)
    BY <1>0, CodeFields DEF ItemOK
  <2>3. Star(b, g, h)
    BY <1>2, EvalLeaf, StarStep
  <2>4. AtEvent(h) /\ h.do = "leaf" /\ h.at = n /\ h.turn = 0 /\ h.vals = <<>> /\ h.pending = stack
    BY DEF Doing, AtEvent
  <2>5. \A out \in Values : Went(b, h, out) = Yield(out, stack)
    BY WentLeaf
  <2> HIDE DEF item, h
  <2>6. Operands(b, item) = 0
    BY <2>2 DEF Operands
  <2>7. Taken(vals, 0) = <<>> /\ Left(vals, 0) = vals /\ Len(vals) \in Nat
    <3>1. Len(vals) \in Nat /\ Len(vals) - 0 + 1 > Len(vals) /\ Len(vals) - 0 = Len(vals)
      BY LenProperties
    <3>2. SubSeq(vals, Len(vals) - 0 + 1, Len(vals)) = <<>>
      BY <3>1, SubSeqEmpty
    <3>3. SubSeq(vals, 1, Len(vals)) = vals
      BY SubSeqFull
    <3> QED BY <3>1, <3>2, <3>3 DEF Taken, Left
  <2>8. Performs(b, item, vals, h)
    BY <2>2, <2>4, <2>6, <2>7 DEF Performs
  <2>9. \A out \in Values : Reached(b, goal, Append(Left(vals, Operands(b, item)), out), Went(b, h, out))
    <3> TAKE out \in Values
    <3>1. Reached(b, goal, Append(vals, out), Yield(out, stack))
      BY StarHere
    <3> QED BY <2>5, <2>6, <2>7, <3>1
  <2>10. 0 \in 0..Len(vals)
    BY <2>7
  <2>11. item.run # "push" /\ item.run # "pure"
    BY <2>2
  <2>12. Operands(b, item) \in 0..Len(vals) /\ item.at \in DOMAIN b
    BY <2>2, <2>6, <2>10
  <2>13. Follows(b, <<item>>, vals, g, goal)
    BY <2>2, <2>3, <2>8, <2>9, <2>11, <2>12, FollowsOne
  <2> QED BY <2>1, <2>13
<1> QED BY <1>1, <1>2

\* An expression is performed on its operands.
LEMMA FollowsPerform ==
  ASSUME NEW b, NEW n \in DOMAIN b, b[n].kind # "pure", NEW stack,
         NEW vals \in Seq(Values), Len(vals) = Arity(b[n]),
         NEW g, Star(b, g, Doing("op", n, vals, 0, stack)), NEW goal,
         \A out \in Values : Reached(b, goal, <<out>>, Went(b, Doing("op", n, vals, 0, stack), out))
  PROVE  Follows(b, Perform(b, n), vals, g, goal)
<1> DEFINE item == Code("op", n, Unit, 0, <<>>)
           h == Doing("op", n, vals, 0, stack)
<1>1. Perform(b, n) = <<item>>
  BY DEF Perform
<1>2. item.run = "op" /\ item.at = n /\ item.turn = 0 /\ item.loop = <<>> /\ ItemOK(item)
  BY CodeFields DEF ItemOK, Unit, Values
<1>3. AtEvent(h) /\ h.do = "op" /\ h.at = n /\ h.turn = 0 /\ h.vals = vals
  BY DEF Doing, AtEvent
<1>4. Star(b, g, h) /\ \A out \in Values : Reached(b, goal, <<out>>, Went(b, h, out))
  OBVIOUS
<1> HIDE DEF item, h
<1>5. Operands(b, item) = Len(vals)
  BY <1>2 DEF Operands
<1>6. Len(vals) \in 0..Len(vals) /\ Taken(vals, Len(vals)) = vals /\ Left(vals, Len(vals)) = <<>>
  <2>1. Len(vals) \in Nat /\ Len(vals) - Len(vals) + 1 = 1 /\ Len(vals) - Len(vals) = 0
    BY LenProperties
  <2>2. SubSeq(vals, 1, Len(vals)) = vals /\ SubSeq(vals, 1, 0) = <<>>
    BY SubSeqFull, SubSeqEmpty
  <2> QED BY <2>1, <2>2 DEF Taken, Left
<1>7. Performs(b, item, vals, h)
  BY <1>2, <1>3, <1>5, <1>6 DEF Performs
<1>8. \A out \in Values : Reached(b, goal, Append(Left(vals, Operands(b, item)), out), Went(b, h, out))
  <2> TAKE out \in Values
  <2>1. Append(Left(vals, Operands(b, item)), out) = <<out>>
    BY <1>5, <1>6, ListOne
  <2> QED BY <1>4, <2>1
<1>9. item.run # "push" /\ item.run # "pure" /\ Operands(b, item) \in 0..Len(vals) /\ item.at \in DOMAIN b
  BY <1>2, <1>5, <1>6
<1>10. Follows(b, <<item>>, vals, g, goal)
  BY <1>2, <1>4, <1>7, <1>8, <1>9, FollowsOne
<1> QED BY <1>1, <1>10

\* From one operand to the next.
LEMMA PositionStart ==
  ASSUME NEW b, WellFormed(b), NEW n \in DOMAIN b, b[n].rec, b[n].kind \in {"op", "pure", "rec"},
         NEW stack, NEW g, Star(b, g, Eval(n, stack))
  PROVE  Star(b, g, Position(b, n, 1, <<>>, stack))
<1>1. Listed(b[n].kids) /\ Len(b[n].kids) \in Nat /\ DOMAIN b[n].kids = 1..Len(b[n].kids)
      /\ b[n].kids # <<>> <=> Len(b[n].kids) > 0
  BY Inside, ListLen
<1>2. CASE b[n].kids = <<>>
  <2>1. ~(1 <= Len(b[n].kids)) /\ DOMAIN b[n].kids = {}
    BY <1>1, <1>2
  <2>2. b[n].kind # "pure"
    BY <2>1 DEF WellFormed, Recurses
  <2>3. Position(b, n, 1, <<>>, stack) = Doing("op", n, <<>>, 0, stack)
    BY <2>1, <2>2 DEF Position
  <2> QED BY <1>2, <2>3, EvalBare, StarStep
<1>3. CASE b[n].kids # <<>>
  <2>1. 1 <= Len(b[n].kids)
    BY <1>1, <1>3
  <2>2. Position(b, n, 1, <<>>, stack) = Eval(b[n].kids[1], Append(stack, Frame(n, 1, <<>>, 0)))
    BY <2>1 DEF Position
  <2> QED BY <1>3, <2>2, EvalFirst, StarStep
<1> QED BY <1>2, <1>3

\* The value of an operand is there, and the next operand is begun.
LEMMA PositionStep ==
  ASSUME NEW b, WellFormed(b), NEW stack, Listed(stack), NEW fr, fr.at \in DOMAIN b,
         b[fr.at].kind \in {"op", "pure", "rec"}, fr.i \in DOMAIN b[fr.at].kids,
         NEW g, NEW v, Star(b, g, Yield(v, Append(stack, fr)))
  PROVE  Star(b, g, Position(b, fr.at, fr.i + 1, Append(fr.vals, v), stack))
<1> DEFINE n == fr.at
           t == b[n]
           h == Yield(v, Append(stack, fr))
<1>1. Len(t.kids) \in Nat /\ fr.i \in 1..Len(t.kids)
  BY Inside, ListLen
<1>2. fr.i < Len(t.kids) <=> fr.i + 1 <= Len(t.kids)
  BY <1>1
<1>3. t.kind \in Strict
  BY DEF Strict
<1>4. ~AtEvent(h) /\ Move(b, h) = Operand(t, fr, v, stack)
  BY <1>3, YieldIn
<1>5. Operand(t, fr, v, stack) = Position(b, n, fr.i + 1, Append(fr.vals, v), stack)
  BY <1>2 DEF Operand, Position
<1> HIDE DEF h
<1>6. Star(b, g, h)
  BY DEF h
<1> QED BY <1>4, <1>5, <1>6, StarStep

-----------------------------------------------------------------------------
(* The continuations hold no code to run, and a loop waits once. *)
ContOK(c) == CodeOK(c.acc) /\ (\A j \in DOMAIN c.acc : ~Runnable(c.acc[j])) /\ c.i \in Nat
Sound(cs) ==
    /\ Listed(cs)
    /\ \A i \in DOMAIN cs : ContOK(cs[i])
    /\ \A i, j \in DOMAIN cs : cs[i].f = "loop" /\ cs[j].f = "loop" /\ cs[i].at = cs[j].at => i = j

\* A continuation that holds no code.
LEMMA ContBare ==
  ASSUME NEW c, c.acc = <<>>, c.i \in Nat
  PROVE  ContOK(c)
<1>1. DOMAIN c.acc = {}
  BY EmptySeq
<1> QED BY <1>1 DEF ContOK, CodeOK

\* A continuation of a frame.
LEMMA DealPlain ==
  ASSUME NEW b, NEW cs, NEW stack, NEW e, Waits(b, cs, stack, e),
         NEW k \in 1..Len(stack), NEW m \in 1..Len(cs), e[k - 1] < m, m <= e[k]
  PROVE  /\ ContOK(cs[m])
         /\ cs[m].f = "loop" => m = e[k - 1] + 1 /\ cs[m].at = stack[k].at
<1>1. /\ Len(stack) \in Nat /\ Len(cs) \in Nat
      /\ \A j \in 0..Len(stack) : e[j] \in Nat
  BY WaitsTypes
<1>2. Deal(b, stack[k], cs, e[k - 1], e[k])
  BY DEF Waits
<1>3. e[k - 1] \in Nat /\ e[k] \in Nat
  <2>1. k - 1 \in 0..Len(stack) /\ k \in 0..Len(stack)
    BY <1>1
  <2> QED BY <1>1, <2>1
<1>4. e[k] # e[k - 1]
  BY <1>1, <1>3
<1>5. CASE e[k] = e[k - 1] + 1 /\ OneCont(b, stack[k], cs[e[k]])
  <2>1. m = e[k]
    BY <1>1, <1>3, <1>5
  <2> DEFINE c == cs[m]
  <2>2. OneCont(b, stack[k], c)
    BY <1>5, <2>1
  <2> HIDE DEF c
  <2>3. c.f # "loop" /\ c.i \in Nat
    BY <2>2 DEF OneCont
  <2>4. c.f = "operand" \/ c.acc = <<>>
    BY <2>2 DEF OneCont
  <2>5. ASSUME c.f = "operand" PROVE Silent(b, c.acc, stack[k].vals)
    BY <2>2, <2>5 DEF OneCont
  <2>6. c.f = "operand" => ContOK(c)
    BY <2>3, <2>5, SilentParts DEF ContOK, CodeOK
  <2>7. ContOK(c)
    BY <2>3, <2>4, <2>6, ContBare
  <2> QED BY <2>3, <2>7 DEF c
<1>6. CASE e[k] = e[k - 1] + 2 /\ LoopConts(b, stack[k], cs[e[k - 1] + 1], cs[e[k]])
  <2> DEFINE L == cs[e[k - 1] + 1]
             c == cs[e[k]]
  <2>1. LoopConts(b, stack[k], L, c)
    BY <1>6
  <2> HIDE DEF L, c
  <2>2. L.acc = <<>> /\ L.i \in Nat /\ c.acc = <<>> /\ c.i \in Nat /\ c.f # "loop" /\ L.at = stack[k].at
    BY <2>1 DEF LoopConts, Turns
  <2>3. ContOK(L) /\ ContOK(c)
    BY <2>2, ContBare
  <2>4. m = e[k - 1] + 1 \/ m = e[k]
    BY <1>1, <1>3, <1>6
  <2> QED BY <2>2, <2>3, <2>4 DEF L, c
<1> QED BY <1>2, <1>4, <1>5, <1>6 DEF Deal

\* Each continuation belongs to a frame.
LEMMA DealtBy ==
  ASSUME NEW b, NEW cs, NEW stack, NEW e, Waits(b, cs, stack, e), NEW m \in 1..Len(cs)
  PROVE  \E k \in 1..Len(stack) : e[k - 1] < m /\ m <= e[k]
<1> DEFINE T == {k \in 0..Len(stack) : m <= e[k]}
<1>1. /\ Len(stack) \in Nat /\ Len(cs) \in Nat /\ m \in Nat /\ m > 0
      /\ \A j \in 0..Len(stack) : e[j] \in Nat
      /\ e[0] = 0 /\ e[Len(stack)] = Len(cs)
  BY WaitsTypes
<1>2. T \subseteq Nat /\ Len(stack) \in T
  BY <1>1
<1>3. PICK k \in T : \A y \in T : k <= y
  BY <1>2, LeastNat
<1>4. k \in 0..Len(stack) /\ m <= e[k] /\ k \in Nat
  BY <1>1, <1>3
<1>5. k # 0
  BY <1>1, <1>4
<1>6. k \in 1..Len(stack) /\ k - 1 \in 0..Len(stack) /\ ~(k <= k - 1)
  BY <1>1, <1>4, <1>5
<1>7. ~(m <= e[k - 1]) /\ e[k - 1] \in Nat
  BY <1>1, <1>3, <1>6
<1>8. e[k - 1] < m
  BY <1>1, <1>7
<1> QED BY <1>4, <1>6, <1>8

\* Continuations that stand for a stack hold no code to run, and each loop waits once.
LEMMA StandingSound ==
  ASSUME NEW b, NEW cs, NEW stack, Standing(b, cs, stack)
  PROVE  /\ Sound(cs)
         /\ \A m \in DOMAIN cs : cs[m].f = "loop" => cs[m].at # Awaited(b, stack)
<1>1. PICK e : Waits(b, cs, stack, e)
  BY DEF Standing
<1>2. /\ Listed(cs) /\ Len(cs) \in Nat /\ Len(stack) \in Nat
      /\ DOMAIN cs = 1..Len(cs) /\ e[Len(stack)] = Len(cs)
      /\ \A j \in 1..Len(stack) : stack[j].at \in Nat
  BY <1>1, WaitsTypes
<1>3. \A m \in 1..Len(cs) : ContOK(cs[m])
  <2> TAKE m \in 1..Len(cs)
  <2>1. PICK k \in 1..Len(stack) : e[k - 1] < m /\ m <= e[k]
    BY <1>1, DealtBy
  <2> QED BY <1>1, <2>1, DealPlain
<1>4. ASSUME NEW i \in 1..Len(cs), NEW j \in 1..Len(cs),
             cs[i].f = "loop", cs[j].f = "loop", cs[i].at = cs[j].at
      PROVE  i = j
  <2>1. PICK k \in 1..Len(stack) : e[k - 1] < i /\ i <= e[k]
    BY <1>1, DealtBy
  <2>2. PICK l \in 1..Len(stack) : e[l - 1] < j /\ j <= e[l]
    BY <1>1, DealtBy
  <2>3. i = e[k - 1] + 1 /\ cs[i].at = stack[k].at
    BY <1>1, <1>4, <2>1, DealPlain
  <2>4. j = e[l - 1] + 1 /\ cs[j].at = stack[l].at
    BY <1>1, <1>4, <2>2, DealPlain
  <2>5. k < l => stack[l].at < stack[k].at
    BY <1>1 DEF Waits
  <2>6. l < k => stack[k].at < stack[l].at
    BY <1>1 DEF Waits
  <2>7. stack[k].at \in Nat /\ stack[l].at \in Nat /\ stack[k].at = stack[l].at
    BY <1>2, <1>4, <2>3, <2>4
  <2>8. ~(k < l) /\ ~(l < k)
    BY <2>5, <2>6, <2>7
  <2>9. k = l
    BY <1>2, <2>8
  <2> QED BY <2>3, <2>4, <2>9
<1>5. Sound(cs)
  BY <1>2, <1>3, <1>4 DEF Sound
<1>6. ASSUME NEW m \in DOMAIN cs, cs[m].f = "loop" PROVE cs[m].at # Awaited(b, stack)
  <2>1. Len(stack) \in 0..Len(stack)
    BY <1>2
  <2>2. InLoop(b, cs, stack, e, Len(stack))
    BY <1>1, <2>1 DEF Waits
  <2>3. Awaited(b, stack) = Wanted(b, stack, Len(stack))
    BY DEF Awaited
  <2> DEFINE a == cs[m].at
             w == Wanted(b, stack, Len(stack))
  <2>4. a \in Nat /\ a > w
    BY <1>2, <1>6, <2>2 DEF InLoop
  <2> HIDE DEF a, w
  <2>5. a # w
    BY <2>4
  <2> QED BY <2>3, <2>5 DEF a, w
<1> QED BY <1>5, <1>6

\* One continuation more.
LEMMA SoundMore ==
  ASSUME NEW cs, Sound(cs), NEW c, ContOK(c),
         c.f = "loop" => \A m \in DOMAIN cs : cs[m].f = "loop" => cs[m].at # c.at
  PROVE  Sound(Append(cs, c))
<1> DEFINE n == Len(cs)
           more == Append(cs, c)
<1>1. Listed(cs) /\ n \in Nat /\ DOMAIN cs = 1..n
  BY ListLen DEF Sound
<1>2. /\ Listed(more) /\ Len(more) = n + 1 /\ more[n + 1] = c
      /\ \A i \in 1..n : more[i] = cs[i]
  BY <1>1, ListMore
<1>3. DOMAIN more = 1..(n + 1)
  BY <1>2, ListLen
<1> HIDE DEF n, more
<1>4. \A i \in 1..(n + 1) : i \in 1..n \/ i = n + 1
  BY <1>1
<1>5. \A i \in 1..(n + 1) : ContOK(more[i])
  BY <1>1, <1>2, <1>4 DEF Sound
<1>6. ASSUME NEW i \in 1..(n + 1), NEW j \in 1..(n + 1),
             more[i].f = "loop", more[j].f = "loop", more[i].at = more[j].at
      PROVE  i = j
  <2>1. CASE i \in 1..n /\ j \in 1..n
    BY <1>1, <1>2, <1>6, <2>1 DEF Sound
  <2>2. CASE i \in 1..n /\ j = n + 1
    BY <1>1, <1>2, <1>6, <2>2
  <2>3. CASE i = n + 1 /\ j \in 1..n
    BY <1>1, <1>2, <1>6, <2>3
  <2> QED BY <1>4, <2>1, <2>2, <2>3
<1>7. Sound(more)
  BY <1>2, <1>3, <1>5, <1>6 DEF Sound
<1> QED BY <1>7 DEF more

\* One continuation less.
LEMMA SoundFront ==
  ASSUME NEW cs, Sound(cs), cs # <<>>
  PROVE  Sound(Front(cs))
<1> DEFINE n == Len(cs)
           less == Front(cs)
<1>1. Listed(cs) /\ n \in Nat /\ n > 0 /\ DOMAIN cs = 1..n
  BY ListLen DEF Sound
<1>2. Listed(less) /\ Len(less) = n - 1 /\ \A i \in 1..(n - 1) : less[i] = cs[i]
  BY <1>1, ListLast
<1>3. DOMAIN less = 1..(n - 1)
  BY <1>2, ListLen
<1>4. \A i \in 1..(n - 1) : i \in 1..n
  BY <1>1
<1> HIDE DEF n, less
<1>5. \A i \in DOMAIN less : i \in DOMAIN cs /\ less[i] = cs[i]
  BY <1>1, <1>2, <1>3, <1>4
<1>6. Sound(less)
  BY <1>2, <1>5 DEF Sound
<1> QED BY <1>6 DEF less

\* The loop directly below a continuation is its loop.
LEMMA EnvBelow ==
  ASSUME NEW cs, Listed(cs), cs # <<>>, Last(cs).f = "loop", NEW c, c.f # "loop"
  PROVE  Env(Append(cs, c)) = cs
<1> DEFINE n == Len(cs)
           more == Append(cs, c)
<1>1. n \in Nat /\ n > 0 /\ cs[n] = Last(cs)
  BY ListLen, ListLast
<1>2. /\ Listed(more) /\ Len(more) = n + 1 /\ more[n + 1] = c
      /\ \A i \in 1..n : more[i] = cs[i]
      /\ SubSeq(more, 1, n) = SubSeq(cs, 1, n)
  <2>1. n \in 0..n
    BY <1>1
  <2> QED BY <2>1, ListMore
<1>3. DOMAIN more = 1..(n + 1)
  BY <1>2, ListLen
<1>4. SubSeq(cs, 1, n) = cs
  <2>1. n \in 0..n
    BY <1>1
  <2> QED BY <2>1, ListPart
<1> HIDE DEF n, more
<1>5. n \in 1..n /\ n \in 1..(n + 1) /\ \A i \in 1..(n + 1) : (i <= n /\ i \in Nat) \/ i = n + 1
  BY <1>1
<1>6. more[n].f = "loop"
  BY <1>1, <1>2, <1>5
<1>7. IsLastLoop(more, n)
  BY <1>2, <1>3, <1>5, <1>6 DEF IsLastLoop
<1>8. \A i \in DOMAIN more : IsLastLoop(more, i) => i = n
  <2> SUFFICES ASSUME NEW i \in 1..(n + 1), IsLastLoop(more, i) PROVE i = n
    BY <1>3
  <2>1. n <= i /\ more[i].f = "loop"
    BY <1>3, <1>5, <1>6 DEF IsLastLoop
  <2>2. i # n + 1
    BY <1>2, <2>1
  <2>3. i <= n /\ i \in Nat
    BY <1>5, <2>2
  <2> QED BY <1>1, <2>1, <2>3
<1>9. LastLoop(more) = n
  BY <1>3, <1>5, <1>6, <1>7, <1>8 DEF LastLoop
<1>10. Env(more) = cs
  BY <1>2, <1>4, <1>9 DEF Env
<1> QED BY <1>10 DEF more

-----------------------------------------------------------------------------
(* What is rewritten, or run, now, and where the body itself is: `g` is the  *)
(* state it is in once the events before have taken place.                   *)

\* The kids of `n` from the `i`-th need no temporary and make no call.
Settled(b, n, i) ==
    \A j \in DOMAIN b[n].kids : j >= i => ~b[b[n].kids[j]].rec /\ j > b[n].places

AtCps(b, g, n, cs) ==
    \E stack : /\ Standing(b, cs, stack) /\ n = Awaited(b, stack) /\ n \in DOMAIN b
               /\ Star(b, g, Eval(n, stack))
OfSeq(b, n, i, cs, stack) ==
    /\ Standing(b, cs, stack) /\ Here(b, n, stack)
    /\ b[n].kind \in {"op", "pure", "rec"} /\ i \in 1..(Len(b[n].kids) + 1)
QuietSeq(b, g, n, i, code, stack) ==
    \E vals : /\ Silent(b, code, vals) /\ Len(vals) = i - 1
              /\ Star(b, g, Position(b, n, i, vals, stack))
BusySeq(b, H, g, n, i, code, stack) ==
    /\ Follows(b, code, <<>>, g, ToOperand(n, i, stack)) /\ Settled(b, n, i)
    /\ b[n].kind = "pure" => n \in H
AtSeq(b, H, g, n, i, code, cs) ==
    /\ Listed(code) /\ CodeOK(code)
    /\ \E stack : /\ OfSeq(b, n, i, cs, stack)
                  /\ \/ QuietSeq(b, g, n, i, code, stack)
                     \/ BusySeq(b, H, g, n, i, code, stack)
AtStmts(b, g, n, i, cs) ==
    \E stack :
        /\ Standing(b, cs, stack) /\ Here(b, n, stack)
        /\ b[n].kind \in {"block", "stmts"} /\ i \in 1..(Len(b[n].kids) + 1)
        /\ b[n].kind = "block" => i <= Len(b[n].kids)
        /\ i <= Len(b[n].kids) => \E turn \in Nat : Star(b, g, Eval(b[n].kids[i], Append(stack, Frame(n, i, <<>>, turn))))
        /\ i > Len(b[n].kids) => Star(b, g, Yield(Unit, stack))
AtEnter(b, g, n, cs) ==
    /\ cs # <<>> /\ Listed(cs) /\ Last(cs).f = "loop" /\ Last(cs).at = n
    /\ Last(cs).acc = <<>> /\ Last(cs).i \in Nat /\ b[n].kind \in Looping
    /\ \E stack :
          /\ Standing(b, Front(cs), stack) /\ Here(b, n, stack)
          /\ b[n].kind \in Iterating =>
                \E fr : Star(b, g, Doing("next", n, <<>>, Last(cs).i, Append(stack, fr)))
          /\ b[n].kind \notin Iterating =>
                \E turn \in Nat : Star(b, g, Eval(b[n].kids[1], Append(stack, Frame(n, 1, <<>>, turn))))
QuietApply(b, g, code, stack) ==
    \E v \in Values : Silent(b, code, <<v>>) /\ Star(b, g, Yield(v, stack))
BusyApply(b, H, g, code, stack) ==
    Follows(b, code, <<>>, g, ToValue(stack)) /\ Awaited(b, stack) \in H
AtApply(b, H, g, code, cs) ==
    /\ Listed(code) /\ CodeOK(code)
    /\ \E stack : /\ Standing(b, cs, stack)
                  /\ QuietApply(b, g, code, stack) \/ BusyApply(b, H, g, code, stack)
AtEmit(b, g, code, vals, cs) == CodeOK(code) /\ Follows(b, code, vals, g, ToCont(cs))
AtValue(b, g, vals, cs) == \E v : vals = <<v>> /\ Goes(b, cs, v, g)
AtDone(b, g, vals) == \E v : vals = <<v>> /\ Star(b, g, End(v))

\* An expression with a recursive call in a kid has a first kid.
LEMMA FirstIn ==
  ASSUME NEW b, WellFormed(b), NEW n \in DOMAIN b, b[n].rec, b[n].kind # "rec"
  PROVE  1 \in DOMAIN b[n].kids /\ b[n].kids # <<>>
<1>1. \E i \in DOMAIN b[n].kids : TRUE
  BY DEF WellFormed, Recurses
<1>2. DOMAIN b[n].kids = 1..Len(b[n].kids) /\ Len(b[n].kids) \in Nat
      /\ b[n].kids # <<>> <=> Len(b[n].kids) > 0
  BY Inside, ListLen
<1> QED BY <1>1, <1>2

\* A frame of an expression of the body.
LEMMA NewFrame ==
  ASSUME NEW b, WellFormed(b), NEW n \in DOMAIN b, NEW i \in DOMAIN b[n].kids, NEW turn \in Nat,
         NEW vals \in Seq(Values)
  PROVE  LET fr == Frame(n, i, vals, turn)
         IN  fr \in Frames /\ fr.at = n /\ fr.i = i /\ fr.vals = vals /\ fr.turn = turn
<1>1. n \in Nat /\ i \in Nat
  <2>1. n \in Nat /\ Len(b[n].kids) \in Nat /\ DOMAIN b[n].kids = 1..Len(b[n].kids)
    BY Inside, ListLen
  <2> QED BY <2>1
<1> QED BY <1>1, FrameFields

\* Continuing with a kid. With a continuation of its own, and without.
LEMMA WithOne ==
  ASSUME NEW b, WellFormed(b), NEW cs, NEW stack, Standing(b, cs, stack),
         NEW fr \in Frames, Here(b, fr.at, stack), fr.i \in DOMAIN b[fr.at].kids,
         NEW c, OneCont(b, fr, c),
         NEW g, Star(b, g, Eval(b[fr.at].kids[fr.i], Append(stack, fr)))
  PROVE  AtCps(b, g, b[fr.at].kids[fr.i], Append(cs, c))
<1> DEFINE kid == b[fr.at].kids[fr.i]
           more == Append(stack, fr)
<1>1. fr.at \in DOMAIN b /\ b[fr.at].rec /\ fr.at = Awaited(b, stack)
  BY DEF Here
<1>2. Standing(b, Append(cs, c), more)
  BY <1>1, StandingOne
<1>3. kid \in DOMAIN b
  BY <1>1, Inside
<1>4. Awaited(b, more) = kid
  <2>1. Listed(stack)
    BY WaitsTypes DEF Standing
  <2>2. Len(more) = Len(stack) + 1 /\ more[Len(stack) + 1] = fr /\ Len(stack) \in Nat
    BY <2>1, ListMore, ListLen
  <2> HIDE DEF more
  <2> QED BY <2>2 DEF Awaited, Wanted
<1> QED BY <1>2, <1>3, <1>4 DEF AtCps

\* A kid that no continuation waits for is rewritten next.
LEMMA WithNone ==
  ASSUME NEW b, WellFormed(b), NEW cs, NEW stack, Standing(b, cs, stack),
         NEW fr \in Frames, Here(b, fr.at, stack), fr.i \in DOMAIN b[fr.at].kids,
         Clear(b[fr.at], fr.i),
         NEW g, Star(b, g, Eval(b[fr.at].kids[fr.i], Append(stack, fr)))
  PROVE  AtCps(b, g, b[fr.at].kids[fr.i], cs)
<1> DEFINE kid == b[fr.at].kids[fr.i]
           more == Append(stack, fr)
<1>1. fr.at \in DOMAIN b /\ b[fr.at].rec /\ fr.at = Awaited(b, stack)
  BY DEF Here
<1>2. Standing(b, cs, more)
  BY <1>1, StandingClear
<1>3. kid \in DOMAIN b
  BY <1>1, Inside
<1>4. Awaited(b, more) = kid
  <2>1. Listed(stack)
    BY WaitsTypes DEF Standing
  <2>2. Len(more) = Len(stack) + 1 /\ more[Len(stack) + 1] = fr /\ Len(stack) \in Nat
    BY <2>1, ListMore, ListLen
  <2> HIDE DEF more
  <2> QED BY <2>2 DEF Awaited, Wanted
<1> QED BY <1>2, <1>3, <1>4 DEF AtCps

\* A kid of a loop is rewritten next.
LEMMA WithLoop ==
  ASSUME NEW b, WellFormed(b), NEW cs, NEW stack, Standing(b, cs, stack),
         NEW fr \in Frames, Here(b, fr.at, stack), fr.i \in DOMAIN b[fr.at].kids,
         NEW L, NEW c, LoopConts(b, fr, L, c),
         NEW g, Star(b, g, Eval(b[fr.at].kids[fr.i], Append(stack, fr)))
  PROVE  AtCps(b, g, b[fr.at].kids[fr.i], Append(Append(cs, L), c))
<1> DEFINE kid == b[fr.at].kids[fr.i]
           more == Append(stack, fr)
<1>1. fr.at \in DOMAIN b /\ b[fr.at].rec /\ fr.at = Awaited(b, stack)
  BY DEF Here
<1>2. Standing(b, Append(Append(cs, L), c), more)
  BY <1>1, StandingLoop
<1>3. kid \in DOMAIN b
  BY <1>1, Inside
<1>4. Awaited(b, more) = kid
  <2>1. Listed(stack)
    BY WaitsTypes DEF Standing
  <2>2. Len(more) = Len(stack) + 1 /\ more[Len(stack) + 1] = fr /\ Len(stack) \in Nat
    BY <2>1, ListMore, ListLen
  <2> HIDE DEF more
  <2> QED BY <2>2 DEF Awaited, Wanted
<1> QED BY <1>2, <1>3, <1>4 DEF AtCps

-----------------------------------------------------------------------------
(* cps_expr. *)

\* CpsLeaf: the code of a leaf is handed on.
LEMMA LeafGoes ==
  ASSUME NEW b, WellFormed(b), NEW H, KeepsOrder(b, H), NEW g, NEW n, NEW cs,
         AtCps(b, g, n, cs), ~b[n].rec
  PROVE  AtApply(b, H, g, Splice(b, cs, n), cs)
<1>1. PICK stack : Standing(b, cs, stack) /\ n = Awaited(b, stack) /\ n \in DOMAIN b /\ Star(b, g, Eval(n, stack))
  BY DEF AtCps
<1>2. Listed(Splice(b, cs, n)) /\ CodeOK(Splice(b, cs, n))
  BY ItemsOK
<1>3. CASE b[n].kind = "lit"
  <2>1. Splice(b, cs, n) = UnitCode /\ Star(b, g, Yield(Unit, stack))
    BY <1>1, <1>3, EvalLit, StarStep DEF Splice
  <2>2. QuietApply(b, g, Splice(b, cs, n), stack)
    BY <2>1, SilentUnit DEF QuietApply, Unit, Values
  <2> QED BY <1>1, <1>2, <2>2 DEF AtApply
<1>4. CASE b[n].kind # "lit"
  <2>1. n \in H
    BY <1>1, <1>4 DEF KeepsOrder, Hands
  <2>2. Known(b, Env(cs), stack, b[n].loop)
    BY <1>1, KnownHere
  <2>3. \A v \in Values : \A h : Star(b, h, Yield(v, stack)) => Reached(b, ToValue(stack), Append(<<>>, v), h)
    <3> TAKE v \in Values
    <3> TAKE h
    <3>1. Append(<<>>, v) = <<v>>
      BY ListOne
    <3> QED BY <3>1, ReachedValue
  <2>4. <<>> \in Seq(Values)
    BY EmptySeq
  <2>5. Follows(b, Splice(b, cs, n), <<>>, g, ToValue(stack))
    BY <1>1, <2>2, <2>3, <2>4, FollowsSplice
  <2>6. BusyApply(b, H, g, Splice(b, cs, n), stack)
    BY <1>1, <2>1, <2>5 DEF BusyApply
  <2> QED BY <1>1, <1>2, <2>6 DEF AtApply
<1> QED BY <1>3, <1>4

\* CpsOperands: the operands come first.
LEMMA OperandsGo ==
  ASSUME NEW b, WellFormed(b), NEW H, NEW g, NEW n, NEW cs,
         AtCps(b, g, n, cs), b[n].rec, b[n].kind \in {"op", "pure", "rec"}
  PROVE  AtSeq(b, H, g, n, 1, <<>>, cs)
<1>1. PICK stack : Standing(b, cs, stack) /\ n = Awaited(b, stack) /\ n \in DOMAIN b /\ Star(b, g, Eval(n, stack))
  BY DEF AtCps
<1>2. Len(b[n].kids) \in Nat
  BY <1>1, Inside, ListLen
<1>3. OfSeq(b, n, 1, cs, stack)
  BY <1>1, <1>2 DEF OfSeq, Here
<1>4. Star(b, g, Position(b, n, 1, <<>>, stack))
  BY <1>1, PositionStart
<1>5. Len(<<>>) = 1 - 1
  BY EmptySeq
<1>6. QuietSeq(b, g, n, 1, <<>>, stack)
  BY <1>4, <1>5, SilentEmpty DEF QuietSeq
<1> QED BY <1>3, <1>6, CodeOKNone DEF AtSeq

\* The first kid of an expression under way.
LEMMA FirstGoes ==
  ASSUME NEW b, WellFormed(b), NEW g, NEW n, NEW cs, NEW stack,
         Standing(b, cs, stack), n = Awaited(b, stack), n \in DOMAIN b, Star(b, g, Eval(n, stack)),
         b[n].rec, b[n].kind # "rec"
  PROVE  LET fr == Frame(n, 1, <<>>, 0)
         IN  /\ fr \in Frames /\ fr.at = n /\ fr.i = 1 /\ fr.vals = <<>> /\ fr.turn = 0
             /\ 1 \in DOMAIN b[n].kids /\ Here(b, n, stack)
             /\ Star(b, g, Eval(b[n].kids[1], Append(stack, fr)))
<1>1. 1 \in DOMAIN b[n].kids /\ b[n].kids # <<>>
  BY FirstIn
<1>2. <<>> \in Seq(Values) /\ 0 \in Nat
  BY EmptySeq
<1>3. LET fr == Frame(n, 1, <<>>, 0)
      IN  fr \in Frames /\ fr.at = n /\ fr.i = 1 /\ fr.vals = <<>> /\ fr.turn = 0
  <2>1. n \in Nat /\ 1 \in Nat
    BY Inside
  <2> DEFINE fr == Frame(n, 1, <<>>, 0)
  <2>2. fr.at = n /\ fr.i = 1 /\ fr.vals = <<>> /\ fr.turn = 0
    BY DEF Frame
  <2>3. fr \in Frames
    BY <1>2, <2>1 DEF Frame, Frames
  <2> QED BY <2>2, <2>3
<1>4. b[n].kind # "lit"
  <2>1. b[n].kind = "lit" => b[n].kids = <<>>
    BY DEF WellFormed
  <2> QED BY <1>1, <2>1
<1>5. Star(b, g, Eval(b[n].kids[1], Append(stack, Frame(n, 1, <<>>, 0))))
  BY <1>1, <1>4, EvalFirst, StarStep
<1> QED BY <1>1, <1>3, <1>5 DEF Here

\* FirstKid: the first kid comes first, and a continuation waits for it.
LEMMA KidGoes ==
  ASSUME NEW b, WellFormed(b), NEW g, NEW n, NEW cs, AtCps(b, g, n, cs), b[n].rec, NEW f,
         \/ f = "cond" /\ b[n].kind = "if"
         \/ f = "left" /\ b[n].kind \in {"and", "or"}
         \/ f \in {"return", "try", "assign", "break"} /\ b[n].kind = f
         \/ f = "iter" /\ b[n].kind \in Iterating
  PROVE  AtCps(b, g, b[n].kids[1], Append(cs, Cont(f, n, 0, <<>>)))
<1>1. PICK stack : Standing(b, cs, stack) /\ n = Awaited(b, stack) /\ n \in DOMAIN b /\ Star(b, g, Eval(n, stack))
  BY DEF AtCps
<1> DEFINE fr == Frame(n, 1, <<>>, 0)
           c == Cont(f, n, 0, <<>>)
<1>2. b[n].kind # "rec"
  BY DEF Iterating
<1>3. /\ fr \in Frames /\ fr.at = n /\ fr.i = 1 /\ fr.vals = <<>> /\ fr.turn = 0
      /\ 1 \in DOMAIN b[n].kids /\ Here(b, n, stack)
      /\ Star(b, g, Eval(b[n].kids[1], Append(stack, fr)))
  BY <1>1, <1>2, FirstGoes
<1>4. c.f = f /\ c.at = n /\ c.i = 0 /\ c.acc = <<>>
  BY DEF Cont
<1> HIDE DEF fr, c
<1>5. OneCont(b, fr, c)
  BY <1>3, <1>4 DEF OneCont
<1>6. AtCps(b, g, b[fr.at].kids[fr.i], Append(cs, c))
  BY <1>1, <1>3, <1>5, WithOne
<1> QED BY <1>3, <1>6 DEF c

\* CpsBlock: the statements come one after the other.
LEMMA BlockGoes ==
  ASSUME NEW b, WellFormed(b), NEW g, NEW n, NEW cs, AtCps(b, g, n, cs), b[n].rec,
         b[n].kind \in {"block", "stmts"}
  PROVE  AtStmts(b, g, n, 1, cs)
<1>1. PICK stack : Standing(b, cs, stack) /\ n = Awaited(b, stack) /\ n \in DOMAIN b /\ Star(b, g, Eval(n, stack))
  BY DEF AtCps
<1>2. 1 \in DOMAIN b[n].kids /\ Here(b, n, stack)
      /\ Star(b, g, Eval(b[n].kids[1], Append(stack, Frame(n, 1, <<>>, 0))))
  BY <1>1, FirstGoes
<1>3. DOMAIN b[n].kids = 1..Len(b[n].kids) /\ Len(b[n].kids) \in Nat
  BY <1>1, Inside, ListLen
<1>4. 1 \in 1..(Len(b[n].kids) + 1) /\ 1 <= Len(b[n].kids) /\ ~(1 > Len(b[n].kids)) /\ 0 \in Nat
  BY <1>2, <1>3
<1> QED BY <1>1, <1>2, <1>4 DEF AtStmts

\* CpsLoop: a loop begins, with the continuation after it.
LEMMA LoopGoes ==
  ASSUME NEW b, WellFormed(b), NEW g, NEW n, NEW cs, AtCps(b, g, n, cs), b[n].rec,
         b[n].kind \in {"while", "loop"}
  PROVE  /\ AtEnter(b, g, n, Append(cs, Cont("loop", n, 0, <<>>)))
         /\ Sound(Append(cs, Cont("loop", n, 0, <<>>)))
<1>1. PICK stack : Standing(b, cs, stack) /\ n = Awaited(b, stack) /\ n \in DOMAIN b /\ Star(b, g, Eval(n, stack))
  BY DEF AtCps
<1> DEFINE c == Cont("loop", n, 0, <<>>)
           more == Append(cs, c)
<1>2. 1 \in DOMAIN b[n].kids /\ Here(b, n, stack)
      /\ Star(b, g, Eval(b[n].kids[1], Append(stack, Frame(n, 1, <<>>, 0))))
  BY <1>1, FirstGoes
<1>3. c.f = "loop" /\ c.at = n /\ c.i = 0 /\ c.acc = <<>>
  BY DEF Cont
<1>4. Sound(cs) /\ \A m \in DOMAIN cs : cs[m].f = "loop" => cs[m].at # n
  BY <1>1, StandingSound
<1> HIDE DEF c
<1>5. ContOK(c)
  BY <1>3, ContBare
<1>6. Sound(more)
  BY <1>3, <1>4, <1>5, SoundMore
<1>7. Listed(more) /\ more # <<>> /\ Last(more) = c /\ Front(more) = cs
  BY <1>4, ListMore DEF Sound
<1> HIDE DEF more
<1>8. b[n].kind \in Looping /\ b[n].kind \notin Iterating
  BY DEF Looping, Iterating
<1>9. AtEnter(b, g, n, more)
  BY <1>1, <1>2, <1>3, <1>7, <1>8 DEF AtEnter
<1> QED BY <1>6, <1>9 DEF more, c

-----------------------------------------------------------------------------
(* cps_seq. *)

\* A continuation that goes on with a value takes it.
LEMMA GoesMore ==
  ASSUME NEW b, NEW cs, Listed(cs), NEW c, NEW v \in Values, NEW g, Resumes(b, cs, c, v, g)
  PROVE  Goes(b, Append(cs, c), v, g)
BY ListMore DEF Goes

\* The frames of a stack are those of the expressions around.
LEMMA StandingAbove ==
  ASSUME NEW b, WellFormed(b), NEW cs, NEW stack, Standing(b, cs, stack)
  PROVE  \A m \in DOMAIN stack : stack[m].at # Awaited(b, stack)
<1> DEFINE N == Len(stack)
           w == Awaited(b, stack)
<1>1. PICK e : Waits(b, cs, stack, e)
  BY DEF Standing
<1>2. /\ N \in Nat /\ DOMAIN stack = 1..N
      /\ \A j \in 1..N : stack[j].at \in Nat
  BY <1>1, WaitsTypes
<1> SUFFICES ASSUME NEW m \in 1..N PROVE stack[m].at # w
  BY <1>2
<1>3. N \in 1..N /\ N # 0
  BY <1>2
<1>4. stack[N].at \in DOMAIN b /\ stack[N].i \in DOMAIN b[stack[N].at].kids
  BY <1>1, <1>3 DEF Waits, Deeper
<1>5. w = b[stack[N].at].kids[stack[N].i]
  BY <1>3 DEF Awaited, Wanted
<1>6. w < stack[N].at /\ w \in Nat
  BY <1>4, <1>5, Inside
<1>7. m = N \/ stack[N].at < stack[m].at
  <2> HIDE DEF N
  <2>1. m = N \/ m < N
    BY <1>2
  <2> USE DEF N
  <2> QED BY <1>1, <1>3, <2>1 DEF Waits
<1>8. stack[m].at \in Nat /\ stack[N].at \in Nat
  BY <1>2, <1>3
<1> HIDE DEF w
<1> QED BY <1>6, <1>7, <1>8

\* What `break` means in a kid.
LEMMA KnownKid ==
  ASSUME NEW b, WellFormed(b), NEW cs, NEW stack, Standing(b, cs, stack), NEW n, Here(b, n, stack),
         NEW i \in DOMAIN b[n].kids, b[n].kind \notin Looping, NEW fr, fr.at = n
  PROVE  Known(b, Env(cs), Append(stack, fr), b[b[n].kids[i]].loop)
<1> DEFINE l == b[n].loop
<1>1. n \in DOMAIN b /\ n = Awaited(b, stack)
  BY DEF Here
<1>2. b[b[n].kids[i]].loop = l
  BY <1>1, Inside DEF LoopIn
<1>3. Known(b, Env(cs), stack, l)
  BY <1>1, KnownHere
<1>4. n # l
  <2>1. n # 0
    BY <1>1, Inside
  <2>2. ASSUME l # 0 PROVE n # l
    <3>1. LoopAt(stack, l) \in DOMAIN stack /\ stack[LoopAt(stack, l)].at = l
      BY <1>3, <2>2 DEF Known
    <3> QED BY <1>1, <3>1, StandingAbove
  <2> QED BY <2>1, <2>2
<1>5. Listed(stack)
  BY WaitsTypes DEF Standing
<1> HIDE DEF l
<1>6. Known(b, Env(cs), Append(stack, fr), l)
  BY <1>3, <1>4, <1>5, KnownMore
<1> QED BY <1>2, <1>6

\* Code that runs silently leads where its values do.
LEMMA SilentGoes ==
  ASSUME NEW b, NEW code, NEW vals, Silent(b, code, vals), NEW g, NEW goal, Reached(b, goal, vals, g)
  PROVE  Follows(b, code, <<>>, g, goal)
<1>1. Follows(b, code, <<>>, g, ToState(vals, g))
  BY SilentFollows
<1>2. \A w \in Seq(Values) : \A h : Reached(b, ToState(vals, g), w, h) => Reached(b, goal, w, h)
  BY ReachedState
<1> QED BY <1>1, <1>2, FollowsTo

\* The code of the operands so far leads to the next operand.
LEMMA SeqFollows ==
  ASSUME NEW b, NEW H, NEW g, NEW n, NEW i, NEW code, NEW stack,
         QuietSeq(b, g, n, i, code, stack) \/ BusySeq(b, H, g, n, i, code, stack)
  PROVE  Follows(b, code, <<>>, g, ToOperand(n, i, stack))
<1>1. ASSUME QuietSeq(b, g, n, i, code, stack)
      PROVE  Follows(b, code, <<>>, g, ToOperand(n, i, stack))
  <2>1. PICK vals : /\ Silent(b, code, vals) /\ Len(vals) = i - 1
                    /\ Star(b, g, Position(b, n, i, vals, stack))
    BY <1>1 DEF QuietSeq
  <2>2. Reached(b, ToOperand(n, i, stack), vals, g)
    BY <2>1, ReachedOperand
  <2> QED BY <2>1, <2>2, SilentGoes
<1> QED BY <1>1 DEF BusySeq

\* All operands are there.
LEMMA EndFollows ==
  ASSUME NEW b, WellFormed(b), NEW n \in DOMAIN b, b[n].kind \in {"op", "rec"}, NEW stack,
         NEW code, Listed(code), NEW g, Follows(b, code, <<>>, g, ToOperand(n, Len(b[n].kids) + 1, stack)),
         NEW goal, \A out \in Values : Reached(b, goal, <<out>>, Yield(out, stack))
  PROVE  Follows(b, code \o Perform(b, n), <<>>, g, goal)
<1> DEFINE k == Len(b[n].kids)
<1>1. k \in Nat /\ k + 1 - 1 = k /\ ~(k + 1 <= k)
  BY Inside, ListLen
<1>2. Arity(b[n]) = k
  BY DEF Arity, Iterating
<1>3. ASSUME NEW w \in Seq(Values), NEW h, Reached(b, ToOperand(n, k + 1, stack), w, h)
      PROVE  Follows(b, Perform(b, n), w, h, goal)
  <2>1. Len(w) = k /\ Star(b, h, Position(b, n, k + 1, w, stack))
    BY <1>1, <1>3, ReachedOperand
  <2>2. Position(b, n, k + 1, w, stack) = Doing("op", n, w, 0, stack)
    BY <1>1 DEF Position
  <2>3. \A out \in Values : Reached(b, goal, <<out>>, Went(b, Doing("op", n, w, 0, stack), out))
    <3> TAKE out \in Values
    <3>1. Went(b, Doing("op", n, w, 0, stack), out) = Yield(out, stack)
      BY WentOp
    <3> QED BY <3>1
  <2> QED BY <1>2, <2>1, <2>2, <2>3, FollowsPerform
<1>4. Listed(Perform(b, n))
  BY ItemsOK
<1> HIDE DEF k
<1>5. Follows(b, code, <<>>, g, ToOperand(n, k + 1, stack))
  BY DEF k
<1> QED BY <1>3, <1>4, <1>5, FollowsJoin

\* SeqEnd of a recursive call: the frame is pushed when the operands have run.
LEMMA SeqEndEmits ==
  ASSUME NEW b, WellFormed(b), NEW H, NEW g, NEW n, NEW i, NEW code, NEW cs,
         AtSeq(b, H, g, n, i, code, cs), i > Len(b[n].kids), b[n].kind = "rec"
  PROVE  AtEmit(b, g, code \o Perform(b, n), <<>>, Append(cs, Cont("called", n, 0, <<>>)))
<1> DEFINE c == Cont("called", n, 0, <<>>)
<1>1. PICK stack : /\ OfSeq(b, n, i, cs, stack)
                   /\ QuietSeq(b, g, n, i, code, stack) \/ BusySeq(b, H, g, n, i, code, stack)
  BY DEF AtSeq
<1>2. n \in DOMAIN b /\ Standing(b, cs, stack) /\ Listed(cs) /\ Listed(code) /\ CodeOK(code)
  BY <1>1, StandingSound DEF OfSeq, Here, Sound, AtSeq
<1>3. i = Len(b[n].kids) + 1
  <2>1. Len(b[n].kids) \in Nat /\ i \in 1..(Len(b[n].kids) + 1)
    BY <1>1, <1>2, Inside, ListLen DEF OfSeq
  <2> QED BY <2>1
<1>4. Follows(b, code, <<>>, g, ToOperand(n, Len(b[n].kids) + 1, stack))
  BY <1>1, <1>3, SeqFollows
<1>5. \A out \in Values : Reached(b, ToCont(Append(cs, c)), <<out>>, Yield(out, stack))
  <2> TAKE out \in Values
  <2>1. c.f = "called"
    BY DEF Cont
  <2>2. After(b, cs, Yield(out, stack), out)
    BY <1>2, StarHere DEF After
  <2> HIDE DEF c
  <2>3. Goes(b, Append(cs, c), out, Yield(out, stack))
    BY <1>2, <2>1, <2>2, GoesMore DEF Resumes
  <2> QED BY <2>3, ReachedCont
<1> HIDE DEF c
<1>6. Follows(b, code \o Perform(b, n), <<>>, g, ToCont(Append(cs, c)))
  BY <1>2, <1>4, <1>5, EndFollows
<1>7. CodeOK(code \o Perform(b, n))
  BY <1>2, ItemsOK, CodeOKJoin
<1> QED BY <1>6, <1>7 DEF AtEmit, c

\* SeqEnd of the other expressions: their code is handed on.
LEMMA SeqEndApplies ==
  ASSUME NEW b, WellFormed(b), NEW H, KeepsOrder(b, H), NEW g, NEW n, NEW i, NEW code, NEW cs,
         AtSeq(b, H, g, n, i, code, cs), i > Len(b[n].kids), b[n].kind # "rec"
  PROVE  AtApply(b, H, g, code \o Perform(b, n), cs)
<1> DEFINE all == code \o Perform(b, n)
           k == Len(b[n].kids)
<1>1. PICK stack : /\ OfSeq(b, n, i, cs, stack)
                   /\ QuietSeq(b, g, n, i, code, stack) \/ BusySeq(b, H, g, n, i, code, stack)
  BY DEF AtSeq
<1>2. n \in DOMAIN b /\ n = Awaited(b, stack) /\ b[n].rec /\ Standing(b, cs, stack)
      /\ Listed(code) /\ CodeOK(code) /\ b[n].kind \in {"op", "pure"}
  BY <1>1 DEF OfSeq, Here, AtSeq
<1>3. i = k + 1 /\ k \in Nat
  <2>1. k \in Nat /\ i \in 1..(k + 1)
    BY <1>1, <1>2, Inside, ListLen DEF OfSeq
  <2> QED BY <2>1
<1>4. Listed(all) /\ CodeOK(all)
  BY <1>2, ItemsOK, CodeOKJoin
<1>5. Follows(b, code, <<>>, g, ToOperand(n, k + 1, stack))
  BY <1>1, <1>3, SeqFollows
<1>6. CASE b[n].kind = "op"
  <2>1. n \in H
    BY <1>2, <1>6 DEF KeepsOrder, Hands
  <2>2. \A out \in Values : Reached(b, ToValue(stack), <<out>>, Yield(out, stack))
    BY ReachedValue, StarHere
  <2>3. Follows(b, all, <<>>, g, ToValue(stack))
    BY <1>2, <1>5, <1>6, <2>2, EndFollows
  <2> HIDE DEF all
  <2> QED BY <1>2, <1>4, <2>1, <2>3 DEF AtApply, BusyApply, all
<1>7. CASE b[n].kind = "pure"
  <2>0. \A w : Position(b, n, k + 1, w, stack) = Yield(Unit, stack)
    BY <1>3, <1>7 DEF Position
  <2>1. CASE QuietSeq(b, g, n, i, code, stack)
    <3>1. PICK vals : /\ Silent(b, code, vals) /\ Len(vals) = i - 1
                      /\ Star(b, g, Position(b, n, i, vals, stack))
      BY <2>1 DEF QuietSeq
    <3>2. Len(vals) = k
      BY <1>3, <3>1
    <3>3. Silent(b, all, <<Unit>>)
      BY <1>7, <3>1, <3>2, SilentPure
    <3>4. Star(b, g, Yield(Unit, stack))
      BY <1>3, <2>0, <3>1
    <3> HIDE DEF all
    <3>5. QuietApply(b, g, all, stack)
      BY <3>3, <3>4 DEF QuietApply, Unit, Values
    <3> QED BY <1>2, <1>4, <3>5 DEF AtApply, all
  <2>2. CASE BusySeq(b, H, g, n, i, code, stack)
    <3>1. n \in H
      BY <1>7, <2>2 DEF BusySeq
    <3>2. ASSUME NEW w \in Seq(Values), NEW h, Reached(b, ToOperand(n, k + 1, stack), w, h)
          PROVE  Follows(b, Perform(b, n), w, h, ToValue(stack))
      <4>1. Len(w) = k /\ Star(b, h, Yield(Unit, stack))
        <5>1. Len(w) = k + 1 - 1 /\ Star(b, h, Position(b, n, k + 1, w, stack))
          BY <3>2, ReachedOperand
        <5> QED BY <1>3, <2>0, <5>1
      <4> DEFINE item == Code("pure", n, Unit, 0, <<>>)
      <4>2. Perform(b, n) = <<item>> /\ item.run = "pure" /\ item.at = n
        BY <1>7, CodeFields DEF Perform
      <4>3. ItemOK(item)
        BY CodeFields DEF ItemOK, Unit, Values
      <4> HIDE DEF item, k
      <4>4. Arity(b[n]) = k
        BY <1>7 DEF Arity, Iterating, k
      <4>5. k \in 0..Len(w) /\ Left(w, k) = <<>>
        <5>1. k - k = 0 /\ k \in 0..k
          BY <1>3
        <5> QED BY <4>1, <5>1, SubSeqEmpty DEF Left
      <4>6. <<Unit>> \in Seq(Values) /\ Append(<<>>, Unit) = <<Unit>> /\ Unit \in Values
        BY DEF Unit, Values
      <4>7. Reached(b, ToValue(stack), <<Unit>>, h)
        BY <4>1, <4>6, ReachedValue
      <4>8. Follows(b, <<>>, <<Unit>>, h, ToValue(stack))
        BY <4>6, <4>7, FollowsEnd
      <4>9. Starts(b, item, <<>>, w, h, ToValue(stack))
        BY <4>2, <4>3, <4>4, <4>5, <4>6, <4>8 DEF Starts, Runnable
      <4> DEFINE one == <<item>>
      <4>10. Listed(one) /\ one # <<>> /\ Starts(b, Head(one), Tail(one), w, h, ToValue(stack))
        BY <4>9, ListOne
      <4> HIDE DEF one
      <4>11. Follows(b, one, w, h, ToValue(stack))
        BY <4>10, FollowsBack
      <4> QED BY <4>2, <4>11 DEF one
    <3>3. Listed(Perform(b, n))
      BY ItemsOK
    <3>4. Follows(b, all, <<>>, g, ToValue(stack))
      <4> HIDE DEF k
      <4> QED BY <1>5, <3>2, <3>3, FollowsJoin
    <3> HIDE DEF all
    <3> QED BY <1>2, <1>4, <3>1, <3>4 DEF AtApply, BusyApply, all
  <2> QED BY <1>1, <2>1, <2>2
<1> QED BY <1>2, <1>6, <1>7

\* The operand that comes next.
LEMMA NextOperand ==
  ASSUME NEW b, WellFormed(b), NEW n, NEW i, NEW cs, NEW stack, OfSeq(b, n, i, cs, stack),
         i <= Len(b[n].kids), NEW vals \in Seq(Values)
  PROVE  LET fr == Frame(n, i, vals, 0)
         IN  /\ fr \in Frames /\ fr.at = n /\ fr.i = i /\ fr.vals = vals
             /\ Under(b, cs, n, stack, fr) /\ Listed(stack)
             /\ Position(b, n, i, vals, stack) = Eval(b[n].kids[i], Append(stack, fr))
<1> DEFINE fr == Frame(n, i, vals, 0)
<1>1. Standing(b, cs, stack) /\ Here(b, n, stack) /\ n \in DOMAIN b
  BY DEF OfSeq, Here
<1>2. i \in DOMAIN b[n].kids /\ i \in Nat /\ n \in Nat
  <2>1. DOMAIN b[n].kids = 1..Len(b[n].kids) /\ Len(b[n].kids) \in Nat /\ n \in Nat
    BY <1>1, Inside, ListLen
  <2>2. i \in 1..(Len(b[n].kids) + 1)
    BY DEF OfSeq
  <2> QED BY <2>1, <2>2
<1>3. fr.at = n /\ fr.i = i /\ fr.vals = vals
  BY DEF Frame
<1>4. fr \in Frames
  BY <1>2 DEF Frame, Frames
<1>5. Position(b, n, i, vals, stack) = Eval(b[n].kids[i], Append(stack, fr))
  BY DEF Position
<1>6. Listed(stack)
  BY <1>1, WaitsTypes DEF Standing
<1> HIDE DEF fr
<1>7. Under(b, cs, n, stack, fr)
  BY <1>1, <1>2, <1>3, <1>4 DEF Under
<1> QED BY <1>3, <1>4, <1>5, <1>6, <1>7 DEF fr

\* A leaf is an operand.
LEMMA InlineFollows ==
  ASSUME NEW b, WellFormed(b), NEW n, NEW i, NEW cs, NEW stack, OfSeq(b, n, i, cs, stack),
         i <= Len(b[n].kids), ~b[b[n].kids[i]].rec,
         NEW code, NEW g, Follows(b, code, <<>>, g, ToOperand(n, i, stack))
  PROVE  Follows(b, code \o Splice(b, cs, b[n].kids[i]), <<>>, g, ToOperand(n, i + 1, stack))
<1> DEFINE kid == b[n].kids[i]
<1>1. n \in DOMAIN b /\ b[n].kind \in {"op", "pure", "rec"} /\ Standing(b, cs, stack) /\ Here(b, n, stack)
  BY DEF OfSeq, Here
<1>2. ASSUME NEW w \in Seq(Values), NEW h, Reached(b, ToOperand(n, i, stack), w, h)
      PROVE  Follows(b, Splice(b, cs, kid), w, h, ToOperand(n, i + 1, stack))
  <2> DEFINE fr == Frame(n, i, w, 0)
             more == Append(stack, fr)
  <2>1. /\ fr \in Frames /\ fr.at = n /\ fr.i = i /\ fr.vals = w
        /\ Under(b, cs, n, stack, fr) /\ Listed(stack)
        /\ Position(b, n, i, w, stack) = Eval(kid, more)
    BY NextOperand
  <2> HIDE DEF fr
  <2>2. i \in DOMAIN b[n].kids /\ i \in Nat /\ kid \in DOMAIN b
    <3>1. i \in DOMAIN b[n].kids
      BY <2>1 DEF Under
    <3>2. i \in Nat
      BY <2>1 DEF Frames
    <3> QED BY <1>1, <3>1, <3>2, Inside
  <2>3. b[n].kind \notin Looping
    BY <1>1 DEF Looping, Iterating
  <2>4. Known(b, Env(cs), more, b[kid].loop)
    BY <1>1, <2>1, <2>2, <2>3, KnownKid
  <2>5. Len(w) = i - 1 /\ Star(b, h, Eval(kid, more))
    BY <1>2, <2>1, ReachedOperand
  <2>6. ASSUME NEW v \in Values, NEW s, Star(b, s, Yield(v, more))
        PROVE  Reached(b, ToOperand(n, i + 1, stack), Append(w, v), s)
    <3>1. Star(b, s, Position(b, fr.at, fr.i + 1, Append(fr.vals, v), stack))
      BY <1>1, <2>1, <2>2, <2>6, PositionStep
    <3>2. Len(Append(w, v)) = (i + 1) - 1
      BY <2>2, <2>5, AppendProperties
    <3>3. Star(b, s, Position(b, n, i + 1, Append(w, v), stack))
      BY <2>1, <3>1
    <3> DEFINE more2 == i + 1
               w2 == Append(w, v)
    <3>4. Len(w2) = more2 - 1 /\ Star(b, s, Position(b, n, more2, w2, stack))
      BY <3>2, <3>3
    <3> HIDE DEF more2, w2
    <3>5. Reached(b, ToOperand(n, more2, stack), w2, s)
      BY <3>4, ReachedOperand
    <3> QED BY <3>5 DEF more2, w2
  <2> HIDE DEF more, kid
  <2> QED BY <2>2, <2>4, <2>5, <2>6, FollowsSplice DEF kid
<1>3. Listed(Splice(b, cs, kid))
  BY ItemsOK
<1> HIDE DEF kid
<1>4. Follows(b, code \o Splice(b, cs, kid), <<>>, g, ToOperand(n, i + 1, stack))
  BY <1>2, <1>3, FollowsJoin
<1> QED BY <1>4 DEF kid

\* SeqInline: an operand that does not recurse is spliced behind those before it.
LEMMA SeqInlineGoes ==
  ASSUME NEW b, WellFormed(b), NEW H, KeepsOrder(b, H), NEW g, NEW n, NEW i, NEW code, NEW cs,
         AtSeq(b, H, g, n, i, code, cs), i <= Len(b[n].kids), ~b[b[n].kids[i]].rec,
         ~Bound(b, b[n], i)
  PROVE  AtSeq(b, H, g, n, i + 1, code \o Splice(b, cs, b[n].kids[i]), cs)
<1> DEFINE kid == b[n].kids[i]
           all == code \o Splice(b, cs, kid)
<1>1. PICK stack : /\ OfSeq(b, n, i, cs, stack)
                   /\ QuietSeq(b, g, n, i, code, stack) \/ BusySeq(b, H, g, n, i, code, stack)
  BY DEF AtSeq
<1>2. n \in DOMAIN b /\ b[n].rec /\ b[n].kind \in {"op", "pure", "rec"} /\ Standing(b, cs, stack)
      /\ Here(b, n, stack) /\ Listed(code) /\ CodeOK(code) /\ i \in 1..(Len(b[n].kids) + 1)
  BY <1>1 DEF OfSeq, Here, AtSeq
<1>3. Len(b[n].kids) \in Nat /\ DOMAIN b[n].kids = 1..Len(b[n].kids) /\ b[n].places \in Nat
  BY <1>2, Inside, ListLen
<1>4. i \in Nat /\ i \in DOMAIN b[n].kids /\ i + 1 \in 1..(Len(b[n].kids) + 1)
  BY <1>2, <1>3
<1>5. OfSeq(b, n, i + 1, cs, stack)
  BY <1>2, <1>4 DEF OfSeq
<1>6. Listed(all) /\ CodeOK(all)
  BY <1>2, ItemsOK, CodeOKJoin
<1>7. kid \in DOMAIN b
  BY <1>2, <1>4, Inside
<1>8. CASE QuietSeq(b, g, n, i, code, stack) /\ b[kid].kind = "lit"
  <2>1. PICK vals : /\ Silent(b, code, vals) /\ Len(vals) = i - 1
                    /\ Star(b, g, Position(b, n, i, vals, stack))
    BY <1>8 DEF QuietSeq
  <2>2. vals \in Seq(Values)
    BY <2>1, SilentParts
  <2> DEFINE fr == Frame(n, i, vals, 0)
             more == Append(stack, fr)
  <2>3. /\ fr \in Frames /\ fr.at = n /\ fr.i = i /\ fr.vals = vals
        /\ Under(b, cs, n, stack, fr) /\ Listed(stack)
        /\ Position(b, n, i, vals, stack) = Eval(kid, more)
    BY <1>1, <2>2, NextOperand
  <2> HIDE DEF fr
  <2>a. Star(b, g, Eval(kid, more))
    BY <2>1, <2>3
  <2> HIDE DEF more, kid
  <2>4. Star(b, g, Yield(Unit, more))
    BY <1>8, <2>a, EvalLit, StarStep
  <2>b. Star(b, g, Position(b, fr.at, fr.i + 1, Append(fr.vals, Unit), stack))
    BY <1>2, <1>4, <2>3, <2>4, PositionStep DEF more
  <2>5. Star(b, g, Position(b, n, i + 1, Append(vals, Unit), stack))
    BY <2>3, <2>b
  <2>6. Silent(b, code \o UnitCode, vals \o <<Unit>>)
    BY <2>1, SilentUnit, SilentJoin
  <2>7. vals \o <<Unit>> = Append(vals, Unit)
    BY <2>2, ListOne DEF Listed
  <2>8. Splice(b, cs, kid) = UnitCode
    BY <1>8 DEF Splice
  <2>9. Len(Append(vals, Unit)) = (i + 1) - 1
    BY <1>4, <2>1, <2>2, AppendProperties DEF Unit, Values
  <2>c. Silent(b, all, Append(vals, Unit))
    BY <2>6, <2>7, <2>8
  <2>10. QuietSeq(b, g, n, i + 1, all, stack)
    <3> DEFINE up == i + 1
               new == Append(vals, Unit)
    <3>1. Silent(b, all, new) /\ Len(new) = up - 1 /\ Star(b, g, Position(b, n, up, new, stack))
      BY <2>c, <2>5, <2>9
    <3> HIDE DEF all, up, new
    <3>2. QuietSeq(b, g, n, up, all, stack)
      BY <3>1 DEF QuietSeq
    <3> QED BY <3>2 DEF up
  <2> HIDE DEF all
  <2> QED BY <1>5, <1>6, <2>10 DEF AtSeq, all, kid
<1>9. CASE ~(QuietSeq(b, g, n, i, code, stack) /\ b[kid].kind = "lit")
  <2>1. Follows(b, code, <<>>, g, ToOperand(n, i, stack))
    BY <1>1, SeqFollows
  <2>2. Follows(b, all, <<>>, g, ToOperand(n, i + 1, stack))
    BY <1>1, <2>1, InlineFollows
  <2>3. Settled(b, n, i + 1) /\ (b[n].kind = "pure" => n \in H)
    <3>1. CASE BusySeq(b, H, g, n, i, code, stack)
      <4>1. Settled(b, n, i) /\ (b[n].kind = "pure" => n \in H)
        BY <3>1 DEF BusySeq
      <4>2. \A j \in DOMAIN b[n].kids : j >= i + 1 => j >= i
        BY <1>3, <1>4
      <4> QED BY <4>1, <4>2 DEF Settled
    <3>2. CASE b[kid].kind # "lit"
      <4>1. ~(i <= b[n].places) /\ ~LaterRecurses(b, b[n], i)
        BY <3>2 DEF Bound, Stable
      <4>2. \A j \in DOMAIN b[n].kids : j >= i + 1 => i < j /\ j > b[n].places
        BY <1>3, <1>4, <4>1
      <4>3. Settled(b, n, i + 1)
        BY <4>1, <4>2 DEF Settled, LaterRecurses
      <4>4. kid \in H
        BY <1>7, <3>2 DEF KeepsOrder, Hands
      <4>5. b[n].kind = "pure" => Hands(b, H, n)
        BY <1>2, <1>4, <4>1, <4>4 DEF Hands
      <4> QED BY <1>2, <4>3, <4>5 DEF KeepsOrder
    <3> QED BY <1>1, <1>9, <3>1, <3>2
  <2> HIDE DEF all
  <2>4. BusySeq(b, H, g, n, i + 1, all, stack)
    BY <2>2, <2>3 DEF BusySeq
  <2> QED BY <1>5, <1>6, <2>4 DEF AtSeq, all
<1> QED BY <1>8, <1>9

\* Before a temporary or a call, what has been computed is constants.
LEMMA SeqQuiet ==
  ASSUME NEW b, WellFormed(b), NEW H, NEW g, NEW n, NEW i, NEW code, NEW cs,
         AtSeq(b, H, g, n, i, code, cs), i <= Len(b[n].kids),
         b[b[n].kids[i]].rec \/ Bound(b, b[n], i)
  PROVE  \E stack, vals :
            /\ OfSeq(b, n, i, cs, stack) /\ Silent(b, code, vals) /\ Len(vals) = i - 1
            /\ Star(b, g, Position(b, n, i, vals, stack))
            /\ i \in DOMAIN b[n].kids
<1>1. PICK stack : /\ OfSeq(b, n, i, cs, stack)
                   /\ QuietSeq(b, g, n, i, code, stack) \/ BusySeq(b, H, g, n, i, code, stack)
  BY DEF AtSeq
<1>2. n \in DOMAIN b /\ i \in 1..(Len(b[n].kids) + 1)
  BY <1>1 DEF OfSeq, Here
<1>3. Len(b[n].kids) \in Nat /\ DOMAIN b[n].kids = 1..Len(b[n].kids) /\ b[n].places \in Nat
  BY <1>2, Inside, ListLen
<1>4. i \in Nat /\ i \in DOMAIN b[n].kids /\ i >= i
  BY <1>2, <1>3
<1>5. ~Settled(b, n, i)
  <2> SUFFICES ASSUME Settled(b, n, i) PROVE FALSE
    OBVIOUS
  <2>1. ~b[b[n].kids[i]].rec /\ i > b[n].places
    BY <1>4 DEF Settled
  <2>2. ~(i <= b[n].places)
    BY <1>3, <1>4, <2>1
  <2>3. LaterRecurses(b, b[n], i)
    BY <2>1, <2>2 DEF Bound
  <2>4. \A j \in DOMAIN b[n].kids : i < j => j >= i
    BY <1>3, <1>4
  <2> QED BY <2>3, <2>4 DEF Settled, LaterRecurses
<1> QED BY <1>1, <1>4, <1>5 DEF QuietSeq, BusySeq

\* SeqBind: an operand is bound to a temporary before a later one recurses.
LEMMA SeqBindEmits ==
  ASSUME NEW b, WellFormed(b), NEW H, NEW g, NEW n, NEW i, NEW code, NEW cs,
         AtSeq(b, H, g, n, i, code, cs), i <= Len(b[n].kids), ~b[b[n].kids[i]].rec,
         Bound(b, b[n], i)
  PROVE  LET c == Cont("temp", n, i, code)
         IN  AtEmit(b, g, Splice(b, cs, b[n].kids[i]), <<>>, Append(cs, c)) /\ ContOK(c)
<1> DEFINE kid == b[n].kids[i]
           c == Cont("temp", n, i, code)
<1>1. PICK stack, vals :
         /\ OfSeq(b, n, i, cs, stack) /\ Silent(b, code, vals) /\ Len(vals) = i - 1
         /\ Star(b, g, Position(b, n, i, vals, stack))
         /\ i \in DOMAIN b[n].kids
  BY SeqQuiet
<1>2. n \in DOMAIN b /\ Standing(b, cs, stack) /\ Here(b, n, stack) /\ b[n].kind \in {"op", "pure", "rec"}
  BY <1>1 DEF OfSeq, Here
<1>3. vals \in Seq(Values) /\ Listed(cs)
  BY <1>1, <1>2, SilentParts, StandingSound DEF Sound
<1> DEFINE fr == Frame(n, i, vals, 0)
           more == Append(stack, fr)
<1>4. /\ fr \in Frames /\ fr.at = n /\ fr.i = i /\ fr.vals = vals
      /\ Under(b, cs, n, stack, fr) /\ Listed(stack)
      /\ Position(b, n, i, vals, stack) = Eval(kid, more)
  BY <1>1, <1>3, NextOperand
<1> HIDE DEF fr
<1>5. c.f = "temp" /\ c.at = n /\ c.i = i /\ c.acc = code
  BY DEF Cont
<1> HIDE DEF c
<1>6. ContOK(c)
  <2>1. i \in Nat
    BY <1>4 DEF Frames
  <2> QED BY <1>1, <1>5, <2>1, SilentParts DEF ContOK, CodeOK
<1>7. b[n].kind \notin Looping
  BY <1>2 DEF Looping, Iterating
<1>8. kid \in DOMAIN b /\ Known(b, Env(cs), more, b[kid].loop)
  BY <1>1, <1>2, <1>4, <1>7, KnownKid, Inside
<1>9. Star(b, g, Eval(kid, more))
  BY <1>1, <1>4
<1>10. ASSUME NEW v \in Values, NEW h, Star(b, h, Yield(v, more))
       PROVE  Reached(b, ToCont(Append(cs, c)), Append(<<>>, v), h)
  <2>1. AfterTemp(b, cs, c, v, h)
    BY <1>1, <1>2, <1>4, <1>5, <1>10 DEF AfterTemp
  <2>2. Goes(b, Append(cs, c), v, h)
    BY <1>3, <1>5, <2>1, GoesMore DEF Resumes
  <2>3. Append(<<>>, v) = <<v>>
    BY ListOne
  <2> QED BY <2>2, <2>3, ReachedCont
<1>11. <<>> \in Seq(Values) /\ CodeOK(Splice(b, cs, kid))
  BY EmptySeq, ItemsOK
<1> HIDE DEF kid, more
<1>12. Follows(b, Splice(b, cs, kid), <<>>, g, ToCont(Append(cs, c)))
  BY <1>8, <1>9, <1>10, <1>11, FollowsSplice DEF kid
<1>13. AtEmit(b, g, Splice(b, cs, kid), <<>>, Append(cs, c))
  BY <1>11, <1>12 DEF AtEmit
<1> QED BY <1>6, <1>13 DEF c, kid

\* SeqRecurse: an operand that recurses waits with the code of those before it.
LEMMA SeqRecurseGoes ==
  ASSUME NEW b, WellFormed(b), NEW H, NEW g, NEW n, NEW i, NEW code, NEW cs,
         AtSeq(b, H, g, n, i, code, cs), i <= Len(b[n].kids), b[b[n].kids[i]].rec
  PROVE  AtCps(b, g, b[n].kids[i], Append(cs, Cont("operand", n, i, code)))
<1> DEFINE kid == b[n].kids[i]
           c == Cont("operand", n, i, code)
<1>1. PICK stack, vals :
         /\ OfSeq(b, n, i, cs, stack) /\ Silent(b, code, vals) /\ Len(vals) = i - 1
         /\ Star(b, g, Position(b, n, i, vals, stack))
         /\ i \in DOMAIN b[n].kids
  BY SeqQuiet
<1>2. n \in DOMAIN b /\ Standing(b, cs, stack) /\ Here(b, n, stack) /\ b[n].kind \in {"op", "pure", "rec"}
  BY <1>1 DEF OfSeq, Here
<1>3. vals \in Seq(Values)
  BY <1>1, SilentParts
<1> DEFINE fr == Frame(n, i, vals, 0)
           more == Append(stack, fr)
<1>4. /\ fr \in Frames /\ fr.at = n /\ fr.i = i /\ fr.vals = vals
      /\ Position(b, n, i, vals, stack) = Eval(kid, more)
  BY <1>1, <1>3, NextOperand
<1> HIDE DEF fr
<1>5. c.f = "operand" /\ c.at = n /\ c.i = i /\ c.acc = code
  BY DEF Cont
<1> HIDE DEF c
<1>6. i \in Nat
  BY <1>4 DEF Frames
<1>7. OneCont(b, fr, c)
  BY <1>1, <1>2, <1>4, <1>5, <1>6 DEF OneCont
<1>8. Star(b, g, Eval(kid, more))
  BY <1>1, <1>4
<1>9. AtCps(b, g, b[fr.at].kids[fr.i], Append(cs, c))
  BY <1>1, <1>2, <1>4, <1>7, <1>8, WithOne
<1> QED BY <1>4, <1>9 DEF c

-----------------------------------------------------------------------------
(* cps_stmts. *)
\* The end of the statements.
LEMMA StmtsEnd ==
  ASSUME NEW b, NEW H, NEW g, NEW n, NEW i, NEW cs, AtStmts(b, g, n, i, cs), i > Len(b[n].kids)
  PROVE  AtApply(b, H, g, UnitCode, cs)
<1>1. PICK stack : Standing(b, cs, stack) /\ Star(b, g, Yield(Unit, stack))
  BY DEF AtStmts
<1>2. Unit \in Values
  BY DEF Unit, Values
<1>3. QuietApply(b, g, UnitCode, stack)
  BY <1>1, <1>2, SilentUnit DEF QuietApply
<1> QED BY <1>1, <1>3, ItemsOK DEF AtApply

\* A statement is under way.
LEMMA StmtsParts ==
  ASSUME NEW b, WellFormed(b), NEW g, NEW n, NEW i, NEW cs, AtStmts(b, g, n, i, cs),
         i <= Len(b[n].kids)
  PROVE  \E stack : \E fr \in Frames :
            /\ Standing(b, cs, stack) /\ Here(b, n, stack) /\ b[n].kind \in {"block", "stmts"}
            /\ n \in DOMAIN b /\ i \in DOMAIN b[n].kids /\ i \in Nat
            /\ fr.at = n /\ fr.i = i /\ fr.vals = <<>>
            /\ Star(b, g, Eval(b[n].kids[i], Append(stack, fr)))
<1>1. PICK stack :
        /\ Standing(b, cs, stack) /\ Here(b, n, stack)
        /\ b[n].kind \in {"block", "stmts"} /\ i \in 1..(Len(b[n].kids) + 1)
        /\ \E turn \in Nat : Star(b, g, Eval(b[n].kids[i], Append(stack, Frame(n, i, <<>>, turn))))
  BY DEF AtStmts
<1>2. PICK turn \in Nat : Star(b, g, Eval(b[n].kids[i], Append(stack, Frame(n, i, <<>>, turn))))
  BY <1>1
<1>3. n \in DOMAIN b
  BY <1>1 DEF Here
<1>4. n \in Nat /\ DOMAIN b[n].kids = 1..Len(b[n].kids) /\ Len(b[n].kids) \in Nat
  BY <1>3, Inside, ListLen
<1>5. i \in Nat /\ i \in DOMAIN b[n].kids
  BY <1>1, <1>4
<1> DEFINE fr == Frame(n, i, <<>>, turn)
<1>6. fr \in Frames /\ fr.at = n /\ fr.i = i /\ fr.vals = <<>>
  BY <1>4, <1>5, EmptySeq DEF Frame, Frames
<1>7. Star(b, g, Eval(b[n].kids[i], Append(stack, fr)))
  BY <1>2
<1> HIDE DEF fr
<1> QED BY <1>1, <1>3, <1>5, <1>6, <1>7

\* The last one is the value of the block.
LEMMA StmtsValue ==
  ASSUME NEW b, WellFormed(b), NEW g, NEW n, NEW i, NEW cs, AtStmts(b, g, n, i, cs),
         i <= Len(b[n].kids), IsValue(b[n], i)
  PROVE  AtCps(b, g, b[n].kids[i], cs)
<1>1. PICK stack : \E fr \in Frames :
            /\ Standing(b, cs, stack) /\ Here(b, n, stack)
            /\ i \in DOMAIN b[n].kids /\ fr.at = n /\ fr.i = i
            /\ Star(b, g, Eval(b[n].kids[i], Append(stack, fr)))
  BY StmtsParts
<1>2. PICK fr \in Frames :
            /\ Standing(b, cs, stack) /\ Here(b, n, stack)
            /\ i \in DOMAIN b[n].kids /\ fr.at = n /\ fr.i = i
            /\ Star(b, g, Eval(b[n].kids[i], Append(stack, fr)))
  BY <1>1
<1>3. Clear(b[fr.at], fr.i)
  BY <1>2 DEF Clear, IsValue
<1>4. AtCps(b, g, b[fr.at].kids[fr.i], cs)
  BY <1>2, <1>3, WithNone
<1> QED BY <1>2, <1>4

\* A statement with a recursive call.
LEMMA StmtsCall ==
  ASSUME NEW b, WellFormed(b), NEW g, NEW n, NEW i, NEW cs, AtStmts(b, g, n, i, cs),
         i <= Len(b[n].kids), ~IsValue(b[n], i)
  PROVE  AtCps(b, g, b[n].kids[i], Append(cs, Cont("stmt", n, i, <<>>)))
<1> DEFINE c == Cont("stmt", n, i, <<>>)
<1>1. PICK stack : \E fr \in Frames :
            /\ Standing(b, cs, stack) /\ Here(b, n, stack) /\ b[n].kind \in {"block", "stmts"}
            /\ n \in DOMAIN b /\ i \in DOMAIN b[n].kids /\ i \in Nat
            /\ fr.at = n /\ fr.i = i /\ fr.vals = <<>>
            /\ Star(b, g, Eval(b[n].kids[i], Append(stack, fr)))
  BY StmtsParts
<1>2. PICK fr \in Frames :
            /\ Standing(b, cs, stack) /\ Here(b, n, stack) /\ b[n].kind \in {"block", "stmts"}
            /\ n \in DOMAIN b /\ i \in DOMAIN b[n].kids /\ i \in Nat
            /\ fr.at = n /\ fr.i = i /\ fr.vals = <<>>
            /\ Star(b, g, Eval(b[n].kids[i], Append(stack, fr)))
  BY <1>1
<1>3. c.f = "stmt" /\ c.at = n /\ c.i = i /\ c.acc = <<>>
  BY DEF Cont
<1> HIDE DEF c
<1>4. OneCont(b, fr, c)
  BY <1>2, <1>3 DEF OneCont
<1>5. AtCps(b, g, b[fr.at].kids[fr.i], Append(cs, c))
  BY <1>2, <1>4, WithOne
<1> QED BY <1>2, <1>5 DEF c

\* A statement without one is emitted.
LEMMA StmtsEmits ==
  ASSUME NEW b, WellFormed(b), NEW g, NEW n, NEW i, NEW cs, AtStmts(b, g, n, i, cs),
         i <= Len(b[n].kids), ~IsValue(b[n], i), ~b[b[n].kids[i]].rec
  PROVE  LET c == Cont("rest", n, i, <<>>)
         IN  AtEmit(b, g, Splice(b, cs, b[n].kids[i]), <<>>, Append(cs, c)) /\ ContOK(c)
<1> DEFINE c == Cont("rest", n, i, <<>>)
           kid == b[n].kids[i]
<1>1. PICK stack : \E fr \in Frames :
            /\ Standing(b, cs, stack) /\ Here(b, n, stack) /\ b[n].kind \in {"block", "stmts"}
            /\ n \in DOMAIN b /\ i \in DOMAIN b[n].kids /\ i \in Nat
            /\ fr.at = n /\ fr.i = i /\ fr.vals = <<>>
            /\ Star(b, g, Eval(kid, Append(stack, fr)))
  BY StmtsParts
<1>2. PICK fr \in Frames :
            /\ Standing(b, cs, stack) /\ Here(b, n, stack) /\ b[n].kind \in {"block", "stmts"}
            /\ n \in DOMAIN b /\ i \in DOMAIN b[n].kids /\ i \in Nat
            /\ fr.at = n /\ fr.i = i /\ fr.vals = <<>>
            /\ Star(b, g, Eval(kid, Append(stack, fr)))
  BY <1>1
<1> DEFINE more == Append(stack, fr)
<1>3. c.f = "rest" /\ c.at = n /\ c.i = i /\ c.acc = <<>>
  BY DEF Cont
<1> HIDE DEF c
<1>4. ContOK(c)
  BY <1>2, <1>3, ContBare
<1>5. b[n].kind \notin Looping /\ Listed(cs)
  BY <1>2, StandingSound DEF Looping, Iterating, Sound
<1>6. kid \in DOMAIN b /\ Known(b, Env(cs), more, b[kid].loop)
  BY <1>2, <1>5, KnownKid, Inside
<1>7. ASSUME NEW v \in Values, NEW h, Star(b, h, Yield(v, more))
      PROVE  Reached(b, ToCont(Append(cs, c)), Append(<<>>, v), h)
  <2>1. Under(b, cs, n, stack, fr)
    BY <1>2 DEF Under
  <2>2. AfterStmt(b, cs, c, v, h)
    BY <1>2, <1>3, <1>7, <2>1 DEF AfterStmt
  <2>3. Goes(b, Append(cs, c), v, h)
    BY <1>3, <1>5, <2>2, GoesMore DEF Resumes
  <2>4. Append(<<>>, v) = <<v>>
    BY ListOne
  <2> QED BY <2>3, <2>4, ReachedCont
<1>8. <<>> \in Seq(Values) /\ CodeOK(Splice(b, cs, kid))
  BY EmptySeq, ItemsOK
<1>9. Star(b, g, Eval(kid, more))
  BY <1>2
<1> HIDE DEF kid, more
<1>10. Follows(b, Splice(b, cs, kid), <<>>, g, ToCont(Append(cs, c)))
  BY <1>6, <1>7, <1>8, <1>9, FollowsSplice DEF kid
<1>11. AtEmit(b, g, Splice(b, cs, kid), <<>>, Append(cs, c))
  BY <1>8, <1>10 DEF AtEmit
<1> QED BY <1>4, <1>11 DEF c, kid

-----------------------------------------------------------------------------
(* The entry point of a loop. *)
\* The continuation of the loop is the last.
LEMMA EnterParts ==
  ASSUME NEW b, WellFormed(b), NEW g, NEW n, NEW cs, AtEnter(b, g, n, cs)
  PROVE  \E stack, L :
            /\ L = Last(cs) /\ cs = Append(Front(cs), L) /\ Listed(Front(cs)) /\ Listed(cs)
            /\ L.f = "loop" /\ L.at = n /\ L.acc = <<>> /\ L.i \in Nat /\ b[n].kind \in Looping
            /\ Standing(b, Front(cs), stack) /\ Here(b, n, stack) /\ Listed(stack)
            /\ n \in DOMAIN b /\ n \in Nat /\ 1 \in DOMAIN b[n].kids
            /\ b[n].kind \in Iterating =>
                  /\ 2 \in DOMAIN b[n].kids
                  /\ \E fr : Star(b, g, Doing("next", n, <<>>, L.i, Append(stack, fr)))
            /\ b[n].kind \notin Iterating =>
                  \E turn \in Nat : Star(b, g, Eval(b[n].kids[1], Append(stack, Frame(n, 1, <<>>, turn))))
<1> DEFINE L == Last(cs)
<1>1. PICK stack :
          /\ Standing(b, Front(cs), stack) /\ Here(b, n, stack)
          /\ b[n].kind \in Iterating =>
                \E fr : Star(b, g, Doing("next", n, <<>>, Last(cs).i, Append(stack, fr)))
          /\ b[n].kind \notin Iterating =>
                \E turn \in Nat : Star(b, g, Eval(b[n].kids[1], Append(stack, Frame(n, 1, <<>>, turn))))
  BY DEF AtEnter
<1>2. cs # <<>> /\ Listed(cs) /\ L.f = "loop" /\ L.at = n /\ L.acc = <<>> /\ L.i \in Nat /\ b[n].kind \in Looping
  BY DEF AtEnter
<1>3. cs = Append(Front(cs), L) /\ Listed(Front(cs))
  BY <1>2, ListLast
<1>4. n \in DOMAIN b /\ b[n].rec
  BY <1>1 DEF Here
<1>5. Listed(stack)
  BY <1>1, WaitsTypes DEF Standing
<1>6. b[n].kind # "rec"
  BY <1>2 DEF Looping, Iterating
<1>7. n \in Nat /\ 1 \in DOMAIN b[n].kids /\ DOMAIN b[n].kids = 1..Len(b[n].kids)
  BY <1>4, <1>6, FirstIn, Inside
<1>8. b[n].kind \in Iterating => 2 \in DOMAIN b[n].kids
  <2>1. b[n].kind \in Iterating => Len(b[n].kids) = 2
    BY <1>4 DEF WellFormed, Binary
  <2> QED BY <1>7, <2>1
<1> HIDE DEF L
<1>9. b[n].kind \in Iterating =>
                \E fr : Star(b, g, Doing("next", n, <<>>, L.i, Append(stack, fr)))
  BY <1>1 DEF L
<1>10. L = Last(cs)
  BY DEF L
<1> QED BY <1>1, <1>2, <1>3, <1>4, <1>5, <1>7, <1>8, <1>9, <1>10

\* The test of a while loop and the body of a plain one.
LEMMA EnterPlain ==
  ASSUME NEW b, WellFormed(b), NEW g, NEW n, NEW cs, AtEnter(b, g, n, cs), NEW f,
         \/ f = "while" /\ b[n].kind = "while"
         \/ f = "next" /\ b[n].kind = "loop"
  PROVE  AtCps(b, g, b[n].kids[1], Append(cs, Cont(f, n, 0, <<>>)))
<1> DEFINE c == Cont(f, n, 0, <<>>)
<1>1. PICK stack, L :
            /\ L = Last(cs) /\ cs = Append(Front(cs), L) /\ Listed(Front(cs)) /\ Listed(cs)
            /\ L.f = "loop" /\ L.at = n /\ L.acc = <<>> /\ L.i \in Nat /\ b[n].kind \in Looping
            /\ Standing(b, Front(cs), stack) /\ Here(b, n, stack) /\ Listed(stack)
            /\ n \in DOMAIN b /\ n \in Nat /\ 1 \in DOMAIN b[n].kids
            /\ b[n].kind \notin Iterating =>
                  \E turn \in Nat : Star(b, g, Eval(b[n].kids[1], Append(stack, Frame(n, 1, <<>>, turn))))
  BY EnterParts
<1>2. b[n].kind \notin Iterating
  BY DEF Iterating
<1>3. PICK turn \in Nat : Star(b, g, Eval(b[n].kids[1], Append(stack, Frame(n, 1, <<>>, turn))))
  BY <1>1, <1>2
<1> DEFINE fr == Frame(n, 1, <<>>, turn)
<1>4. fr \in Frames /\ fr.at = n /\ fr.i = 1
  BY <1>1, EmptySeq DEF Frame, Frames
<1>5. c.f = f /\ c.at = n /\ c.i = 0 /\ c.acc = <<>>
  BY DEF Cont
<1>6. Star(b, g, Eval(b[n].kids[1], Append(stack, fr)))
  BY <1>3
<1> HIDE DEF fr, c
<1>7. LoopConts(b, fr, L, c)
  BY <1>1, <1>2, <1>4, <1>5 DEF LoopConts, Turns
<1>8. AtCps(b, g, b[fr.at].kids[fr.i], Append(Append(Front(cs), L), c))
  BY <1>1, <1>4, <1>6, <1>7, WithLoop
<1> QED BY <1>1, <1>4, <1>8 DEF c

\* The item of a turn. A range gives it without moving on.
LEMMA EnterItem ==
  ASSUME NEW b, WellFormed(b), NEW g, NEW n, NEW cs, AtEnter(b, g, n, cs),
         b[n].kind \in Iterating, NEW L2,
         L2.f = "loop", L2.at = n, L2.acc = <<>>,
         L2.i = Last(cs).i + (IF b[n].kind = "for" THEN 1 ELSE 0)
  PROVE  AtEmit(b, g, Item(n, Last(cs).i), <<>>,
                Append(Append(Front(cs), L2), Cont("step", n, 0, <<>>)))
<1> DEFINE c == Cont("step", n, 0, <<>>)
           cs2 == Append(Front(cs), L2)
<1>1. PICK stack, L :
            /\ L = Last(cs) /\ Listed(Front(cs))
            /\ L.f = "loop" /\ L.at = n /\ L.i \in Nat /\ b[n].kind \in Looping
            /\ Standing(b, Front(cs), stack) /\ Here(b, n, stack) /\ Listed(stack)
            /\ n \in DOMAIN b /\ n \in Nat /\ 1 \in DOMAIN b[n].kids
            /\ 2 \in DOMAIN b[n].kids
            /\ \E fr : Star(b, g, Doing("next", n, <<>>, L.i, Append(stack, fr)))
  BY EnterParts
<1>2. PICK fr : Star(b, g, Doing("next", n, <<>>, L.i, Append(stack, fr)))
  BY <1>1
<1> DEFINE item == Code("next", n, Unit, L.i, <<>>)
           h == Doing("next", n, <<>>, L.i, Append(stack, fr))
           fr2 == Frame(n, 2, <<>>, L.i)
<1>3. /\ item.run = "next" /\ item.at = n /\ item.v = Unit /\ item.turn = L.i /\ item.loop = <<>>
  BY CodeFields
<1>4. fr2 \in Frames /\ fr2.at = n /\ fr2.i = 2 /\ fr2.turn = L.i
  BY <1>1, EmptySeq DEF Frame, Frames
<1>5. h.do = "next" /\ h.at = n /\ h.vals = <<>> /\ h.turn = L.i /\ AtEvent(h)
  BY DEF Doing, AtEvent
<1>6. c.f = "step" /\ c.at = n
  BY DEF Cont
<1>7. Listed(cs2) /\ cs2 # <<>> /\ Last(cs2) = L2 /\ Front(cs2) = Front(cs)
  BY <1>1, ListMore
<1>8. Star(b, g, h)
  BY <1>2
<1>9. ASSUME NEW out \in Values
      PROVE  Went(b, h, out) =
               IF out = "yes" THEN Eval(b[n].kids[2], Append(stack, fr2)) ELSE Yield(Unit, stack)
  <2>1. Listed(stack)
    BY <1>1
  <2> QED BY <2>1, WentNext
<1>10. <<item>> = Item(n, L.i)
  BY DEF Item
<1> HIDE DEF item, h, fr2, c, cs2
<1>11. ASSUME NEW out \in Values
       PROVE  Reached(b, ToCont(Append(cs2, c)), <<out>>, Went(b, h, out))
  <2>1. Turns(b, L2, fr2)
    BY <1>1, <1>4 DEF Turns, Iterating
  <2>2. Under(b, Front(cs2), n, stack, fr2)
    BY <1>1, <1>4, <1>7 DEF Under
  <2>3. InsideLoop(b, cs2, n, stack, fr2)
    BY <1>1, <1>7, <2>1, <2>2 DEF InsideLoop
  <2>4. b[n].kind # "loop"
    BY DEF Iterating
  <2>5. out = "yes" => Star(b, Went(b, h, out), Eval(b[n].kids[2], Append(stack, fr2)))
    BY <1>9, StarHere
  <2>6. out = "no" => Star(b, Went(b, h, out), Yield(Unit, stack))
    BY <1>9, StarHere
  <2>7. AfterTest(b, cs2, c, out, Went(b, h, out))
    BY <1>4, <1>6, <2>3, <2>4, <2>5, <2>6 DEF AfterTest
  <2>8. Goes(b, Append(cs2, c), out, Went(b, h, out))
    BY <1>6, <1>7, <2>7, GoesMore DEF Resumes
  <2> QED BY <2>8, ReachedCont
<1>12. ItemOK(item)
  BY <1>1, <1>3 DEF ItemOK, Unit, Values
<1>13. Operands(b, item) = 0
  BY <1>3 DEF Operands
<1>14. <<>> \in Seq(Values) /\ Taken(<<>>, 0) = <<>> /\ Left(<<>>, 0) = <<>> /\ 0 \in 0..Len(<<>>)
  BY SubSeqEmpty DEF Taken, Left
<1>15. Performs(b, item, <<>>, h)
  BY <1>3, <1>5, <1>13, <1>14 DEF Performs
<1>16. Follows(b, <<item>>, <<>>, g, ToCont(Append(cs2, c)))
  <2>1. ASSUME NEW out \in Values
        PROVE Reached(b, ToCont(Append(cs2, c)), Append(Left(<<>>, 0), out), Went(b, h, out))
    <3>1. Append(<<>>, out) = <<out>>
      BY ListOne
    <3> QED BY <1>11, <1>14, <3>1
  <2> QED BY <1>1, <1>3, <1>8, <1>12, <1>13, <1>14, <1>15, <2>1, FollowsOne
<1>17. CodeOK(Item(n, L.i))
  BY <1>1, ItemsOK
<1>18. AtEmit(b, g, Item(n, L.i), <<>>, Append(cs2, c))
  BY <1>10, <1>16, <1>17 DEF AtEmit
<1> QED BY <1>1, <1>18 DEF cs2, c

-----------------------------------------------------------------------------
(* A continuation takes the code of a value. *)
\* What the top continuation is of, and what the code is there.
Taking(b, H, g, code, cs, below, fr) ==
    /\ Listed(code) /\ CodeOK(code)
    /\ cs = Append(Front(cs), Last(cs)) /\ Listed(Front(cs))
    /\ fr \in Frames /\ Listed(below) /\ Here(b, fr.at, below)
    /\ fr.at \in DOMAIN b /\ fr.i \in DOMAIN b[fr.at].kids
    /\ Standing(b, cs, Append(below, fr))
    /\ \/ OneCont(b, fr, Last(cs)) /\ Standing(b, Front(cs), below)
       \/ /\ Front(cs) # <<>> /\ LoopConts(b, fr, Last(Front(cs)), Last(cs))
          /\ Standing(b, Front(Front(cs)), below)
    /\ Follows(b, code, <<>>, g, ToValue(Append(below, fr)))
    /\ \/ QuietApply(b, g, code, Append(below, fr))
       \/ b[fr.at].kids[fr.i] \in H

\* What takes the code of a value, and the frame it belongs to.
LEMMA TakeParts ==
  ASSUME NEW b, WellFormed(b), NEW H, KeepsOrder(b, H), NEW g, NEW code, NEW cs,
         AtApply(b, H, g, code, cs), cs # <<>>
  PROVE  \E below, fr : Taking(b, H, g, code, cs, below, fr)
<1>1. PICK stack : /\ Standing(b, cs, stack)
                   /\ QuietApply(b, g, code, stack) \/ BusyApply(b, H, g, code, stack)
  BY DEF AtApply
<1>2. Listed(code) /\ CodeOK(code)
  BY DEF AtApply
<1>3. PICK below, fr : TopIs(b, cs, stack, below, fr)
  BY <1>1, Top
<1> DEFINE more == Append(below, fr)
<1>4. Listed(cs)
  BY <1>1, StandingSound DEF Sound
<1>5. cs = Append(Front(cs), Last(cs)) /\ Listed(Front(cs))
  BY <1>4, ListLast
<1>6. ASSUME NEW v, NEW h, Star(b, h, Yield(v, stack))
      PROVE  Star(b, h, Yield(v, more))
  <2>1. Star(b, Yield(v, stack), Yield(v, more))
    BY <1>3 DEF TopIs
  <2> HIDE DEF more
  <2> QED BY <1>6, <2>1, StarThen
<1>7. Follows(b, code, <<>>, g, ToValue(stack))
  <2>1. CASE QuietApply(b, g, code, stack)
    <3>1. PICK v \in Values : Silent(b, code, <<v>>) /\ Star(b, g, Yield(v, stack))
      BY <2>1 DEF QuietApply
    <3>2. Reached(b, ToValue(stack), <<v>>, g)
      BY <3>1, ReachedValue
    <3> QED BY <3>1, <3>2, SilentGoes
  <2> QED BY <1>1, <2>1 DEF BusyApply
<1> HIDE DEF more
<1>8. Follows(b, code, <<>>, g, ToValue(more))
  <2>1. ASSUME NEW w \in Seq(Values), NEW h, Reached(b, ToValue(stack), w, h)
        PROVE  Reached(b, ToValue(more), w, h)
    <3>1. PICK v \in Values : w = <<v>> /\ Star(b, h, Yield(v, stack))
      BY <2>1, ReachedValue
    <3>2. Star(b, h, Yield(v, more))
      BY <1>6, <3>1
    <3> QED BY <3>1, <3>2, ReachedValue
  <2> QED BY <1>7, <2>1, FollowsTo
<1>9. QuietApply(b, g, code, more) \/ b[fr.at].kids[fr.i] \in H
  <2>1. CASE QuietApply(b, g, code, stack)
    BY <1>6, <2>1 DEF QuietApply
  <2>2. CASE BusyApply(b, H, g, code, stack)
    BY <1>3, <2>2 DEF BusyApply, TopIs
  <2> QED BY <1>1, <2>1, <2>2
<1>10. /\ fr \in Frames /\ Listed(below) /\ fr.at = Awaited(b, below)
       /\ fr.at \in DOMAIN b /\ b[fr.at].rec /\ fr.i \in DOMAIN b[fr.at].kids
       /\ Standing(b, cs, more)
       /\ \/ OneCont(b, fr, Last(cs)) /\ Standing(b, Front(cs), below)
          \/ /\ Front(cs) # <<>> /\ LoopConts(b, fr, Last(Front(cs)), Last(cs))
             /\ Standing(b, Front(Front(cs)), below)
  BY <1>3 DEF TopIs, more
<1>11. Here(b, fr.at, below)
  BY <1>10 DEF Here
<1> QED BY <1>2, <1>5, <1>8, <1>9, <1>10, <1>11 DEF Taking, more

\* Code is emitted before a continuation that goes on from its value.
LEMMA EmitTo ==
  ASSUME NEW b, NEW g, NEW code, CodeOK(code), NEW stack, Follows(b, code, <<>>, g, ToValue(stack)),
         NEW cs, Listed(cs), NEW c,
         \A v \in Values : \A h : Star(b, h, Yield(v, stack)) => Resumes(b, cs, c, v, h)
  PROVE  AtEmit(b, g, code, <<>>, Append(cs, c))
<1>1. ASSUME NEW w \in Seq(Values), NEW h, Reached(b, ToValue(stack), w, h)
      PROVE  Reached(b, ToCont(Append(cs, c)), w, h)
  <2>1. PICK v \in Values : w = <<v>> /\ Star(b, h, Yield(v, stack))
    BY <1>1, ReachedValue
  <2>2. Goes(b, Append(cs, c), v, h)
    BY <2>1, GoesMore
  <2> QED BY <2>1, <2>2, ReachedCont
<1>2. Follows(b, code, <<>>, g, ToCont(Append(cs, c)))
  BY <1>1, FollowsTo
<1> QED BY <1>2 DEF AtEmit

\* A frame stands for the kid it waits for.
LEMMA AwaitedTop ==
  ASSUME NEW b, NEW stack, Listed(stack), NEW fr
  PROVE  Awaited(b, Append(stack, fr)) = b[fr.at].kids[fr.i]
<1> DEFINE more == Append(stack, fr)
<1>1. Len(more) = Len(stack) + 1 /\ more[Len(stack) + 1] = fr /\ Len(stack) \in Nat
  BY ListMore, ListLen
<1> HIDE DEF more
<1>2. Awaited(b, more) = b[fr.at].kids[fr.i]
  BY <1>1 DEF Awaited, Wanted
<1> QED BY <1>2 DEF more

\* A recursing operand of a place is bound.
LEMMA TakeBinds ==
  ASSUME NEW b, WellFormed(b), NEW H, KeepsOrder(b, H), NEW g, NEW code, NEW cs,
         AtApply(b, H, g, code, cs), cs # <<>>, Last(cs).f = "operand"
  PROVE  LET c == Last(cs)
             t == Cont("temp", c.at, c.i, c.acc)
         IN  AtEmit(b, g, code, <<>>, Append(Front(cs), t)) /\ ContOK(t)
<1> DEFINE c == Last(cs)
           t == Cont("temp", c.at, c.i, c.acc)
<1>1. PICK below, fr : Taking(b, H, g, code, cs, below, fr)
  BY TakeParts
<1>2. OneCont(b, fr, c) /\ Standing(b, Front(cs), below)
  BY <1>1 DEF Taking, LoopConts
<1> HIDE DEF c
<1>3. /\ c.at = fr.at /\ c.i \in Nat /\ b[fr.at].kind \in {"op", "pure", "rec"} /\ c.i = fr.i
      /\ Silent(b, c.acc, fr.vals) /\ Len(fr.vals) = fr.i - 1
  BY <1>2 DEF OneCont, c
<1>4. t.f = "temp" /\ t.at = c.at /\ t.i = c.i /\ t.acc = c.acc
  BY DEF Cont
<1> HIDE DEF t
<1>5. ContOK(t)
  BY <1>3, <1>4, SilentParts DEF ContOK, CodeOK
<1>6. Under(b, Front(cs), fr.at, below, fr)
  BY <1>1, <1>2 DEF Taking, Under
<1>7. ASSUME NEW v \in Values, NEW h, Star(b, h, Yield(v, Append(below, fr)))
      PROVE  Resumes(b, Front(cs), t, v, h)
  <2>1. AfterTemp(b, Front(cs), t, v, h)
    BY <1>3, <1>4, <1>6, <1>7 DEF AfterTemp
  <2> QED BY <1>4, <2>1 DEF Resumes
<1>8. CodeOK(code) /\ Follows(b, code, <<>>, g, ToValue(Append(below, fr))) /\ Listed(Front(cs))
  BY <1>1 DEF Taking
<1>9. AtEmit(b, g, code, <<>>, Append(Front(cs), t))
  BY <1>7, <1>8, EmitTo
<1> QED BY <1>5, <1>9 DEF t, c

\* Another one is an operand like those before.
LEMMA TakeGoesOn ==
  ASSUME NEW b, WellFormed(b), NEW H, KeepsOrder(b, H), NEW g, NEW code, NEW cs,
         AtApply(b, H, g, code, cs), cs # <<>>, Last(cs).f = "operand",
         ~(Last(cs).i <= b[Last(cs).at].places)
  PROVE  LET c == Last(cs) IN AtSeq(b, H, g, c.at, c.i + 1, c.acc \o code, Front(cs))
<1> DEFINE c == Last(cs)
<1>1. PICK below, fr : Taking(b, H, g, code, cs, below, fr)
  BY TakeParts
<1>2. OneCont(b, fr, c) /\ Standing(b, Front(cs), below)
  BY <1>1 DEF Taking, LoopConts
<1> HIDE DEF c
<1> DEFINE n == fr.at
           i == fr.i
           acc == c.acc
           all == acc \o code
           more == Append(below, fr)
           up == i + 1
           old == fr.vals
<1>3. /\ c.at = n /\ b[n].kind \in {"op", "pure", "rec"} /\ c.i = i
      /\ Silent(b, acc, old) /\ Len(old) = i - 1 /\ b[b[n].kids[i]].rec
  BY <1>2 DEF OneCont, c
<1>4. /\ Listed(code) /\ CodeOK(code) /\ fr \in Frames /\ Listed(below) /\ Here(b, n, below)
      /\ n \in DOMAIN b /\ i \in DOMAIN b[n].kids
      /\ Follows(b, code, <<>>, g, ToValue(more))
      /\ QuietApply(b, g, code, more) \/ b[n].kids[i] \in H
  BY <1>1 DEF Taking
<1>5. b[n].rec /\ b[n].places \in Nat /\ Len(b[n].kids) \in Nat /\ DOMAIN b[n].kids = 1..Len(b[n].kids)
  BY <1>4, Inside, ListLen DEF Here
<1>6. i \in Nat /\ up \in 1..(Len(b[n].kids) + 1) /\ old \in Seq(Values)
  BY <1>3, <1>4, <1>5, SilentParts
<1>7. ~(i <= b[n].places)
  BY <1>3 DEF c
<1> HIDE DEF n, i, acc, more, old
<1>8. OfSeq(b, n, up, Front(cs), below)
  BY <1>2, <1>3, <1>4, <1>6 DEF OfSeq
<1>9. Listed(all) /\ CodeOK(all)
  BY <1>3, <1>4, CodeOKSilent, CodeOKJoin
<1>10. ASSUME NEW v \in Values, NEW h, Star(b, h, Yield(v, more))
       PROVE  /\ Star(b, h, Position(b, n, up, Append(old, v), below))
              /\ Len(Append(old, v)) = up - 1 /\ old \o <<v>> = Append(old, v)
  <2>1. Star(b, h, Position(b, fr.at, fr.i + 1, Append(fr.vals, v), below))
    BY <1>3, <1>4, <1>10, PositionStep DEF more, n, i
  <2>2. Len(Append(old, v)) = up - 1
    BY <1>3, <1>6, AppendProperties
  <2>3. old \o <<v>> = Append(old, v)
    BY <1>6, ListOne DEF Listed
  <2> QED BY <2>1, <2>2, <2>3 DEF n, i, old
<1> HIDE DEF all, up
<1>11. CASE QuietApply(b, g, code, more)
  <2>1. PICK v \in Values : Silent(b, code, <<v>>) /\ Star(b, g, Yield(v, more))
    BY <1>11 DEF QuietApply
  <2>2. Silent(b, all, old \o <<v>>)
    BY <1>3, <2>1, SilentJoin DEF all
  <2>3. QuietSeq(b, g, n, up, all, below)
    BY <1>10, <2>1, <2>2 DEF QuietSeq
  <2>4. AtSeq(b, H, g, n, up, all, Front(cs))
    BY <1>8, <1>9, <2>3 DEF AtSeq
  <2> QED BY <1>3, <2>4 DEF all, up, acc, c
<1>12. CASE b[n].kids[i] \in H
  <2>1. ASSUME NEW w \in Seq(Values), NEW h, Reached(b, ToValue(more), w, h)
        PROVE  Reached(b, ToOperand(n, up, below), old \o w, h)
    <3>1. PICK v \in Values : w = <<v>> /\ Star(b, h, Yield(v, more))
      BY <2>1, ReachedValue
    <3> QED BY <1>10, <3>1, ReachedOperand
  <2>2. Follows(b, code, old \o <<>>, g, ToOperand(n, up, below))
    BY <1>4, <1>6, <2>1, FollowsLift
  <2>3. old \o <<>> = old
    BY <1>6, ConcatEmptySeq
  <2>4. ASSUME NEW w \in Seq(Values), NEW h, Reached(b, ToState(old, g), w, h)
        PROVE  Follows(b, code, w, h, ToOperand(n, up, below))
    BY <2>2, <2>3, <2>4, ReachedState
  <2>5. Follows(b, acc, <<>>, g, ToState(old, g))
    BY <1>3, SilentFollows
  <2>6. Follows(b, all, <<>>, g, ToOperand(n, up, below))
    BY <1>4, <2>4, <2>5, FollowsJoin DEF all
  <2>7. b[n].places < i
    BY <1>5, <1>6, <1>7
  <2>8. ~LaterRecurses(b, b[n], i)
    BY <1>3, <1>4, <1>12, <2>7 DEF KeepsOrder, Late
  <2>9. Settled(b, n, up)
    <3>1. \A j \in DOMAIN b[n].kids : j >= up => i < j /\ j > b[n].places
      BY <1>5, <1>6, <2>7 DEF up
    <3> QED BY <2>8, <3>1 DEF Settled, LaterRecurses
  <2>10. b[n].kind = "pure" => n \in H
    BY <1>3, <1>4, <1>5, <1>12 DEF KeepsOrder, Hands
  <2>11. BusySeq(b, H, g, n, up, all, below)
    BY <2>6, <2>9, <2>10 DEF BusySeq
  <2>12. AtSeq(b, H, g, n, up, all, Front(cs))
    BY <1>8, <1>9, <2>11 DEF AtSeq
  <2> QED BY <1>3, <2>12 DEF all, up, acc, c
<1> QED BY <1>4, <1>11, <1>12

\* A value reaches the end of a `return`, and the test of a `while`.
LEMMA YieldReturn ==
  ASSUME NEW b, NEW v, NEW stack, Listed(stack), NEW fr, b[fr.at].kind = "return"
  PROVE  /\ ~AtEvent(Yield(v, Append(stack, fr)))
         /\ Move(b, Yield(v, Append(stack, fr))) = End(v)
<1>1. b[fr.at].kind \notin Strict
  BY DEF Strict
<1> QED BY <1>1, YieldIn

\* The test of a `while` comes to a value.
LEMMA YieldTest ==
  ASSUME NEW b, NEW v \in Values, NEW stack, Listed(stack), NEW fr, b[fr.at].kind = "while", fr.i = 1
  PROVE  /\ ~AtEvent(Yield(v, Append(stack, fr)))
         /\ Move(b, Yield(v, Append(stack, fr))) =
              IF v = "yes" THEN Eval(b[fr.at].kids[2], Append(stack, Frame(fr.at, 2, <<>>, fr.turn)))
              ELSE Yield(Unit, stack)
<1>1. /\ b[fr.at].kind \notin Strict \union {"return", "break", "loop"}
      /\ b[fr.at].kind \in Looping => fr.i # 2 /\ b[fr.at].kind \notin Iterating
  BY DEF Strict, Iterating
<1>2. Following(b[fr.at], fr.i, v) = (IF v = "yes" THEN 2 ELSE 0)
  BY DEF Following
<1>3. Comes(b[fr.at], fr.i, v) = Unit
  BY DEF Comes
<1>4. /\ ~AtEvent(Yield(v, Append(stack, fr)))
      /\ Move(b, Yield(v, Append(stack, fr))) =
           IF Following(b[fr.at], fr.i, v) # 0
           THEN Eval(b[fr.at].kids[Following(b[fr.at], fr.i, v)],
                     Append(stack, Frame(fr.at, Following(b[fr.at], fr.i, v), <<>>, fr.turn)))
           ELSE Yield(Comes(b[fr.at], fr.i, v), stack)
  BY <1>1, YieldNext
<1>5. CASE v = "yes"
  BY <1>2, <1>4, <1>5
<1>6. CASE v # "yes"
  BY <1>2, <1>3, <1>4, <1>6
<1> QED BY <1>5, <1>6

\* Code is emitted, and the expression goes on once it has run.
LEMMA TakeRuns ==
  ASSUME NEW b, WellFormed(b), NEW H, KeepsOrder(b, H), NEW g, NEW code, NEW cs,
         AtApply(b, H, g, code, cs), cs # <<>>, Last(cs).f \in DOMAIN Runs
  PROVE  LET c == Last(cs)
             t == Cont(Runs[c.f], c.at, c.i, <<>>)
         IN  AtEmit(b, g, code, <<>>, Append(Front(cs), t)) /\ ContOK(t) /\ t.f # "loop"
<1> DEFINE c == Last(cs)
           t == Cont(Runs[c.f], c.at, c.i, <<>>)
           rest == Front(cs)
<1>0. c.f \in {"cond", "left", "stmt", "return", "next", "while"}
  BY DEF Runs
<1>1. PICK below, fr : Taking(b, H, g, code, cs, below, fr)
  BY TakeParts
<1> DEFINE more == Append(below, fr)
           n == fr.at
<1>2. /\ Listed(code) /\ CodeOK(code) /\ fr \in Frames /\ Listed(below) /\ Here(b, n, below)
      /\ n \in DOMAIN b /\ fr.i \in DOMAIN b[n].kids /\ Listed(rest)
      /\ Follows(b, code, <<>>, g, ToValue(more))
  BY <1>1 DEF Taking
<1>3. t.f = Runs[c.f] /\ t.at = c.at /\ t.i = c.i /\ t.acc = <<>>
  BY DEF Cont
<1>4. \/ OneCont(b, fr, c) /\ Standing(b, rest, below)
      \/ /\ rest # <<>> /\ LoopConts(b, fr, Last(rest), c) /\ Standing(b, Front(rest), below)
  BY <1>1 DEF Taking
<1> HIDE DEF c, t, rest
<1>5. c.at = n /\ c.i \in Nat
  BY <1>4 DEF OneCont, LoopConts
<1> HIDE DEF more
<1>6. ContOK(t)
  BY <1>3, <1>5, ContBare
<1>7. ASSUME NEW v \in Values, NEW h, Star(b, h, Yield(v, more))
      PROVE  Resumes(b, rest, t, v, h) /\ t.f # "loop"
  <2>1. CASE c.f \in {"cond", "left", "stmt", "return"}
    <3>1. OneCont(b, fr, c) /\ Standing(b, rest, below)
      BY <1>4, <2>1 DEF LoopConts
    <3>2. Under(b, rest, n, below, fr)
      BY <1>2, <3>1 DEF Under
    <3>3. CASE c.f = "cond"
      <4>1. t.f = "branch" /\ b[n].kind = "if" /\ fr.i = 1
        BY <1>3, <3>1, <3>3 DEF OneCont, Runs
      <4>2. AfterFirst(b, rest, t, v, h, {"if"})
        BY <1>3, <1>5, <1>7, <3>2, <4>1 DEF AfterFirst, more
      <4> QED BY <4>1, <4>2 DEF Resumes
    <3>4. CASE c.f = "left"
      <4>1. t.f = "lazy" /\ b[n].kind \in {"and", "or"} /\ fr.i = 1
        BY <1>3, <3>1, <3>4 DEF OneCont, Runs
      <4>2. AfterFirst(b, rest, t, v, h, {"and", "or"})
        BY <1>3, <1>5, <1>7, <3>2, <4>1 DEF AfterFirst, more
      <4> QED BY <4>1, <4>2 DEF Resumes
    <3>5. CASE c.f = "stmt"
      <4>1. t.f = "rest" /\ b[n].kind \in {"block", "stmts"} /\ fr.i = t.i /\ ~IsValue(b[n], fr.i)
        BY <1>3, <3>1, <3>5 DEF OneCont, Runs
      <4>2. AfterStmt(b, rest, t, v, h)
        BY <1>3, <1>5, <1>7, <3>2, <4>1 DEF AfterStmt, more
      <4> QED BY <4>1, <4>2 DEF Resumes
    <3>6. CASE c.f = "return"
      <4>1. t.f = "finish" /\ b[n].kind = "return"
        BY <1>3, <3>1, <3>6 DEF OneCont, Runs
      <4>2. ~AtEvent(Yield(v, more)) /\ Move(b, Yield(v, more)) = End(v)
        BY <1>2, <4>1, YieldReturn DEF more
      <4>3. Star(b, h, End(v))
        BY <1>7, <4>2, StarStep
      <4> QED BY <4>1, <4>3 DEF Resumes
    <3> QED BY <2>1, <3>3, <3>4, <3>5, <3>6
  <2>2. CASE c.f \in {"next", "while"}
    <3>1. rest # <<>> /\ LoopConts(b, fr, Last(rest), c) /\ Standing(b, Front(rest), below)
      BY <1>4, <2>2 DEF OneCont
    <3>2. /\ b[n].kind \in Looping /\ Last(rest).f = "loop" /\ Last(rest).at = n /\ Turns(b, Last(rest), fr)
      BY <3>1 DEF LoopConts
    <3>3. CASE c.f = "next"
      <4>1. t.f = "again" /\ fr.i = IF b[n].kind = "loop" THEN 1 ELSE 2
        BY <1>3, <3>1, <3>3 DEF LoopConts, Runs
      <4>2. Under(b, Front(rest), n, below, fr)
        BY <1>2, <3>1 DEF Under
      <4>3. InsideLoop(b, rest, n, below, fr)
        BY <1>2, <3>1, <3>2, <4>2 DEF InsideLoop
      <4>4. AfterTurn(b, rest, t, v, h)
        BY <1>3, <1>5, <1>7, <4>1, <4>3 DEF AfterTurn, more
      <4> QED BY <4>1, <4>4 DEF Resumes
    <3>4. CASE c.f = "while"
      <4>1. t.f = "whether" /\ b[n].kind = "while" /\ fr.i = 1
        BY <1>3, <3>1, <3>4 DEF LoopConts, Runs
      <4> DEFINE fr2 == Frame(n, 2, <<>>, fr.turn)
      <4>2. /\ ~AtEvent(Yield(v, more))
            /\ Move(b, Yield(v, more)) =
                  IF v = "yes" THEN Eval(b[n].kids[2], Append(below, fr2)) ELSE Yield(Unit, below)
        BY <1>2, <4>1, YieldTest DEF more
      <4>3. n \in Nat /\ fr.turn \in Nat /\ 2 \in DOMAIN b[n].kids
        <5>1. Len(b[n].kids) = 2 /\ DOMAIN b[n].kids = 1..Len(b[n].kids)
          BY <1>2, <4>1, Inside DEF WellFormed, Binary
        <5> QED BY <1>2, <5>1 DEF Frames
      <4>4. fr2 \in Frames /\ fr2.at = n /\ fr2.i = 2 /\ fr2.turn = fr.turn
        BY <4>3, EmptySeq DEF Frame, Frames
      <4> HIDE DEF fr2
      <4>5. Under(b, Front(rest), n, below, fr2)
        BY <1>2, <3>1, <4>3, <4>4 DEF Under
      <4>6. Turns(b, Last(rest), fr2)
        BY <3>2, <4>4 DEF Turns
      <4>7. InsideLoop(b, rest, n, below, fr2)
        BY <1>2, <3>1, <3>2, <4>5, <4>6 DEF InsideLoop
      <4>8. v = "yes" => Star(b, h, Eval(b[n].kids[2], Append(below, fr2)))
        BY <1>7, <4>2, StarStep
      <4>9. v = "no" => Star(b, h, Yield(Unit, below))
        BY <1>7, <4>2, StarStep
      <4>10. t.at = n /\ b[n].kind # "loop"
        BY <1>3, <1>5, <4>1
      <4>11. AfterTest(b, rest, t, v, h)
        BY <4>4, <4>7, <4>8, <4>9, <4>10 DEF AfterTest
      <4> QED BY <4>1, <4>11 DEF Resumes
    <3> QED BY <2>2, <3>3, <3>4
  <2> QED BY <1>0, <2>1, <2>2 DEF c
<1>8. AtEmit(b, g, code, <<>>, Append(rest, t))
  BY <1>2, <1>7, EmitTo
<1>9. t.f # "loop"
  BY <1>0, <1>3 DEF Runs, c
<1> QED BY <1>6, <1>8, <1>9 DEF t, c, rest

\* The one operand of an expression is there.
LEMMA YieldOne ==
  ASSUME NEW b, WellFormed(b), NEW v, NEW stack, Listed(stack), NEW fr, fr.at \in DOMAIN b,
         fr.i \in DOMAIN b[fr.at].kids, b[fr.at].kind \in {"try", "assign"}, fr.vals = <<>>
  PROVE  /\ ~AtEvent(Yield(v, Append(stack, fr)))
         /\ Move(b, Yield(v, Append(stack, fr))) = Doing("op", fr.at, <<v>>, 0, stack)
<1> DEFINE n == fr.at
           k == Len(b[n].kids)
<1>1. k = 1 /\ DOMAIN b[n].kids = 1..k
  BY Inside DEF WellFormed, Unary
<1>2. ~(fr.i < k)
  <2> HIDE DEF k
  <2>1. fr.i \in 1..1
    BY <1>1
  <2> QED BY <1>1, <2>1
<1>3. Append(fr.vals, v) = <<v>>
  BY ListOne
<1>4. b[n].kind \in Strict /\ b[n].kind # "pure"
  BY DEF Strict
<1>5. /\ ~AtEvent(Yield(v, Append(stack, fr)))
      /\ Move(b, Yield(v, Append(stack, fr))) = Operand(b[n], fr, v, stack)
  BY <1>4, YieldIn
<1>6. Operand(b[n], fr, v, stack) = Doing("op", fr.at, Append(fr.vals, v), 0, stack)
  BY <1>2, <1>4 DEF Operand
<1> QED BY <1>3, <1>5, <1>6

\* An iterator expression comes to a value.
LEMMA YieldIter ==
  ASSUME NEW b, NEW v, NEW stack, Listed(stack), NEW fr, b[fr.at].kind \in Iterating, fr.i = 1
  PROVE  /\ ~AtEvent(Yield(v, Append(stack, fr)))
         /\ Move(b, Yield(v, Append(stack, fr))) = Doing("op", fr.at, <<v>>, 0, Append(stack, fr))
<1>1. b[fr.at].kind \notin Strict /\ b[fr.at].kind \notin {"return", "break"}
  BY DEF Strict, Iterating
<1> QED BY <1>1, YieldIn

\* Code is emitted with what the expression does to its value.
LEMMA TakeActs ==
  ASSUME NEW b, WellFormed(b), NEW H, KeepsOrder(b, H), NEW g, NEW code, NEW cs,
         AtApply(b, H, g, code, cs), cs # <<>>, Last(cs).f \in DOMAIN Acts
  PROVE  LET c == Last(cs)
             t == Cont(Acts[c.f], c.at, c.i, <<>>)
         IN  AtEmit(b, g, code \o Perform(b, c.at), <<>>, Append(Front(cs), t))
             /\ ContOK(t) /\ t.f # "loop"
<1> DEFINE c == Last(cs)
           t == Cont(Acts[c.f], c.at, c.i, <<>>)
           rest == Front(cs)
<1>0. c.f \in {"try", "assign", "iter"}
  BY DEF Acts
<1>1. PICK below, fr : Taking(b, H, g, code, cs, below, fr)
  BY TakeParts
<1> DEFINE more == Append(below, fr)
           n == fr.at
<1>2. /\ Listed(code) /\ CodeOK(code) /\ fr \in Frames /\ Listed(below) /\ Here(b, n, below)
      /\ n \in DOMAIN b /\ fr.i \in DOMAIN b[n].kids /\ Listed(rest)
      /\ Follows(b, code, <<>>, g, ToValue(more))
  BY <1>1 DEF Taking
<1>3. t.f = Acts[c.f] /\ t.at = c.at /\ t.i = c.i /\ t.acc = <<>>
  BY DEF Cont
<1>4. OneCont(b, fr, c) /\ Standing(b, rest, below)
  BY <1>0, <1>1 DEF Taking, LoopConts
<1> HIDE DEF c, t, rest
<1>5. c.at = n /\ c.i \in Nat
  BY <1>4 DEF OneCont
<1> HIDE DEF more
<1>6. ContOK(t)
  BY <1>3, <1>5, ContBare
<1>7. Under(b, rest, n, below, fr)
  BY <1>2, <1>4 DEF Under
<1>8. /\ c.f = "iter" => b[n].kind \in Iterating /\ fr.i = 1
      /\ c.f # "iter" => b[n].kind = c.f /\ b[n].kind \in {"try", "assign"} /\ fr.vals = <<>>
  BY <1>0, <1>4 DEF OneCont, c
<1>9. b[n].kind # "pure" /\ Arity(b[n]) = 1
  <2>1. b[n].kind \in {"try", "assign"} => Len(b[n].kids) = 1
    BY <1>2 DEF WellFormed, Unary
  <2> QED BY <1>8, <2>1 DEF Arity, Iterating
<1> DEFINE left == IF c.f = "iter" THEN more ELSE below
<1>10. ASSUME NEW v
       PROVE  /\ ~AtEvent(Yield(v, more))
              /\ Move(b, Yield(v, more)) = Doing("op", n, <<v>>, 0, left)
  <2>1. CASE c.f = "iter"
    BY <1>2, <1>8, <2>1, YieldIter DEF more
  <2>2. CASE c.f # "iter"
    BY <1>2, <1>8, <2>2, YieldOne DEF more
  <2> QED BY <2>1, <2>2
<1>11. ASSUME NEW w \in Seq(Values), NEW h, Reached(b, ToValue(more), w, h)
       PROVE  Follows(b, Perform(b, n), w, h, ToCont(Append(rest, t)))
  <2>1. PICK v \in Values : w = <<v>> /\ Star(b, h, Yield(v, more))
    BY <1>11, ReachedValue
  <2> DEFINE s == Doing("op", n, w, 0, left)
  <2>2. Star(b, h, s)
    BY <1>10, <2>1, StarStep
  <2>3. Len(w) = 1
    BY <2>1, ListOne
  <2>4. ASSUME NEW out \in Values
        PROVE  Reached(b, ToCont(Append(rest, t)), <<out>>, Went(b, s, out))
    <3>0. /\ b[n].kind \in Iterating => Went(b, s, out) = Doing("next", n, <<>>, 0, left)
          /\ b[n].kind = "try" => Went(b, s, out) = IF out = "no" THEN End(out) ELSE Yield(out, left)
          /\ b[n].kind = "assign" => Went(b, s, out) = Yield(Unit, left)
      BY WentOp
    <3>1. CASE c.f = "iter"
      <4>1. Went(b, s, out) = Doing("next", n, <<>>, 0, more)
        BY <1>8, <3>0, <3>1
      <4>2. Star(b, Went(b, s, out), Doing("next", n, <<>>, 0, more))
        BY <4>1, StarHere
      <4> HIDE DEF s
      <4>3. AfterIter(b, rest, t, Went(b, s, out))
        BY <1>3, <1>5, <1>7, <1>8, <3>1, <4>2 DEF AfterIter, more
      <4>4. t.f = "looped"
        BY <1>3, <3>1 DEF Acts
      <4>5. Goes(b, Append(rest, t), out, Went(b, s, out))
        BY <1>2, <4>3, <4>4, GoesMore DEF Resumes
      <4> QED BY <4>5, ReachedCont
    <3>2. CASE c.f = "assign"
      <4>1. Went(b, s, out) = Yield(Unit, below)
        BY <1>8, <3>0, <3>2
      <4>2. Star(b, Went(b, s, out), Yield(Unit, below))
        BY <4>1, StarHere
      <4> HIDE DEF s
      <4>3. After(b, rest, Went(b, s, out), Unit)
        BY <1>4, <4>2 DEF After
      <4>4. t.f = "assigned"
        BY <1>3, <3>2 DEF Acts
      <4>5. Goes(b, Append(rest, t), out, Went(b, s, out))
        BY <1>2, <4>3, <4>4, GoesMore DEF Resumes
      <4> QED BY <4>5, ReachedCont
    <3>3. CASE c.f = "try"
      <4>1. Went(b, s, out) = IF out = "no" THEN End(out) ELSE Yield(out, below)
        BY <1>8, <3>0, <3>3
      <4>2. out = "yes" => Star(b, Went(b, s, out), Yield(out, below))
        BY <4>1, StarHere
      <4>3. out # "yes" => Star(b, Went(b, s, out), End(out))
        BY <4>1, StarHere DEF Values
      <4> HIDE DEF s
      <4>4. AfterTry(b, rest, out, Went(b, s, out))
        BY <1>4, <4>2, <4>3 DEF After, AfterTry
      <4>5. t.f = "tried"
        BY <1>3, <3>3 DEF Acts
      <4>6. Goes(b, Append(rest, t), out, Went(b, s, out))
        BY <1>2, <4>4, <4>5, GoesMore DEF Resumes
      <4> QED BY <4>6, ReachedCont
    <3> QED BY <1>0, <3>1, <3>2, <3>3 DEF c
  <2> HIDE DEF left
  <2> QED BY <1>2, <1>9, <2>2, <2>3, <2>4, FollowsPerform
<1>12. Listed(Perform(b, n)) /\ CodeOK(Perform(b, n))
  BY ItemsOK
<1>13. Follows(b, code \o Perform(b, n), <<>>, g, ToCont(Append(rest, t)))
  BY <1>2, <1>11, <1>12, FollowsJoin
<1>14. AtEmit(b, g, code \o Perform(b, n), <<>>, Append(rest, t))
  BY <1>2, <1>12, <1>13, CodeOKJoin DEF AtEmit
<1>15. t.f # "loop"
  BY <1>0, <1>3 DEF Acts, c
<1> QED BY <1>5, <1>6, <1>14, <1>15 DEF t, c, rest

\* The value of `break` goes to what waits for the loop.
LEMMA TakeBreaks ==
  ASSUME NEW b, WellFormed(b), NEW H, KeepsOrder(b, H), NEW g, NEW code, NEW cs,
         AtApply(b, H, g, code, cs), cs # <<>>, Last(cs).f = "break"
  PROVE  AtApply(b, H, g, code, Front(Env(cs)))
<1> DEFINE c == Last(cs)
           rest == Front(Env(cs))
<1>1. PICK below, fr : Taking(b, H, g, code, cs, below, fr)
  BY TakeParts
<1> DEFINE more == Append(below, fr)
           n == fr.at
           l == b[n].loop
           j == LoopAt(more, l)
           stack == SubSeq(more, 1, j - 1)
<1>2. /\ Listed(code) /\ CodeOK(code) /\ Listed(below) /\ Here(b, n, below)
      /\ n \in DOMAIN b /\ fr.i \in DOMAIN b[n].kids /\ Standing(b, cs, more)
      /\ Follows(b, code, <<>>, g, ToValue(more))
      /\ QuietApply(b, g, code, more) \/ b[n].kids[fr.i] \in H
  BY <1>1 DEF Taking
<1>3. b[n].kind = "break"
  BY <1>1 DEF Taking, OneCont, LoopConts
<1>4. l # 0 /\ Len(b[n].kids) = 1 /\ DOMAIN b[n].kids = 1..Len(b[n].kids)
  BY <1>2, <1>3, Inside DEF WellFormed, Unary
<1>5. fr.i = 1
  <2>1. fr.i \in 1..1
    BY <1>2, <1>4
  <2> QED BY <2>1
<1>6. Awaited(b, more) = b[n].kids[fr.i]
  BY <1>2, AwaitedTop
<1>7. b[b[n].kids[fr.i]].loop = l
  <2>1. b[b[n].kids[fr.i]].loop = LoopIn(b, n, fr.i)
    BY <1>2, Inside
  <2>2. b[n].kind \notin Looping
    BY <1>3 DEF Looping, Iterating
  <2> QED BY <2>1, <2>2, LoopInPlain
<1> HIDE DEF c, more
<1>8. Known(b, Env(cs), more, l)
  BY <1>2, <1>6, <1>7, KnownHere
<1> HIDE DEF l
<1>9. /\ l \in DOMAIN b /\ b[l].kind \in Looping
      /\ Standing(b, rest, stack) /\ Awaited(b, stack) = l
  BY <1>4, <1>8 DEF Known
<1>10. ASSUME NEW v \in Values, NEW h, Star(b, h, Yield(v, more))
       PROVE  Star(b, h, Yield(v, stack))
  <2>1. b[n].kind \notin Strict /\ b[n].kind # "return"
    BY <1>3 DEF Strict
  <2>2. ~AtEvent(Yield(v, more)) /\ Move(b, Yield(v, more)) = BreakLoop(more, b[n].loop, v)
    BY <1>2, <1>3, <2>1, YieldIn DEF more
  <2>3. BreakLoop(more, b[n].loop, v) = Yield(v, stack)
    BY DEF BreakLoop, l
  <2> HIDE DEF stack
  <2> QED BY <1>10, <2>2, <2>3, StarStep
<1> HIDE DEF stack, rest
<1>11. CASE QuietApply(b, g, code, more)
  <2>1. QuietApply(b, g, code, stack)
    BY <1>10, <1>11 DEF QuietApply
  <2> QED BY <1>2, <1>9, <2>1 DEF AtApply, rest
<1>12. CASE b[n].kids[fr.i] \in H
  <2>1. ASSUME NEW w \in Seq(Values), NEW h, Reached(b, ToValue(more), w, h)
        PROVE  Reached(b, ToValue(stack), w, h)
    <3>1. PICK v \in Values : w = <<v>> /\ Star(b, h, Yield(v, more))
      BY <2>1, ReachedValue
    <3> QED BY <1>10, <3>1, ReachedValue
  <2>2. Follows(b, code, <<>>, g, ToValue(stack))
    BY <1>2, <2>1, FollowsTo
  <2>3. Hands(b, H, l)
    BY <1>2, <1>3, <1>5, <1>9, <1>12 DEF Hands, l
  <2>4. l \in H
    BY <1>9, <2>3 DEF KeepsOrder
  <2>5. BusyApply(b, H, g, code, stack)
    BY <1>9, <2>2, <2>4 DEF BusyApply
  <2> QED BY <1>2, <1>9, <2>5 DEF AtApply, rest
<1> QED BY <1>2, <1>11, <1>12

\* Where nothing waits the body ends with the value.
LEMMA TakeEnds ==
  ASSUME NEW b, WellFormed(b), NEW H, NEW g, NEW code, AtApply(b, H, g, code, <<>>)
  PROVE  LET t == Cont("finish", 0, 0, <<>>)
         IN  AtEmit(b, g, code, <<>>, Append(<<>>, t)) /\ ContOK(t)
<1> DEFINE t == Cont("finish", 0, 0, <<>>)
<1>1. PICK stack : /\ Standing(b, <<>>, stack)
                   /\ QuietApply(b, g, code, stack) \/ BusyApply(b, H, g, code, stack)
  BY DEF AtApply
<1>2. CodeOK(code) /\ Listed(<<>>)
  BY CodeOKNone DEF AtApply
<1>3. Follows(b, code, <<>>, g, ToValue(stack))
  <2>1. CASE QuietApply(b, g, code, stack)
    <3>1. PICK v \in Values : Silent(b, code, <<v>>) /\ Star(b, g, Yield(v, stack))
      BY <2>1 DEF QuietApply
    <3>2. Reached(b, ToValue(stack), <<v>>, g)
      BY <3>1, ReachedValue
    <3> QED BY <3>1, <3>2, SilentGoes
  <2> QED BY <1>1, <2>1 DEF BusyApply
<1>4. t.f = "finish" /\ t.i = 0 /\ t.acc = <<>>
  BY DEF Cont
<1> HIDE DEF t
<1>5. ContOK(t)
  BY <1>4, ContBare
<1>6. ASSUME NEW v \in Values, NEW h, Star(b, h, Yield(v, stack))
      PROVE  Resumes(b, <<>>, t, v, h)
  <2>1. Star(b, Yield(v, stack), End(v))
    BY <1>1, Bottom
  <2>2. Star(b, h, End(v))
    BY <1>6, <2>1, StarThen
  <2> QED BY <1>4, <2>2 DEF Resumes
<1>7. AtEmit(b, g, code, <<>>, Append(<<>>, t))
  BY <1>2, <1>3, <1>6, EmitTo
<1> QED BY <1>5, <1>7 DEF t

-----------------------------------------------------------------------------
(* The next turn of a loop. *)
Advanced(b, cont) == IF b[cont.at].kind = "range" THEN Moved(cont) ELSE cont

\* The continuation of a loop above those before it.
LEMMA LoopSound ==
  ASSUME NEW b, NEW cs, NEW stack, Standing(b, cs, stack),
         NEW L, L.f = "loop", L.at = Awaited(b, stack), L.acc = <<>>, L.i \in Nat
  PROVE  Sound(Append(cs, L))
<1>1. Sound(cs) /\ \A m \in DOMAIN cs : cs[m].f = "loop" => cs[m].at # L.at
  BY StandingSound
<1>2. ContOK(L)
  BY ContBare
<1> QED BY <1>1, <1>2, SoundMore

\* `continue`, and the end of a turn.
LEMMA AgainGoes ==
  ASSUME NEW b, WellFormed(b), NEW env, NEW stack, NEW l, l # 0, Known(b, env, stack, l),
         NEW g, Star(b, g, NextTurn(b, stack, l))
  PROVE  LET cs == Append(Front(env), Advanced(b, Last(env)))
         IN  Last(env).at = l /\ AtEnter(b, g, l, cs) /\ Sound(cs)
<1> DEFINE L == Last(env)
           L2 == Advanced(b, L)
           cs == Append(Front(env), L2)
           j == LoopAt(stack, l)
           below == SubSeq(stack, 1, j - 1)
           fr == Frame(l, 1, <<>>, stack[j].turn + 1)
<1>1. /\ Listed(env) /\ env # <<>> /\ L.f = "loop" /\ L.at = l
      /\ l \in DOMAIN b /\ b[l].rec /\ b[l].kind \in Looping
      /\ j \in DOMAIN stack /\ stack[j].at = l /\ Turns(b, L, stack[j])
      /\ stack[j].turn \in Nat
      /\ Standing(b, Front(env), below)
      /\ Awaited(b, below) = l
  BY DEF Known
<1>2. /\ L.acc = <<>> /\ L.i \in Nat
      /\ b[l].kind \in Iterating => L.i = stack[j].turn + (IF b[l].kind = "for" THEN 1 ELSE 0)
  BY <1>1 DEF Turns
<1>3. L2.f = "loop" /\ L2.at = l /\ L2.acc = <<>> /\ L2.i \in Nat
      /\ L2.i = (IF b[l].kind = "range" THEN L.i + 1 ELSE L.i)
  <2>1. L.i + 1 \in Nat
    BY <1>2
  <2>2. CASE b[l].kind = "range"
    <3>1. L2 = Cont(L.f, L.at, L.i + 1, L.acc)
      BY <1>1, <2>2 DEF Advanced, Moved
    <3> HIDE DEF L, L2
    <3>2. L2.f = L.f /\ L2.at = L.at /\ L2.i = L.i + 1 /\ L2.acc = L.acc
      BY <3>1 DEF Cont
    <3> QED BY <1>1, <1>2, <2>1, <2>2, <3>2
  <2>3. CASE b[l].kind # "range"
    <3>1. L2 = L
      BY <1>1, <2>3 DEF Advanced
    <3> HIDE DEF L, L2
    <3> QED BY <1>1, <1>2, <2>3, <3>1
  <2> QED BY <2>2, <2>3
<1> HIDE DEF L, L2
<1>4. b[l].kind \in Iterating => L2.i = stack[j].turn + 1
  <2> DEFINE t == stack[j].turn
  <2>0. t \in Nat
    BY <1>1
  <2> HIDE DEF t, j
  <2>1. CASE b[l].kind = "range"
    <3>1. L.i = t + 0
      BY <1>2, <2>1 DEF Iterating, t
    <3> QED BY <1>3, <2>0, <2>1, <3>1 DEF t
  <2>2. CASE b[l].kind = "for"
    <3>1. L.i = t + 1
      BY <1>2, <2>2 DEF Iterating, t
    <3> QED BY <1>3, <2>2, <3>1 DEF t
  <2> QED BY <2>1, <2>2 DEF Iterating
<1>5. Here(b, l, below)
  BY <1>1 DEF Here
<1>6. Listed(Front(env))
  BY <1>1, ListLast
<1>7. Listed(cs) /\ cs # <<>> /\ Last(cs) = L2 /\ Front(cs) = Front(env)
  BY <1>6, ListMore
<1>8. NextTurn(b, stack, l) = IF b[l].kind \in Iterating
                              THEN Doing("next", l, <<>>, fr.turn, Append(below, fr))
                              ELSE Eval(b[l].kids[1], Append(below, fr))
  BY DEF NextTurn
<1>9. stack[j].turn + 1 \in Nat /\ fr.turn = stack[j].turn + 1
  BY <1>1 DEF Frame
<1>10. b[l].kind \in Iterating => Star(b, g, Doing("next", l, <<>>, L2.i, Append(below, fr)))
  BY <1>4, <1>8, <1>9
<1>11. b[l].kind \notin Iterating =>
          \E turn \in Nat : Star(b, g, Eval(b[l].kids[1], Append(below, Frame(l, 1, <<>>, turn))))
  BY <1>8, <1>9
<1> HIDE DEF cs, below, fr, j
<1>12. AtEnter(b, g, l, cs)
  BY <1>1, <1>3, <1>5, <1>7, <1>10, <1>11 DEF AtEnter
<1>13. Sound(cs)
  BY <1>1, <1>3, LoopSound DEF cs
<1> QED BY <1>1, <1>12, <1>13 DEF cs, L2, L

\* The continuation of a loop that has moved on.
LEMMA EnterSound ==
  ASSUME NEW b, WellFormed(b), NEW g, NEW n, NEW cs, AtEnter(b, g, n, cs),
         NEW L, L.f = "loop", L.at = n, L.acc = <<>>, L.i \in Nat
  PROVE  Sound(Append(Front(cs), L))
<1>1. PICK stack : Standing(b, Front(cs), stack) /\ Here(b, n, stack)
  BY DEF AtEnter
<1>2. L.at = Awaited(b, stack)
  BY <1>1 DEF Here
<1> QED BY <1>1, <1>2, LoopSound

-----------------------------------------------------------------------------
(* Emitted code runs. *)
LEMMA CodeOKTail ==
  ASSUME NEW code, Listed(code), code # <<>>, CodeOK(code)
  PROVE  CodeOK(Tail(code)) /\ ItemOK(Head(code))
<1>1. Head(code) = code[1] /\ Listed(Tail(code)) /\ Len(Tail(code)) = Len(code) - 1
      /\ \A i \in 1..Len(Tail(code)) : Tail(code)[i] = code[i + 1]
  BY ListFirst
<1>2. Len(code) \in Nat /\ Len(code) > 0 /\ DOMAIN code = 1..Len(code)
      /\ DOMAIN Tail(code) = 1..Len(Tail(code))
  BY <1>1, ListLen
<1>3. \A i \in 1..Len(Tail(code)) : i + 1 \in DOMAIN code
  BY <1>1, <1>2
<1>4. 1 \in DOMAIN code
  BY <1>2
<1> QED BY <1>1, <1>2, <1>3, <1>4 DEF CodeOK

\* Silently.
LEMMA RunsOn ==
  ASSUME NEW b, NEW g, NEW code, NEW vals, NEW cs, AtEmit(b, g, code, vals, cs), code # <<>>,
         Head(code).run \in {"push", "pure"}
  PROVE  AtEmit(b, g, Tail(code), IF Head(code).run = "push" THEN Append(vals, Head(code).v)
                                  ELSE Append(Left(vals, Arity(b[Head(code).at])), Unit), cs)
<1>1. Follows(b, code, vals, g, ToCont(cs)) /\ CodeOK(code)
  BY DEF AtEmit
<1>2. Listed(code) /\ Starts(b, Head(code), Tail(code), vals, g, ToCont(cs))
  BY <1>1, FollowsNow
<1>3. CodeOK(Tail(code))
  BY <1>1, <1>2, CodeOKTail
<1> DEFINE item == Head(code)
<1> HIDE DEF item
<1>4. CASE item.run = "push"
  <2>1. Follows(b, Tail(code), Append(vals, item.v), g, ToCont(cs))
    BY <1>2, <1>4 DEF Starts, item
  <2> QED BY <1>3, <1>4, <2>1 DEF AtEmit, item
<1>5. CASE item.run = "pure"
  <2>1. Follows(b, Tail(code), Append(Left(vals, Arity(b[item.at])), Unit), g, ToCont(cs))
    BY <1>2, <1>5 DEF Starts, item
  <2> QED BY <1>3, <1>5, <2>1 DEF AtEmit, item
<1> QED BY <1>4, <1>5 DEF item

\* To its end.
LEMMA RunsOut ==
  ASSUME NEW b, NEW g, NEW vals, NEW cs, AtEmit(b, g, <<>>, vals, cs)
  PROVE  AtValue(b, g, <<Last(vals)>>, cs)
<1>1. Follows(b, <<>>, vals, g, ToCont(cs))
  BY DEF AtEmit
<1>2. Reached(b, ToCont(cs), vals, g)
  BY <1>1, FollowsNow
<1>3. PICK v \in Values : vals = <<v>> /\ Goes(b, cs, v, g)
  BY <1>2, ReachedCont
<1>4. Last(<<v>>) = v
  BY ListOne
<1> QED BY <1>3, <1>4 DEF AtValue

\* To an event, which the machine is on its way to.
LEMMA RunsTo ==
  ASSUME NEW b, NEW g, NEW code, NEW vals, NEW cs, AtEmit(b, g, code, vals, cs), code # <<>>,
         Head(code).run \in {"leaf", "op", "next"}
  PROVE  LET item == Head(code)
         IN  \E h : /\ Star(b, g, h) /\ Performs(b, item, vals, h) /\ item.at \in DOMAIN b
                    /\ \A out \in Values :
                          AtEmit(b, Went(b, h, out), Tail(code),
                                 Append(Left(vals, Operands(b, item)), out), cs)
<1>1. Follows(b, code, vals, g, ToCont(cs)) /\ CodeOK(code)
  BY DEF AtEmit
<1>2. Listed(code) /\ Starts(b, Head(code), Tail(code), vals, g, ToCont(cs))
  BY <1>1, FollowsNow
<1>3. CodeOK(Tail(code))
  BY <1>1, <1>2, CodeOKTail
<1> DEFINE item == Head(code)
<1> HIDE DEF item
<1>4. Runnable(item)
  BY DEF Runnable, item
<1>5. /\ item.at \in DOMAIN b
      /\ \E h : /\ Star(b, g, h) /\ Performs(b, item, vals, h)
                /\ \A out \in Values :
                      Follows(b, Tail(code), Append(Left(vals, Operands(b, item)), out),
                              Went(b, h, out), ToCont(cs))
  BY <1>2, <1>4 DEF Starts, item
<1>6. PICK h : /\ Star(b, g, h) /\ Performs(b, item, vals, h)
               /\ \A out \in Values :
                      Follows(b, Tail(code), Append(Left(vals, Operands(b, item)), out),
                              Went(b, h, out), ToCont(cs))
  BY <1>5
<1>7. \A out \in Values : AtEmit(b, Went(b, h, out), Tail(code), Append(Left(vals, Operands(b, item)), out), cs)
  BY <1>3, <1>6 DEF AtEmit
<1> QED BY <1>5, <1>6, <1>7 DEF item

\* A leaf leaves the body, or its loop, or begins the next turn.
LEMMA LeafReturns ==
  ASSUME NEW b, NEW h
  PROVE  AtDone(b, Went(b, h, "return"), <<"return">>)
<1>1. Went(b, h, "return") = End("return")
  BY DEF Went
<1>2. Star(b, Went(b, h, "return"), End("return"))
  BY <1>1, StarHere
<1> QED BY <1>2 DEF AtDone

\* A leaf leaves the loop it is spliced in.
LEMMA LeafLoop ==
  ASSUME NEW b, NEW item, NEW vals, NEW h, Performs(b, item, vals, h), item.loop # <<>>
  PROVE  LET l == b[item.at].loop
         IN  /\ item.run = "leaf" /\ l # 0 /\ Known(b, item.loop, h.pending, l)
             /\ Went(b, h, "break") = BreakLoop(h.pending, l, Unit)
             /\ Went(b, h, "continue") = NextTurn(b, h.pending, l)
<1> DEFINE l == b[item.at].loop
<1>1. h.at = item.at
  BY DEF Performs
<1>2. item.run = "leaf" /\ Known(b, item.loop, h.pending, l)
  BY DEF Performs, Runnable
<1>3. l # 0
  BY <1>2 DEF Known
<1>4. Went(b, h, "break") = BreakLoop(h.pending, l, Unit) /\ Went(b, h, "continue") = NextTurn(b, h.pending, l)
  BY <1>1 DEF Went
<1> QED BY <1>2, <1>3, <1>4

\* `break` in a leaf: the continuation after that loop.
LEMMA LeafBreaks ==
  ASSUME NEW b, WellFormed(b), NEW H, NEW item, NEW vals, NEW h, Performs(b, item, vals, h),
         item.loop # <<>>
  PROVE  /\ AtApply(b, H, Went(b, h, "break"), UnitCode, Front(item.loop))
         /\ Sound(Front(item.loop))
<1> DEFINE l == b[item.at].loop
           stack == SubSeq(h.pending, 1, LoopAt(h.pending, l) - 1)
           g == Went(b, h, "break")
<1>1. l # 0 /\ Known(b, item.loop, h.pending, l) /\ g = BreakLoop(h.pending, l, Unit)
  BY LeafLoop
<1>2. Standing(b, Front(item.loop), stack)
  BY <1>1 DEF Known
<1>3. g = Yield(Unit, stack)
  BY <1>1 DEF BreakLoop
<1>4. Star(b, g, Yield(Unit, stack))
  BY <1>3, StarHere
<1> HIDE DEF g, stack
<1>5. Unit \in Values
  BY DEF Unit, Values
<1>6. QuietApply(b, g, UnitCode, stack)
  BY <1>4, <1>5, SilentUnit DEF QuietApply
<1>7. AtApply(b, H, g, UnitCode, Front(item.loop))
  BY <1>2, <1>6, ItemsOK DEF AtApply
<1> QED BY <1>2, <1>7, StandingSound DEF g

\* `continue` in a leaf: the next turn of that loop.
LEMMA LeafContinues ==
  ASSUME NEW b, WellFormed(b), NEW item, NEW vals, NEW h, Performs(b, item, vals, h),
         item.loop # <<>>
  PROVE  LET L == Last(item.loop)
             cs == Append(Front(item.loop), Advanced(b, L))
         IN  AtEnter(b, Went(b, h, "continue"), L.at, cs) /\ Sound(cs)
<1> DEFINE l == b[item.at].loop
           g == Went(b, h, "continue")
<1>1. l # 0 /\ Known(b, item.loop, h.pending, l) /\ g = NextTurn(b, h.pending, l)
  BY LeafLoop
<1>2. Star(b, g, NextTurn(b, h.pending, l))
  BY <1>1, StarHere
<1> HIDE DEF g
<1> DEFINE L == Last(item.loop)
           cs == Append(Front(item.loop), Advanced(b, L))
<1>3. L.at = l /\ AtEnter(b, g, l, cs) /\ Sound(cs)
  BY <1>1, <1>2, AgainGoes
<1> QED BY <1>3 DEF g

-----------------------------------------------------------------------------
(* The code has run to a value. *)
\* The value goes to the continuation below.
LEMMA AfterApplies ==
  ASSUME NEW b, NEW H, NEW g, NEW w \in Values, NEW cs, After(b, cs, g, w)
  PROVE  AtApply(b, H, g, <<Push(w)>>, cs)
<1>1. PICK stack : Standing(b, cs, stack) /\ Star(b, g, Yield(w, stack))
  BY DEF After
<1>2. Silent(b, <<Push(w)>>, <<w>>)
  BY SilentPush
<1>3. QuietApply(b, g, <<Push(w)>>, stack)
  BY <1>1, <1>2 DEF QuietApply
<1>4. Listed(<<Push(w)>>) /\ CodeOK(<<Push(w)>>)
  BY <1>2, CodeOKSilent
<1> QED BY <1>1, <1>3, <1>4 DEF AtApply

\* A kid goes on that no continuation waits for.
LEMMA KidClear ==
  ASSUME NEW b, WellFormed(b), NEW g, NEW n, NEW cs, NEW stack, NEW fr, Under(b, cs, n, stack, fr),
         NEW k \in DOMAIN b[n].kids, Clear(b[n], k),
         Star(b, g, Eval(b[n].kids[k], Append(stack, Frame(n, k, <<>>, fr.turn))))
  PROVE  AtCps(b, g, b[n].kids[k], cs)
<1> DEFINE fr2 == Frame(n, k, <<>>, fr.turn)
<1>1. Standing(b, cs, stack) /\ Here(b, n, stack) /\ n \in DOMAIN b /\ fr \in Frames
  BY DEF Under, Here
<1>2. fr.turn \in Nat /\ n \in Nat /\ k \in Nat
  <2>1. DOMAIN b[n].kids = 1..Len(b[n].kids) /\ n \in Nat
    BY <1>1, Inside
  <2> QED BY <1>1, <2>1 DEF Frames
<1>3. fr2 \in Frames /\ fr2.at = n /\ fr2.i = k
  BY <1>2, EmptySeq DEF Frame, Frames
<1>4. Star(b, g, Eval(b[n].kids[k], Append(stack, fr2)))
  OBVIOUS
<1> HIDE DEF fr2
<1>5. AtCps(b, g, b[fr2.at].kids[fr2.i], cs)
  BY <1>1, <1>3, <1>4, WithNone
<1> QED BY <1>3, <1>5

\* A temporary stands for an operand.
LEMMA TempGoes ==
  ASSUME NEW b, WellFormed(b), NEW H, NEW g, NEW v \in Values, NEW rest, NEW c,
         AfterTemp(b, rest, c, v, g)
  PROVE  AtSeq(b, H, g, c.at, c.i + 1, Append(c.acc, Push(v)), rest)
<1> DEFINE n == c.at
           i == c.i
           up == i + 1
           all == Append(c.acc, Push(v))
<1>1. PICK stack, fr :
        /\ Under(b, rest, n, stack, fr) /\ Star(b, g, Yield(v, Append(stack, fr)))
        /\ b[n].kind \in {"op", "pure", "rec"} /\ fr.i = i
        /\ Silent(b, c.acc, fr.vals) /\ Len(fr.vals) = i - 1
  BY DEF AfterTemp
<1>2. /\ Standing(b, rest, stack) /\ Here(b, n, stack) /\ n \in DOMAIN b
      /\ fr \in Frames /\ fr.at = n /\ fr.i \in DOMAIN b[n].kids
  BY <1>1 DEF Under, Here
<1>3. fr.vals \in Seq(Values) /\ Listed(stack)
  BY <1>1, <1>2, SilentParts, WaitsTypes DEF Standing
<1>4. i \in Nat /\ i \in DOMAIN b[n].kids /\ up \in 1..(Len(b[n].kids) + 1)
  <2>1. DOMAIN b[n].kids = 1..Len(b[n].kids) /\ Len(b[n].kids) \in Nat
    BY <1>2, Inside, ListLen
  <2>2. i \in 1..Len(b[n].kids)
    BY <1>1, <1>2, <2>1
  <2> QED BY <2>1, <2>2
<1>5. OfSeq(b, n, up, rest, stack)
  BY <1>1, <1>2, <1>4 DEF OfSeq
<1> DEFINE new == Append(fr.vals, v)
<1>6. Len(new) = up - 1 /\ new \in Seq(Values)
  BY <1>1, <1>3, <1>4, AppendProperties
<1>7. Pushes(b, Push(v), fr.vals, new)
  <2>1. Push(v).run = "push" /\ Push(v).v = v
    BY CodeFields DEF Push
  <2>2. ItemOK(Push(v))
    BY ItemsOK
  <2> QED BY <2>1, <2>2 DEF Pushes
<1>8. Star(b, g, Position(b, n, up, new, stack))
  <2>1. Star(b, g, Position(b, fr.at, fr.i + 1, Append(fr.vals, v), stack))
    BY <1>1, <1>2, <1>3, PositionStep
  <2> QED BY <1>1, <1>2, <2>1
<1> HIDE DEF new
<1>9. Silent(b, all, new)
  BY <1>1, <1>6, <1>7, SilentMore
<1>10. Listed(all) /\ CodeOK(all)
  BY <1>9, CodeOKSilent
<1> HIDE DEF all, up, n
<1>11. QuietSeq(b, g, n, up, all, stack)
  BY <1>6, <1>8, <1>9 DEF QuietSeq
<1>12. AtSeq(b, H, g, n, up, all, rest)
  BY <1>5, <1>10, <1>11 DEF AtSeq
<1> QED BY <1>12 DEF all, up, n

\* The branch that is taken.
LEMMA BranchGoes ==
  ASSUME NEW b, WellFormed(b), NEW H, NEW g, NEW v \in Values, NEW rest, NEW c,
         AfterFirst(b, rest, c, v, g, {"if"})
  PROVE  /\ v = "yes" => AtCps(b, g, b[c.at].kids[2], rest)
         /\ v = "no" /\ Len(b[c.at].kids) = 3 => AtCps(b, g, b[c.at].kids[3], rest)
         /\ v = "no" /\ Len(b[c.at].kids) = 2 => AtApply(b, H, g, UnitCode, rest)
<1> DEFINE n == c.at
           t == b[n]
<1>1. PICK stack, fr :
        /\ Under(b, rest, n, stack, fr) /\ Star(b, g, Yield(v, Append(stack, fr)))
        /\ t.kind = "if" /\ fr.i = 1
  BY DEF AfterFirst
<1>2. /\ Standing(b, rest, stack) /\ Here(b, n, stack) /\ n \in DOMAIN b
      /\ fr \in Frames /\ fr.at = n
  BY <1>1 DEF Under, Here
<1>3. Listed(stack)
  BY <1>2, WaitsTypes DEF Standing
<1>4. DOMAIN t.kids = 1..Len(t.kids) /\ Len(t.kids) \in {2, 3}
  BY <1>1, <1>2, Inside DEF WellFormed
<1> DEFINE more == Append(stack, fr)
           next == IF v = "yes" THEN 2 ELSE IF Len(t.kids) = 3 THEN 3 ELSE 0
<1>5. Following(t, fr.i, v) = next
  BY <1>1 DEF Following
<1>6. Comes(t, fr.i, v) = Unit
  BY <1>1 DEF Comes
<1>7. /\ t.kind \notin Strict \union {"return", "break", "loop"}
      /\ t.kind \notin Looping
  BY <1>1 DEF Strict, Looping, Iterating
<1>8. /\ ~AtEvent(Yield(v, more))
      /\ Move(b, Yield(v, more)) =
           IF Following(b[fr.at], fr.i, v) # 0
           THEN Eval(b[fr.at].kids[Following(b[fr.at], fr.i, v)],
                     Append(stack, Frame(fr.at, Following(b[fr.at], fr.i, v), <<>>, fr.turn)))
           ELSE Yield(Comes(b[fr.at], fr.i, v), stack)
  BY <1>2, <1>3, <1>7, YieldNext
<1>9. Move(b, Yield(v, more)) = IF next # 0
                                THEN Eval(t.kids[next], Append(stack, Frame(n, next, <<>>, fr.turn)))
                                ELSE Yield(Unit, stack)
  <2> HIDE DEF next
  <2> QED BY <1>2, <1>5, <1>6, <1>8
<1>10. Star(b, g, Move(b, Yield(v, more)))
  BY <1>1, <1>8, StarOn
<1> HIDE DEF more
<1>11. ASSUME next # 0
       PROVE  AtCps(b, g, t.kids[next], rest)
  <2>1. Star(b, g, Eval(t.kids[next], Append(stack, Frame(n, next, <<>>, fr.turn))))
    BY <1>9, <1>10, <1>11
  <2>2. next \in DOMAIN t.kids /\ Clear(t, next)
    <3>1. next = 2 \/ (next = 3 /\ Len(t.kids) = 3)
      BY <1>11
    <3> HIDE DEF next
    <3>2. next \in DOMAIN t.kids /\ next > 1
      <4> DEFINE k == Len(t.kids)
      <4>1. k = 2 \/ k = 3
        BY <1>4
      <4>3. next = 2 \/ (next = 3 /\ k = 3)
        BY <3>1
      <4> HIDE DEF k
      <4>2. next \in 1..k /\ next > 1
        BY <4>1, <4>3
      <4> QED BY <1>4, <4>2 DEF k
    <3> QED BY <1>1, <3>2 DEF Clear
  <2> HIDE DEF next
  <2> QED BY <1>1, <2>1, <2>2, KidClear
<1>12. ASSUME next = 0
       PROVE  AtApply(b, H, g, UnitCode, rest)
  <2>1. Star(b, g, Yield(Unit, stack))
    BY <1>9, <1>10, <1>12
  <2>2. After(b, rest, g, Unit) /\ Unit \in Values
    BY <1>2, <2>1 DEF After, Unit, Values
  <2>3. AtApply(b, H, g, <<Push(Unit)>>, rest)
    BY <2>2, AfterApplies
  <2> QED BY <2>3 DEF UnitCode
<1>13. CASE v = "yes"
  <2>1. next = 2
    BY <1>13
  <2> QED BY <1>11, <1>13, <2>1
<1>14. CASE v # "yes"
  <2>1. next = IF Len(t.kids) = 3 THEN 3 ELSE 0
    BY <1>14
  <2>2. Len(t.kids) = 3 => next = 3
    BY <2>1
  <2>3. Len(t.kids) = 2 => next = 0
    BY <2>1
  <2> QED BY <1>11, <1>12, <1>14, <2>2, <2>3
<1> QED BY <1>13, <1>14

\* The right side of `&&` and `||`, or the shortcut.
LEMMA LazyGoes ==
  ASSUME NEW b, WellFormed(b), NEW H, NEW g, NEW v \in Values, NEW rest, NEW c,
         AfterFirst(b, rest, c, v, g, {"and", "or"})
  PROVE  /\ v = Shortcut(b[c.at].kind) => AtApply(b, H, g, <<Push(v)>>, rest)
         /\ v # Shortcut(b[c.at].kind) => AtCps(b, g, b[c.at].kids[2], rest)
<1> DEFINE n == c.at
           t == b[n]
<1>1. PICK stack, fr :
        /\ Under(b, rest, n, stack, fr) /\ Star(b, g, Yield(v, Append(stack, fr)))
        /\ t.kind \in {"and", "or"} /\ fr.i = 1
  BY DEF AfterFirst
<1>2. /\ Standing(b, rest, stack) /\ Here(b, n, stack) /\ n \in DOMAIN b
      /\ fr \in Frames /\ fr.at = n
  BY <1>1 DEF Under, Here
<1>3. Listed(stack)
  BY <1>2, WaitsTypes DEF Standing
<1>4. DOMAIN t.kids = 1..Len(t.kids) /\ Len(t.kids) = 2
  BY <1>1, <1>2, Inside DEF WellFormed, Binary
<1> DEFINE more == Append(stack, fr)
           next == IF v # Shortcut(t.kind) THEN 2 ELSE 0
<1>5. Following(t, fr.i, v) = next
  BY <1>1 DEF Following
<1>6. Comes(t, fr.i, v) = v
  BY <1>1 DEF Comes
<1>7. /\ t.kind \notin Strict \union {"return", "break", "loop"}
      /\ t.kind \notin Looping
  BY <1>1 DEF Strict, Looping, Iterating
<1>8. /\ ~AtEvent(Yield(v, more))
      /\ Move(b, Yield(v, more)) =
           IF Following(b[fr.at], fr.i, v) # 0
           THEN Eval(b[fr.at].kids[Following(b[fr.at], fr.i, v)],
                     Append(stack, Frame(fr.at, Following(b[fr.at], fr.i, v), <<>>, fr.turn)))
           ELSE Yield(Comes(b[fr.at], fr.i, v), stack)
  BY <1>2, <1>3, <1>7, YieldNext
<1>9. Move(b, Yield(v, more)) = IF next # 0
                                THEN Eval(t.kids[next], Append(stack, Frame(n, next, <<>>, fr.turn)))
                                ELSE Yield(v, stack)
  <2> HIDE DEF next
  <2> QED BY <1>2, <1>5, <1>6, <1>8
<1>10. Star(b, g, Move(b, Yield(v, more)))
  BY <1>1, <1>8, StarOn
<1> HIDE DEF more
<1>11. CASE v # Shortcut(t.kind)
  <2>1. next = 2
    BY <1>11
  <2>2. Star(b, g, Eval(t.kids[2], Append(stack, Frame(n, 2, <<>>, fr.turn))))
    BY <1>9, <1>10, <2>1
  <2>3. 2 \in DOMAIN t.kids /\ Clear(t, 2)
    BY <1>1, <1>4 DEF Clear
  <2>4. AtCps(b, g, t.kids[2], rest)
    BY <1>1, <2>2, <2>3, KidClear
  <2> QED BY <1>11, <2>4
<1>12. CASE v = Shortcut(t.kind)
  <2>1. Star(b, g, Yield(v, stack))
    BY <1>9, <1>10, <1>12
  <2>2. After(b, rest, g, v)
    BY <1>2, <2>1 DEF After
  <2>3. AtApply(b, H, g, <<Push(v)>>, rest)
    BY <2>2, AfterApplies
  <2> QED BY <1>12, <2>3
<1> QED BY <1>11, <1>12

\* The statement after.
LEMMA RestGoes ==
  ASSUME NEW b, WellFormed(b), NEW g, NEW v \in Values, NEW rest, NEW c,
         AfterStmt(b, rest, c, v, g)
  PROVE  AtStmts(b, g, c.at, c.i + 1, rest)
<1> DEFINE n == c.at
           i == c.i
           t == b[n]
           k == Len(t.kids)
           up == i + 1
<1>1. PICK stack, fr :
        /\ Under(b, rest, n, stack, fr) /\ Star(b, g, Yield(v, Append(stack, fr)))
        /\ t.kind \in {"block", "stmts"} /\ fr.i = i /\ ~IsValue(t, fr.i)
  BY DEF AfterStmt
<1>2. /\ Standing(b, rest, stack) /\ Here(b, n, stack) /\ n \in DOMAIN b
      /\ fr \in Frames /\ fr.at = n /\ fr.i \in DOMAIN t.kids
  BY <1>1 DEF Under, Here
<1>3. Listed(stack)
  BY <1>2, WaitsTypes DEF Standing
<1>4. DOMAIN t.kids = 1..k /\ k \in Nat /\ fr.turn \in Nat
  BY <1>2, Inside, ListLen DEF Frames
<1>5. i \in 1..k /\ i \in Nat
  BY <1>1, <1>2, <1>4
<1> DEFINE more == Append(stack, fr)
           next == IF i < k THEN up ELSE 0
<1>6. Following(t, fr.i, v) = next
  BY <1>1 DEF Following
<1>7. /\ t.kind \notin Strict \union {"return", "break", "loop"}
      /\ t.kind \notin Looping
  BY <1>1 DEF Strict, Looping, Iterating
<1>8. /\ ~AtEvent(Yield(v, more))
      /\ Move(b, Yield(v, more)) =
           IF Following(b[fr.at], fr.i, v) # 0
           THEN Eval(b[fr.at].kids[Following(b[fr.at], fr.i, v)],
                     Append(stack, Frame(fr.at, Following(b[fr.at], fr.i, v), <<>>, fr.turn)))
           ELSE Yield(Comes(b[fr.at], fr.i, v), stack)
  BY <1>2, <1>3, <1>7, YieldNext
<1>9. Move(b, Yield(v, more)) = IF next # 0
                                THEN Eval(t.kids[next], Append(stack, Frame(n, next, <<>>, fr.turn)))
                                ELSE Yield(Comes(t, fr.i, v), stack)
  <2> HIDE DEF next
  <2> QED BY <1>2, <1>6, <1>8
<1>10. Star(b, g, Move(b, Yield(v, more)))
  BY <1>1, <1>8, StarOn
<1> HIDE DEF more, k
<1>11. t.kind = "block" => i # k
  BY <1>1 DEF IsValue, k
<1>12. /\ up \in 1..(k + 1) /\ (i # k => up <= k) /\ (up <= k => i < k /\ up # 0) /\ (up > k => ~(i < k))
  BY <1>4, <1>5
<1>13. up <= k => Star(b, g, Eval(t.kids[up], Append(stack, Frame(n, up, <<>>, fr.turn))))
  <2> SUFFICES ASSUME up <= k PROVE Star(b, g, Eval(t.kids[up], Append(stack, Frame(n, up, <<>>, fr.turn))))
    OBVIOUS
  <2>1. next = up /\ next # 0
    BY <1>12
  <2> HIDE DEF next, up
  <2> QED BY <1>9, <1>10, <2>1
<1>14. up > k => Star(b, g, Yield(Unit, stack))
  <2> SUFFICES ASSUME up > k PROVE Star(b, g, Yield(Unit, stack))
    OBVIOUS
  <2>1. next = 0
    BY <1>12
  <2>2. t.kind = "stmts"
    <3>1. ~(up <= k)
      BY <1>4, <1>5
    <3> QED BY <1>1, <1>11, <1>12, <3>1
  <2>3. Comes(t, fr.i, v) = Unit
    BY <2>2 DEF Comes
  <2> HIDE DEF next
  <2> QED BY <1>9, <1>10, <2>1, <2>3
<1> HIDE DEF next, up
<1>15. up <= k => \E turn \in Nat : Star(b, g, Eval(t.kids[up], Append(stack, Frame(n, up, <<>>, turn))))
  BY <1>4, <1>13
<1>16. t.kind = "block" => up <= k
  BY <1>11, <1>12
<1>17. AtStmts(b, g, n, up, rest)
  BY <1>1, <1>2, <1>12, <1>14, <1>15, <1>16 DEF AtStmts, k
<1> QED BY <1>17 DEF up

\* An iterator is there, and its loop begins.
LEMMA LoopedGoes ==
  ASSUME NEW b, WellFormed(b), NEW g, NEW rest, NEW c, AfterIter(b, rest, c, g)
  PROVE  LET cs == Append(rest, Cont("loop", c.at, 0, <<>>))
         IN  AtEnter(b, g, c.at, cs) /\ Sound(cs)
<1> DEFINE n == c.at
           L == Cont("loop", n, 0, <<>>)
           cs == Append(rest, L)
<1>1. PICK stack, fr :
        /\ Under(b, rest, n, stack, fr) /\ b[n].kind \in Iterating
        /\ Star(b, g, Doing("next", n, <<>>, 0, Append(stack, fr)))
  BY DEF AfterIter
<1>2. Standing(b, rest, stack) /\ Here(b, n, stack)
  BY <1>1 DEF Under
<1>3. L.f = "loop" /\ L.at = n /\ L.i = 0 /\ L.acc = <<>>
  BY DEF Cont
<1> HIDE DEF L
<1>4. Listed(rest)
  BY <1>2, StandingSound DEF Sound
<1>5. Listed(cs) /\ cs # <<>> /\ Last(cs) = L /\ Front(cs) = rest
  BY <1>4, ListMore
<1>6. b[n].kind \in Looping
  BY <1>1 DEF Looping
<1>7. Sound(cs)
  BY <1>2, <1>3, LoopSound DEF Here
<1> HIDE DEF cs
<1>8. AtEnter(b, g, n, cs)
  BY <1>1, <1>2, <1>3, <1>5, <1>6 DEF AtEnter
<1> QED BY <1>7, <1>8 DEF cs, L

\* A turn, or the end of the loop.
LEMMA StepGoes ==
  ASSUME NEW b, WellFormed(b), NEW H, NEW g, NEW v, NEW rest, NEW c, c.f # "loop",
         AfterTest(b, rest, c, v, g)
  PROVE  /\ v = "yes" => AtCps(b, g, b[c.at].kids[2], Append(rest, Cont("next", c.at, 0, <<>>)))
         /\ v = "no" => /\ AtApply(b, H, g, UnitCode, Front(Env(Append(rest, c))))
                        /\ Sound(Front(Env(Append(rest, c))))
<1> DEFINE n == c.at
           d == Cont("next", n, 0, <<>>)
           L == Last(rest)
<1>1. PICK stack, fr :
        /\ InsideLoop(b, rest, n, stack, fr) /\ b[n].kind # "loop" /\ fr.i = 2
        /\ v = "yes" => Star(b, g, Eval(b[n].kids[2], Append(stack, fr)))
        /\ v = "no" => Star(b, g, Yield(Unit, stack))
  BY DEF AfterTest
<1>2. /\ rest # <<>> /\ Listed(rest) /\ L.f = "loop" /\ L.at = n /\ b[n].kind \in Looping
      /\ Under(b, Front(rest), n, stack, fr) /\ Turns(b, L, fr)
  BY <1>1 DEF InsideLoop
<1>3. /\ Standing(b, Front(rest), stack) /\ Here(b, n, stack)
      /\ fr \in Frames /\ fr.at = n /\ fr.i \in DOMAIN b[n].kids
  BY <1>2 DEF Under
<1>4. d.f = "next" /\ d.at = n /\ d.i = 0 /\ d.acc = <<>>
  BY DEF Cont
<1>5. rest = Append(Front(rest), L)
  BY <1>2, ListLast
<1> HIDE DEF d, L
<1>6. ASSUME v = "yes" PROVE AtCps(b, g, b[n].kids[2], Append(rest, d))
  <2>1. LoopConts(b, fr, L, d)
    BY <1>1, <1>2, <1>3, <1>4 DEF LoopConts
  <2>2. Star(b, g, Eval(b[fr.at].kids[fr.i], Append(stack, fr)))
    BY <1>1, <1>3, <1>6
  <2>3. AtCps(b, g, b[fr.at].kids[fr.i], Append(Append(Front(rest), L), d))
    BY <1>3, <2>1, <2>2, WithLoop
  <2> QED BY <1>1, <1>3, <1>5, <2>3
<1>7. ASSUME v = "no"
      PROVE  /\ AtApply(b, H, g, UnitCode, Front(Env(Append(rest, c))))
             /\ Sound(Front(Env(Append(rest, c))))
  <2>1. Env(Append(rest, c)) = rest
    BY <1>2, EnvBelow DEF L
  <2>2. After(b, Front(rest), g, Unit) /\ Unit \in Values
    BY <1>1, <1>3, <1>7 DEF After, Unit, Values
  <2>3. AtApply(b, H, g, <<Push(Unit)>>, Front(rest))
    BY <2>2, AfterApplies
  <2>4. Sound(Front(rest))
    BY <1>3, StandingSound
  <2> QED BY <2>1, <2>3, <2>4 DEF UnitCode
<1> QED BY <1>6, <1>7 DEF d

\* The end of a turn.
LEMMA TurnGoes ==
  ASSUME NEW b, WellFormed(b), NEW g, NEW v, NEW rest, NEW c, c.f # "loop",
         AfterTurn(b, rest, c, v, g)
  PROVE  LET env == Env(Append(rest, c))
             L == Last(env)
             cs == Append(Front(env), Advanced(b, L))
         IN  AtEnter(b, g, L.at, cs) /\ Sound(cs)
<1> DEFINE n == c.at
<1>1. PICK stack, fr :
        /\ InsideLoop(b, rest, n, stack, fr) /\ Star(b, g, Yield(v, Append(stack, fr)))
        /\ fr.i = IF b[n].kind = "loop" THEN 1 ELSE 2
  BY DEF AfterTurn
<1>2. /\ rest # <<>> /\ Listed(rest) /\ Last(rest).f = "loop" /\ Last(rest).at = n /\ b[n].kind \in Looping
      /\ Under(b, Front(rest), n, stack, fr) /\ Turns(b, Last(rest), fr)
  BY <1>1 DEF InsideLoop
<1>3. /\ Standing(b, Front(rest), stack) /\ Here(b, n, stack)
      /\ fr \in Frames /\ fr.at = n /\ fr.i \in DOMAIN b[n].kids
  BY <1>2 DEF Under
<1>4. n \in DOMAIN b /\ b[n].rec /\ n = Awaited(b, stack) /\ fr.turn \in Nat /\ Listed(stack)
  BY <1>3, WaitsTypes DEF Here, Frames, Standing
<1> DEFINE more == Append(stack, fr)
           N == Len(stack)
<1>5. /\ N \in Nat /\ DOMAIN stack = 1..N /\ Len(more) = N + 1 /\ Listed(more)
      /\ \A m \in 1..N : more[m] = stack[m]
      /\ more[N + 1] = fr
      /\ \A k \in 0..N : SubSeq(more, 1, k) = SubSeq(stack, 1, k)
      /\ SubSeq(stack, 1, N) = stack
  <2>1. N \in Nat /\ N \in 0..N
    BY <1>4, ListLen
  <2> QED BY <1>4, <2>1, ListLen, ListMore, ListPart
<1>6. DOMAIN more = 1..(N + 1)
  BY <1>5, ListLen
<1>7. ~AtEvent(Yield(v, more)) /\ Move(b, Yield(v, more)) = NextTurn(b, more, n)
  <2>1. /\ b[n].kind \notin Strict /\ b[n].kind \notin {"return", "break"}
        /\ ~(b[n].kind \in Iterating /\ fr.i = 1)
        /\ b[n].kind = "loop" \/ (b[n].kind \in Looping /\ fr.i = 2)
    BY <1>1, <1>2 DEF Strict, Looping, Iterating
  <2> DEFINE t == b[fr.at]
             next == Following(t, fr.i, v)
             other == IF next # 0
                      THEN Eval(t.kids[next], Append(stack, Frame(fr.at, next, <<>>, fr.turn)))
                      ELSE Yield(Comes(t, fr.i, v), stack)
  <2>3. /\ ~AtEvent(Yield(v, more))
        /\ Move(b, Yield(v, more)) =
             IF t.kind \in Strict THEN Operand(t, fr, v, stack)
             ELSE IF t.kind = "return" THEN End(v)
             ELSE IF t.kind = "break" THEN BreakLoop(Append(stack, fr), t.loop, v)
             ELSE IF t.kind \in Iterating /\ fr.i = 1
             THEN Doing("op", fr.at, <<v>>, 0, Append(stack, fr))
             ELSE IF t.kind = "loop" \/ (t.kind \in Looping /\ fr.i = 2)
             THEN NextTurn(b, Append(stack, fr), fr.at)
             ELSE other
    BY <1>4, YieldIn
  <2> HIDE DEF other, more
  <2>2. /\ ~AtEvent(Yield(v, more))
        /\ Move(b, Yield(v, more)) = NextTurn(b, Append(stack, fr), fr.at)
    BY <1>3, <2>1, <2>3
  <2> QED BY <1>3, <2>2 DEF more
<1>8. Star(b, g, NextTurn(b, more, n))
  BY <1>1, <1>7, StarStep
<1> HIDE DEF more
<1>9. \A m \in DOMAIN stack : stack[m].at # n
  BY <1>3, <1>4, StandingAbove
<1>10. \A m \in DOMAIN more : more[m].at = n => m = N + 1
  <2> HIDE DEF N
  <2>1. \A m \in 1..(N + 1) : m \in 1..N \/ m = N + 1
    BY <1>5
  <2> QED BY <1>5, <1>6, <1>9, <2>1
<1>11. N + 1 \in DOMAIN more /\ more[N + 1].at = n /\ (N + 1) - 1 = N /\ N \in 0..N
  BY <1>3, <1>5, <1>6
<1> HIDE DEF N
<1>12. LoopAt(more, n) = N + 1
  BY <1>10, <1>11 DEF LoopAt
<1>13. SubSeq(more, 1, LoopAt(more, n) - 1) = stack
  BY <1>5, <1>11, <1>12
<1>14. n # 0
  BY <1>4, Inside
<1>15. Known(b, rest, more, n)
  <2> DEFINE j == LoopAt(more, n)
  <2>1. /\ j \in DOMAIN more /\ more[j].at = n /\ Turns(b, Last(rest), more[j])
        /\ more[j].turn \in Nat
        /\ \A m \in DOMAIN more : more[m].at = n => m = j
    BY <1>2, <1>4, <1>5, <1>10, <1>11, <1>12
  <2>2. Standing(b, Front(rest), SubSeq(more, 1, j - 1)) /\ Awaited(b, SubSeq(more, 1, j - 1)) = n
    BY <1>3, <1>4, <1>13
  <2> HIDE DEF j
  <2> QED BY <1>2, <1>4, <1>14, <2>1, <2>2 DEF Known, j
<1>16. Env(Append(rest, c)) = rest
  BY <1>2, EnvBelow
<1> DEFINE cs == Append(Front(rest), Advanced(b, Last(rest)))
<1>17. Last(rest).at = n /\ AtEnter(b, g, n, cs) /\ Sound(cs)
  BY <1>8, <1>14, <1>15, AgainGoes
<1> QED BY <1>16, <1>17

-----------------------------------------------------------------------------
(* What the rewritten body does and where the body itself is fit together:   *)
(* `g` is the state the body is in after the events before.                  *)
Doings == {"cps", "seq", "stmts", "enter", "apply", "emit", "value", "done", "over"}
Sim(b, H, g, d, cs) ==
    /\ d.do = "cps" => AtCps(b, g, d.at, cs)
    /\ d.do = "seq" => AtSeq(b, H, g, d.at, d.i, d.code, cs)
    /\ d.do = "stmts" => AtStmts(b, g, d.at, d.i, cs)
    /\ d.do = "enter" => AtEnter(b, g, d.at, cs)
    /\ d.do = "apply" => AtApply(b, H, g, d.code, cs)
    /\ d.do = "emit" => AtEmit(b, g, d.code, d.vals, cs)
    /\ d.do = "value" => AtValue(b, g, d.vals, cs)
    /\ d.do = "done" => AtDone(b, g, d.vals)
NowOK(d) == d.do \in Doings /\ CodeOK(d.code)
Good(b, H, g, d, cs) == Sim(b, H, g, d, cs) /\ NowOK(d) /\ Sound(cs)

\* What is done next has these fields.
LEMMA DoFields ==
  ASSUME NEW do, NEW at, NEW i, NEW code, NEW vals
  PROVE  LET d == Do(do, at, i, code, vals)
         IN  d.do = do /\ d.at = at /\ d.i = i /\ d.code = code /\ d.vals = vals
BY DEF Do

\* What is done next fits what is known of it: an expression is rewritten,
LEMMA GoodCps ==
  ASSUME NEW b, NEW H, NEW g, NEW n, NEW cs, AtCps(b, g, n, cs)
  PROVE  Good(b, H, g, Cps(n), cs)
<1> DEFINE d == Cps(n)
<1>1. d.do = "cps" /\ d.at = n /\ d.code = <<>>
  BY DoFields DEF Cps
<1>2. Sound(cs)
  BY StandingSound DEF AtCps
<1> HIDE DEF d
<1>3. Sim(b, H, g, d, cs)
  BY <1>1 DEF Sim
<1>4. NowOK(d)
  BY <1>1, CodeOKNone DEF NowOK, Doings
<1> QED BY <1>2, <1>3, <1>4 DEF Good, d

\* its operands are,
LEMMA GoodSeq ==
  ASSUME NEW b, NEW H, NEW g, NEW n, NEW i, NEW code, NEW cs, AtSeq(b, H, g, n, i, code, cs)
  PROVE  Good(b, H, g, Seq_(n, i, code), cs)
<1> DEFINE d == Seq_(n, i, code)
<1>1. d.do = "seq" /\ d.at = n /\ d.i = i /\ d.code = code
  BY DoFields DEF Seq_
<1>2. Sound(cs)
  BY StandingSound DEF AtSeq, OfSeq
<1> HIDE DEF d
<1>3. Sim(b, H, g, d, cs)
  BY <1>1 DEF Sim
<1>4. NowOK(d)
  BY <1>1 DEF NowOK, Doings, AtSeq
<1> QED BY <1>2, <1>3, <1>4 DEF Good, d

\* the statements of a block are,
LEMMA GoodStmts ==
  ASSUME NEW b, NEW H, NEW g, NEW n, NEW i, NEW cs, AtStmts(b, g, n, i, cs)
  PROVE  Good(b, H, g, Stmts(n, i), cs)
<1> DEFINE d == Stmts(n, i)
<1>1. d.do = "stmts" /\ d.at = n /\ d.i = i /\ d.code = <<>>
  BY DoFields DEF Stmts
<1>2. Sound(cs)
  BY StandingSound DEF AtStmts
<1> HIDE DEF d
<1>3. Sim(b, H, g, d, cs)
  BY <1>1 DEF Sim
<1>4. NowOK(d)
  BY <1>1, CodeOKNone DEF NowOK, Doings
<1> QED BY <1>2, <1>3, <1>4 DEF Good, d

\* a turn begins,
LEMMA GoodEnter ==
  ASSUME NEW b, NEW H, NEW g, NEW n, NEW cs, AtEnter(b, g, n, cs), Sound(cs)
  PROVE  Good(b, H, g, Enter(n), cs)
<1> DEFINE d == Enter(n)
<1>1. d.do = "enter" /\ d.at = n /\ d.code = <<>>
  BY DoFields DEF Enter
<1> HIDE DEF d
<1>3. Sim(b, H, g, d, cs)
  BY <1>1 DEF Sim
<1>4. NowOK(d)
  BY <1>1, CodeOKNone DEF NowOK, Doings
<1> QED BY <1>3, <1>4 DEF Good, d

\* the code of a value is handed on,
LEMMA GoodApply ==
  ASSUME NEW b, NEW H, NEW g, NEW code, NEW cs, AtApply(b, H, g, code, cs)
  PROVE  Good(b, H, g, Apply(code), cs)
<1> DEFINE d == Apply(code)
<1>1. d.do = "apply" /\ d.code = code
  BY DoFields DEF Apply
<1>2. Sound(cs)
  BY StandingSound DEF AtApply
<1> HIDE DEF d
<1>3. Sim(b, H, g, d, cs)
  BY <1>1 DEF Sim
<1>4. NowOK(d)
  BY <1>1 DEF NowOK, Doings, AtApply
<1> QED BY <1>2, <1>3, <1>4 DEF Good, d

\* code runs,
LEMMA GoodRunning ==
  ASSUME NEW b, NEW H, NEW g, NEW code, NEW vals, NEW cs, AtEmit(b, g, code, vals, cs), Sound(cs)
  PROVE  Good(b, H, g, Running(code, vals), cs)
<1> DEFINE d == Running(code, vals)
<1>1. d.do = "emit" /\ d.code = code /\ d.vals = vals
  BY DoFields DEF Running
<1> HIDE DEF d
<1>3. Sim(b, H, g, d, cs)
  BY <1>1 DEF Sim
<1>4. NowOK(d)
  BY <1>1 DEF NowOK, Doings, AtEmit
<1> QED BY <1>3, <1>4 DEF Good, d

\* code is emitted for a new continuation,
LEMMA GoodEmit ==
  ASSUME NEW b, NEW H, NEW g, NEW code, NEW cs, NEW c, AtEmit(b, g, code, <<>>, Append(cs, c)),
         Sound(cs), ContOK(c), c.f # "loop"
  PROVE  Good(b, H, g, Emit(code), Append(cs, c))
<1>1. Sound(Append(cs, c))
  BY SoundMore
<1> QED BY <1>1, GoodRunning DEF Emit

\* a value is handed on,
LEMMA GoodValue ==
  ASSUME NEW b, NEW H, NEW g, NEW v, NEW cs, AtValue(b, g, <<v>>, cs), Sound(cs)
  PROVE  Good(b, H, g, Value(v), cs)
<1> DEFINE d == Value(v)
<1>1. d.do = "value" /\ d.vals = <<v>> /\ d.code = <<>>
  BY DoFields DEF Value
<1> HIDE DEF d
<1>3. Sim(b, H, g, d, cs)
  BY <1>1 DEF Sim
<1>4. NowOK(d)
  BY <1>1, CodeOKNone DEF NowOK, Doings
<1> QED BY <1>3, <1>4 DEF Good, d

\* the body returns,
LEMMA GoodDone ==
  ASSUME NEW b, NEW H, NEW g, NEW v, NEW cs, AtDone(b, g, <<v>>), Sound(cs)
  PROVE  Good(b, H, g, Done(v), cs)
<1> DEFINE d == Done(v)
<1>1. d.do = "done" /\ d.vals = <<v>> /\ d.code = <<>>
  BY DoFields DEF Done
<1> HIDE DEF d
<1>3. Sim(b, H, g, d, cs)
  BY <1>1 DEF Sim
<1>4. NowOK(d)
  BY <1>1, CodeOKNone DEF NowOK, Doings
<1> QED BY <1>3, <1>4 DEF Good, d

\* or the run is over.
LEMMA GoodOver ==
  ASSUME NEW b, NEW H, NEW g, NEW cs, Sound(cs)
  PROVE  Good(b, H, g, Over, cs)
<1> DEFINE d == Over
<1>1. d.do = "over" /\ d.code = <<>>
  BY DoFields DEF Over
<1> HIDE DEF d
<1>3. Sim(b, H, g, d, cs)
  BY <1>1 DEF Sim
<1>4. NowOK(d)
  BY <1>1, CodeOKNone DEF NowOK, Doings
<1> QED BY <1>3, <1>4 DEF Good, d

-----------------------------------------------------------------------------
(* Each step of the rewritten body. *)
Held(b) == CHOOSE H : KeepsOrder(b, H)

\* Where the rewritten body is while the body itself has seen all it did.
Level == /\ body \in Bodies /\ KeepsOrder(body, Held(body))
         /\ Good(body, Held(body), native, now, conts)
Goal == Good(body, Held(body), native, now', conts')

\* The body is well formed.
LEMMA BodyFits ==
  ASSUME Level
  PROVE  WellFormed(body)
BY BodiesAssumption DEF Level

\* cps_expr keeps both at one point.
LEMMA StepCps ==
  ASSUME Level, CpsExpr
  PROVE  Goal
<1> DEFINE n == now.at
           H == Held(body)
<1>1. AtCps(body, native, n, conts) /\ KeepsOrder(body, H) /\ WellFormed(body)
  BY BodyFits DEF Level, CpsExpr, Good, Sim
<1> HIDE DEF H
<1>2. CASE CpsLeaf
  <2>1. AtApply(body, H, native, Splice(body, conts, n), conts)
    BY <1>1, <1>2, LeafGoes DEF CpsLeaf, This
  <2>2. now' = Apply(Splice(body, conts, n)) /\ conts' = conts
    BY <1>2 DEF CpsLeaf
  <2>3. Good(body, H, native, Apply(Splice(body, conts, n)), conts)
    BY <2>1, GoodApply
  <2> QED BY <2>2, <2>3 DEF Goal, H
<1>3. CASE CpsOperands
  <2>1. AtSeq(body, H, native, n, 1, <<>>, conts)
    BY <1>1, <1>3, OperandsGo DEF CpsOperands, This
  <2>2. now' = Seq_(n, 1, <<>>) /\ conts' = conts
    BY <1>3 DEF CpsOperands
  <2>3. Good(body, H, native, Seq_(n, 1, <<>>), conts)
    BY <2>1, GoodSeq
  <2> QED BY <2>2, <2>3 DEF Goal, H
<1>4. ASSUME NEW f, FirstKid(f), body[n].rec,
             \/ f = "cond" /\ body[n].kind = "if"
             \/ f = "left" /\ body[n].kind \in {"and", "or"}
             \/ f \in {"return", "try", "assign", "break"} /\ body[n].kind = f
             \/ f = "iter" /\ body[n].kind \in Iterating
      PROVE  Goal
  <2> DEFINE cs == Append(conts, Cont(f, n, 0, <<>>))
             kid == body[n].kids[1]
  <2>1. AtCps(body, native, kid, cs)
    BY <1>1, <1>4, KidGoes
  <2>2. now' = Cps(kid) /\ conts' = cs
    BY <1>4 DEF FirstKid, With, Kid, This
  <2>3. Good(body, H, native, Cps(kid), cs)
    BY <2>1, GoodCps
  <2> QED BY <2>2, <2>3 DEF Goal, H
<1>5. CASE CpsBranch
  BY <1>4, <1>5 DEF CpsBranch, This
<1>6. CASE CpsLazy
  BY <1>4, <1>6 DEF CpsLazy, This
<1>7. CASE CpsBlock
  <2>1. AtStmts(body, native, n, 1, conts)
    BY <1>1, <1>7, BlockGoes DEF CpsBlock, This
  <2>2. now' = Stmts(n, 1) /\ conts' = conts
    BY <1>7 DEF CpsBlock
  <2>3. Good(body, H, native, Stmts(n, 1), conts)
    BY <2>1, GoodStmts
  <2> QED BY <2>2, <2>3 DEF Goal, H
<1>8. CASE CpsUnary
  BY <1>4, <1>8 DEF CpsUnary, This
<1>9. CASE CpsLoop
  <2>1. CASE This.kind \in Iterating /\ FirstKid("iter")
    BY <1>4, <1>9, <2>1 DEF CpsLoop, This
  <2>2. CASE This.kind \in {"while", "loop"} /\ With(Enter(now.at), Cont("loop", now.at, 0, <<>>))
    <3> DEFINE cs == Append(conts, Cont("loop", n, 0, <<>>))
    <3>1. AtEnter(body, native, n, cs) /\ Sound(cs)
      BY <1>1, <1>9, <2>2, LoopGoes DEF CpsLoop, This
    <3>2. now' = Enter(n) /\ conts' = cs
      BY <2>2 DEF With
    <3>3. Good(body, H, native, Enter(n), cs)
      BY <3>1, GoodEnter
    <3> QED BY <3>2, <3>3 DEF Goal, H
  <2> QED BY <1>9, <2>1, <2>2 DEF CpsLoop
<1> QED BY <1>2, <1>3, <1>5, <1>6, <1>7, <1>8, <1>9 DEF CpsExpr

\* cps_seq does.
LEMMA StepSeq ==
  ASSUME Level, CpsSeq
  PROVE  Goal
<1> DEFINE n == now.at
           i == now.i
           code == now.code
           kid == body[n].kids[i]
           H == Held(body)
<1>1. AtSeq(body, H, native, n, i, code, conts) /\ KeepsOrder(body, H) /\ WellFormed(body)
      /\ Sound(conts)
  BY BodyFits DEF Level, CpsSeq, Good, Sim
<1> HIDE DEF H
<1>2. CASE SeqEnd
  <2>0. i > Len(body[n].kids)
    BY <1>2 DEF SeqEnd, This
  <2>1. CASE This.kind = "rec"
    <3> DEFINE c == Cont("called", n, 0, <<>>)
    <3>1. AtEmit(body, native, code \o Perform(body, n), <<>>, Append(conts, c))
      BY <1>1, <2>0, <2>1, SeqEndEmits DEF This
    <3>2. now' = Emit(code \o Perform(body, n)) /\ conts' = Append(conts, c)
      BY <1>2, <2>1 DEF SeqEnd, With
    <3>3. c.f = "called" /\ c.acc = <<>> /\ c.i = 0
      BY DEF Cont
    <3> HIDE DEF c
    <3>4. ContOK(c) /\ c.f # "loop"
      BY <3>3, ContBare
    <3>5. Good(body, H, native, Emit(code \o Perform(body, n)), Append(conts, c))
      BY <1>1, <3>1, <3>4, GoodEmit
    <3> QED BY <3>2, <3>5 DEF Goal, H
  <2>2. CASE This.kind # "rec"
    <3>1. AtApply(body, H, native, code \o Perform(body, n), conts)
      BY <1>1, <2>0, <2>2, SeqEndApplies DEF This
    <3>2. now' = Apply(code \o Perform(body, n)) /\ conts' = conts
      BY <1>2, <2>2 DEF SeqEnd
    <3>3. Good(body, H, native, Apply(code \o Perform(body, n)), conts)
      BY <3>1, GoodApply
    <3> QED BY <3>2, <3>3 DEF Goal, H
  <2> QED BY <2>1, <2>2
<1>3. CASE SeqInline
  <2> DEFINE all == code \o Splice(body, conts, kid)
  <2>1. i <= Len(body[n].kids) /\ ~body[kid].rec /\ ~Bound(body, body[n], i)
    BY <1>3 DEF SeqInline, This, Kid
  <2>2. now' = Seq_(n, i + 1, all) /\ conts' = conts
    BY <1>3 DEF SeqInline, This, Kid
  <2>3. AtSeq(body, H, native, n, i + 1, all, conts)
    BY <1>1, <2>1, SeqInlineGoes
  <2>4. Good(body, H, native, Seq_(n, i + 1, all), conts)
    BY <2>3, GoodSeq
  <2> QED BY <2>2, <2>4 DEF Goal, H
<1>4. CASE SeqBind
  <2> DEFINE c == Cont("temp", n, i, code)
             leaf == Splice(body, conts, kid)
  <2>1. i <= Len(body[n].kids) /\ ~body[kid].rec /\ Bound(body, body[n], i)
    BY <1>4 DEF SeqBind, This, Kid
  <2>2. now' = Emit(leaf) /\ conts' = Append(conts, c)
    BY <1>4 DEF SeqBind, This, Kid, With
  <2>3. AtEmit(body, native, leaf, <<>>, Append(conts, c)) /\ ContOK(c)
    BY <1>1, <2>1, SeqBindEmits
  <2>4. c.f # "loop"
    BY DEF Cont
  <2> HIDE DEF c, leaf
  <2>5. Good(body, H, native, Emit(leaf), Append(conts, c))
    BY <1>1, <2>3, <2>4, GoodEmit
  <2> QED BY <2>2, <2>5 DEF Goal, H
<1>5. CASE SeqRecurse
  <2> DEFINE cs == Append(conts, Cont("operand", n, i, code))
  <2>1. i <= Len(body[n].kids) /\ body[kid].rec
    BY <1>5 DEF SeqRecurse, This, Kid
  <2>2. now' = Cps(kid) /\ conts' = cs
    BY <1>5 DEF SeqRecurse, This, Kid, With
  <2>3. AtCps(body, native, kid, cs)
    BY <1>1, <2>1, SeqRecurseGoes
  <2>4. Good(body, H, native, Cps(kid), cs)
    BY <2>3, GoodCps
  <2> QED BY <2>2, <2>4 DEF Goal, H
<1> QED BY <1>2, <1>3, <1>4, <1>5 DEF CpsSeq

\* cps_stmts does.
LEMMA StepStmts ==
  ASSUME Level, CpsStmts
  PROVE  Goal
<1> DEFINE n == now.at
           i == now.i
           kid == body[n].kids[i]
           H == Held(body)
<1>1. AtStmts(body, native, n, i, conts) /\ WellFormed(body) /\ Sound(conts)
  BY BodyFits DEF Level, CpsStmts, Good, Sim
<1> HIDE DEF H
<1>2. CASE i > Len(body[n].kids) /\ now' = Apply(UnitCode) /\ conts' = conts
  <2>1. AtApply(body, H, native, UnitCode, conts)
    BY <1>1, <1>2, StmtsEnd
  <2>2. Good(body, H, native, Apply(UnitCode), conts)
    BY <2>1, GoodApply
  <2> QED BY <1>2, <2>2 DEF Goal, H
<1>3. CASE i <= Len(body[n].kids) /\ IsValue(body[n], i) /\ now' = Cps(kid) /\ conts' = conts
  <2>1. AtCps(body, native, kid, conts)
    BY <1>1, <1>3, StmtsValue
  <2>2. Good(body, H, native, Cps(kid), conts)
    BY <2>1, GoodCps
  <2> QED BY <1>3, <2>2 DEF Goal, H
<1>4. CASE /\ i <= Len(body[n].kids) /\ ~IsValue(body[n], i) /\ ~body[kid].rec
           /\ With(Emit(Splice(body, conts, kid)), Cont("rest", n, i, <<>>))
  <2> DEFINE c == Cont("rest", n, i, <<>>)
             leaf == Splice(body, conts, kid)
  <2>1. now' = Emit(leaf) /\ conts' = Append(conts, c)
    BY <1>4 DEF With
  <2>2. AtEmit(body, native, leaf, <<>>, Append(conts, c)) /\ ContOK(c)
    BY <1>1, <1>4, StmtsEmits
  <2>3. c.f # "loop"
    BY DEF Cont
  <2> HIDE DEF c, leaf
  <2>4. Good(body, H, native, Emit(leaf), Append(conts, c))
    BY <1>1, <2>2, <2>3, GoodEmit
  <2> QED BY <2>1, <2>4 DEF Goal, H
<1>5. CASE /\ i <= Len(body[n].kids) /\ ~IsValue(body[n], i) /\ body[kid].rec
           /\ With(Cps(kid), Cont("stmt", n, i, <<>>))
  <2> DEFINE cs == Append(conts, Cont("stmt", n, i, <<>>))
  <2>1. now' = Cps(kid) /\ conts' = cs
    BY <1>5 DEF With
  <2>2. AtCps(body, native, kid, cs)
    BY <1>1, <1>5, StmtsCall
  <2>3. Good(body, H, native, Cps(kid), cs)
    BY <2>2, GoodCps
  <2> QED BY <2>1, <2>3 DEF Goal, H
<1> QED BY <1>2, <1>3, <1>4, <1>5 DEF CpsStmts, This, Kid

\* The entry point of a loop does.
LEMMA StepEnter ==
  ASSUME Level, EnterLoop
  PROVE  Goal
<1> DEFINE n == now.at
           H == Held(body)
           L == Last(conts)
<1>1. AtEnter(body, native, n, conts) /\ WellFormed(body) /\ Sound(conts)
  BY BodyFits DEF Level, EnterLoop, Good, Sim
<1>2. /\ L.f = "loop" /\ L.at = n /\ L.acc = <<>> /\ L.i \in Nat
      /\ conts = Append(Front(conts), L)
  BY <1>1, ListLast DEF AtEnter
<1> HIDE DEF H
<1>3. ASSUME NEW f, With(Cps(Kid(1)), Cont(f, n, 0, <<>>)),
             \/ f = "while" /\ body[n].kind = "while"
             \/ f = "next" /\ body[n].kind = "loop"
      PROVE  Goal
  <2> DEFINE cs == Append(conts, Cont(f, n, 0, <<>>))
             kid == body[n].kids[1]
  <2>1. AtCps(body, native, kid, cs)
    BY <1>1, <1>3, EnterPlain
  <2>2. now' = Cps(kid) /\ conts' = cs
    BY <1>3 DEF With, Kid, This
  <2>3. Good(body, H, native, Cps(kid), cs)
    BY <2>1, GoodCps
  <2> QED BY <2>2, <2>3 DEF Goal, H
<1>4. ASSUME NEW L2, body[n].kind \in Iterating,
             L2.f = "loop" /\ L2.at = n /\ L2.acc = <<>>,
             L2.i = L.i + (IF body[n].kind = "for" THEN 1 ELSE 0),
             now' = Emit(Item(n, L.i)),
             conts' = Append(Append(Front(conts), L2), Cont("step", n, 0, <<>>))
      PROVE  Goal
  <2> DEFINE c == Cont("step", n, 0, <<>>)
             cs == Append(Front(conts), L2)
  <2>1. AtEmit(body, native, Item(n, L.i), <<>>, Append(cs, c))
    BY <1>1, <1>4, EnterItem
  <2>2. L2.i \in Nat
    BY <1>2, <1>4
  <2>3. Sound(cs)
    BY <1>1, <1>4, <2>2, EnterSound
  <2>4. c.f = "step" /\ c.acc = <<>> /\ c.i = 0
    BY DEF Cont
  <2> HIDE DEF c, cs
  <2>5. ContOK(c) /\ c.f # "loop"
    BY <2>4, ContBare
  <2>6. Good(body, H, native, Emit(Item(n, L.i)), Append(cs, c))
    BY <2>1, <2>3, <2>5, GoodEmit
  <2> QED BY <1>4, <2>6 DEF Goal, H, cs, c
<1>5. CASE This.kind = "while" /\ With(Cps(Kid(1)), Cont("while", now.at, 0, <<>>))
  <2>1. body[n].kind = "while"
    BY <1>5 DEF This
  <2>2. With(Cps(Kid(1)), Cont("while", n, 0, <<>>))
    BY <1>5
  <2> QED BY <1>3, <2>1, <2>2
<1>6. CASE This.kind = "loop" /\ With(Cps(Kid(1)), Cont("next", now.at, 0, <<>>))
  BY <1>3, <1>6 DEF This
<1>7. CASE /\ This.kind = "range"
           /\ With(Emit(Item(now.at, K.i)), Cont("step", now.at, 0, <<>>))
  <2>1. body[n].kind \in Iterating /\ body[n].kind # "for"
    BY <1>7 DEF This, Iterating
  <2>2. L.i = L.i + (IF body[n].kind = "for" THEN 1 ELSE 0)
    BY <1>2, <2>1
  <2>3. now' = Emit(Item(n, L.i)) /\ conts' = Append(conts, Cont("step", n, 0, <<>>))
    BY <1>7 DEF With, K
  <2>4. conts' = Append(Append(Front(conts), L), Cont("step", n, 0, <<>>))
    BY <1>2, <2>3
  <2> HIDE DEF L
  <2> QED BY <1>2, <1>4, <2>1, <2>2, <2>3, <2>4
<1>8. CASE /\ This.kind = "for"
           /\ now' = Emit(Item(now.at, K.i))
           /\ conts' = Append(Append(Below, Moved(K)), Cont("step", now.at, 0, <<>>))
  <2> DEFINE L2 == Moved(L)
  <2>1. body[n].kind \in Iterating /\ body[n].kind = "for"
    BY <1>8 DEF This, Iterating
  <2>2. L2.f = L.f /\ L2.at = L.at /\ L2.acc = L.acc /\ L2.i = L.i + 1
    BY DEF Moved, Cont
  <2>3. now' = Emit(Item(n, L.i)) /\ conts' = Append(Append(Front(conts), L2), Cont("step", n, 0, <<>>))
    BY <1>8 DEF K, Below
  <2> HIDE DEF L, L2
  <2> QED BY <1>2, <1>4, <2>1, <2>2, <2>3
<1> QED BY <1>5, <1>6, <1>7, <1>8 DEF EnterLoop

\* So does each continuation that takes the code of a value.
LEMMA StepApply ==
  ASSUME Level, ApplyCont
  PROVE  Goal
<1> DEFINE c == Last(conts)
           rest == Front(conts)
           code == now.code
           H == Held(body)
<1>1. AtApply(body, H, native, code, conts) /\ KeepsOrder(body, H) /\ WellFormed(body)
      /\ Sound(conts)
  BY BodyFits DEF Level, ApplyCont, Good, Sim
<1> HIDE DEF H
<1>2. conts # <<>> => Sound(rest)
  BY <1>1, SoundFront
<1>3. CASE conts # <<>> /\ TakeOperand
  <2>1. c.f = "operand"
    BY <1>3 DEF TakeOperand, K
  <2>2. CASE c.i <= body[c.at].places
    <3> DEFINE t == Cont("temp", c.at, c.i, c.acc)
    <3>1. AtEmit(body, native, code, <<>>, Append(rest, t)) /\ ContOK(t)
      BY <1>1, <1>3, <2>1, TakeBinds
    <3>2. now' = Emit(code) /\ conts' = Append(rest, t)
      BY <1>3, <2>2 DEF TakeOperand, K, Works, Instead, Below
    <3>3. t.f # "loop"
      BY DEF Cont
    <3> HIDE DEF t, rest
    <3>4. Good(body, H, native, Emit(code), Append(rest, t))
      BY <1>2, <1>3, <3>1, <3>3, GoodEmit
    <3> QED BY <3>2, <3>4 DEF Goal, H
  <2>3. CASE ~(c.i <= body[c.at].places)
    <3>1. AtSeq(body, H, native, c.at, c.i + 1, c.acc \o code, rest)
      BY <1>1, <1>3, <2>1, <2>3, TakeGoesOn
    <3>2. now' = Seq_(c.at, c.i + 1, c.acc \o code) /\ conts' = rest
      BY <1>3, <2>3 DEF TakeOperand, K, Works, Resume, Below
    <3>3. Good(body, H, native, Seq_(c.at, c.i + 1, c.acc \o code), rest)
      BY <3>1, GoodSeq
    <3> QED BY <3>2, <3>3 DEF Goal, H
  <2> QED BY <2>2, <2>3
<1>4. CASE conts # <<>> /\ TakeRun
  <2> DEFINE t == Cont(Runs[c.f], c.at, c.i, <<>>)
  <2>1. AtEmit(body, native, code, <<>>, Append(rest, t)) /\ ContOK(t) /\ t.f # "loop"
    BY <1>1, <1>4, TakeRuns DEF TakeRun, K
  <2>2. now' = Emit(code) /\ conts' = Append(rest, t)
    BY <1>4 DEF TakeRun, K, Instead, Below
  <2> HIDE DEF t, rest
  <2>3. Good(body, H, native, Emit(code), Append(rest, t))
    BY <1>2, <1>4, <2>1, GoodEmit
  <2> QED BY <2>2, <2>3 DEF Goal, H
<1>5. CASE conts # <<>> /\ TakeAct
  <2> DEFINE t == Cont(Acts[c.f], c.at, c.i, <<>>)
             all == code \o Perform(body, c.at)
  <2>1. AtEmit(body, native, all, <<>>, Append(rest, t)) /\ ContOK(t) /\ t.f # "loop"
    BY <1>1, <1>5, TakeActs DEF TakeAct, K
  <2>2. now' = Emit(all) /\ conts' = Append(rest, t)
    BY <1>5 DEF TakeAct, K, Instead, Below
  <2> HIDE DEF t, rest, all
  <2>3. Good(body, H, native, Emit(all), Append(rest, t))
    BY <1>2, <1>5, <2>1, GoodEmit
  <2> QED BY <2>2, <2>3 DEF Goal, H
<1>6. CASE conts # <<>> /\ TakeBreak
  <2>1. c.f = "break"
    BY <1>6 DEF TakeBreak, K
  <2>2. AtApply(body, H, native, code, Front(Env(conts)))
    BY <1>1, <1>6, <2>1, TakeBreaks
  <2>3. now' = Apply(code) /\ conts' = Front(Env(conts))
    BY <1>6 DEF TakeBreak
  <2>4. Good(body, H, native, Apply(code), Front(Env(conts)))
    BY <2>2, GoodApply
  <2> QED BY <2>3, <2>4 DEF Goal, H
<1>7. CASE TakeEnd
  <2> DEFINE t == Cont("finish", 0, 0, <<>>)
  <2>1. conts = <<>> /\ now' = Emit(code) /\ conts' = Append(conts, t)
    BY <1>7 DEF TakeEnd, With
  <2>2. AtEmit(body, native, code, <<>>, Append(conts, t)) /\ ContOK(t)
    BY <1>1, <2>1, TakeEnds
  <2>3. t.f # "loop"
    BY DEF Cont
  <2> HIDE DEF t
  <2>4. Good(body, H, native, Emit(code), Append(conts, t))
    BY <1>1, <2>2, <2>3, GoodEmit
  <2> QED BY <2>1, <2>4 DEF Goal, H
<1> QED BY <1>3, <1>4, <1>5, <1>6, <1>7 DEF ApplyCont

\* So does code that runs silently, or has run.
LEMMA StepRun ==
  ASSUME Level, RunSilent \/ RunEnd
  PROVE  Goal
<1> DEFINE code == now.code
           vals == now.vals
           item == Head(code)
           H == Held(body)
<1>1. AtEmit(body, native, code, vals, conts) /\ Sound(conts)
  BY DEF Level, RunSilent, RunEnd, Good, Sim
<1> HIDE DEF H
<1>2. CASE RunSilent
  <2> DEFINE vals2 == IF item.run = "push" THEN Append(vals, item.v)
                      ELSE Append(Left(vals, Arity(body[item.at])), Unit)
  <2>1. now' = Running(Tail(code), vals2) /\ conts' = conts /\ code # <<>> /\ item.run \in {"push", "pure"}
    BY <1>2 DEF RunSilent
  <2>2. AtEmit(body, native, Tail(code), vals2, conts)
    BY <1>1, <2>1, RunsOn
  <2> HIDE DEF vals2
  <2>3. Good(body, H, native, Running(Tail(code), vals2), conts)
    BY <1>1, <2>2, GoodRunning
  <2> QED BY <2>1, <2>3 DEF Goal, H
<1>3. CASE RunEnd
  <2>1. now' = Value(Last(vals)) /\ conts' = conts /\ code = <<>>
    BY <1>3 DEF RunEnd
  <2>2. AtValue(body, native, <<Last(vals)>>, conts)
    BY <1>1, <2>1, RunsOut
  <2>3. Good(body, H, native, Value(Last(vals)), conts)
    BY <1>1, <2>2, GoodValue
  <2> QED BY <2>1, <2>3 DEF Goal, H
<1> QED BY <1>2, <1>3

\* The next turn, or none.
LEMMA AgainGood ==
  ASSUME NEW H, NEW g, NEW loop, Again(loop),
         LET cs == Append(Front(loop), Advanced(body, Last(loop)))
         IN  AtEnter(body, g, Last(loop).at, cs) /\ Sound(cs),
         Sound(conts)
  PROVE  Good(body, H, g, now', conts')
<1> DEFINE cs == Append(Front(loop), Advanced(body, Last(loop)))
<1>1. Good(body, H, g, Enter(Last(loop).at), cs)
  BY GoodEnter
<1>2. Advance(Last(loop)) = Advanced(body, Last(loop))
  BY DEF Advance, Advanced
<1>3. CASE now' = Enter(Last(loop).at) /\ conts' = Append(Front(loop), Advance(Last(loop)))
  BY <1>1, <1>2, <1>3
<1>4. CASE now' = Over /\ conts' = conts
  BY <1>4, GoodOver
<1> QED BY <1>3, <1>4 DEF Again

\* Turns are counted up to the bound.
LEMMA AgainTurns ==
  ASSUME turns \in 0..MaxTurns, NEW loop, Again(loop)
  PROVE  turns' \in 0..MaxTurns
BY MaxTurnsAssumption DEF Again

\* So does each continuation that takes a value.
LEMMA StepCont ==
  ASSUME Level, RunCont
  PROVE  Goal
<1> DEFINE c == Last(conts)
           rest == Front(conts)
           n == c.at
           v == now.vals[1]
           H == Held(body)
<1>1. AtValue(body, native, now.vals, conts) /\ WellFormed(body) /\ Sound(conts)
  BY BodyFits DEF Level, RunCont, Good, Sim
<1>2. PICK w : now.vals = <<w>> /\ Goes(body, conts, w, native)
  BY <1>1 DEF AtValue
<1>3. v = w
  BY <1>2, ListOne
<1> HIDE DEF v
<1>4. v \in Values /\ Listed(conts) /\ conts # <<>> /\ Resumes(body, rest, c, v, native)
  BY <1>2, <1>3 DEF Goes
<1> HIDE DEF H
<1>5. Sound(rest) /\ conts = Append(rest, c)
  BY <1>1, <1>4, SoundFront, ListLast
<1>6. CASE Temp(v)
  <2>1. AfterTemp(body, rest, c, v, native)
    BY <1>4, <1>6 DEF Resumes, Temp, K
  <2>2. AtSeq(body, H, native, n, c.i + 1, Append(c.acc, Push(v)), rest)
    BY <1>1, <1>4, <2>1, TempGoes
  <2>3. Good(body, H, native, Seq_(n, c.i + 1, Append(c.acc, Push(v))), rest)
    BY <2>2, GoodSeq
  <2> QED BY <1>6, <2>3 DEF Goal, H, Temp, K, Resume, Below
<1>7. CASE Called(v)
  <2>1. After(body, rest, native, v)
    BY <1>4, <1>7 DEF Resumes, Called, K
  <2>2. AtApply(body, H, native, <<Push(v)>>, rest)
    BY <1>4, <2>1, AfterApplies
  <2>3. Good(body, H, native, Apply(<<Push(v)>>), rest)
    BY <2>2, GoodApply
  <2> QED BY <1>7, <2>3 DEF Goal, H, Called, K, Resume, Below
<1>8. CASE Branch(v)
  <2>1. AfterFirst(body, rest, c, v, native, {"if"})
    BY <1>4, <1>8 DEF Resumes, Branch, K
  <2>2. /\ v = "yes" => AtCps(body, native, body[n].kids[2], rest)
        /\ v = "no" /\ Len(body[n].kids) = 3 => AtCps(body, native, body[n].kids[3], rest)
        /\ v = "no" /\ Len(body[n].kids) = 2 => AtApply(body, H, native, UnitCode, rest)
    BY <1>1, <1>4, <2>1, BranchGoes
  <2>3. CASE v = "yes" /\ Resume(Cps(Works.kids[2]))
    <3>1. Good(body, H, native, Cps(body[n].kids[2]), rest)
      BY <2>2, <2>3, GoodCps
    <3> QED BY <2>3, <3>1 DEF Goal, H, Works, K, Resume, Below
  <2>4. CASE v = "no" /\ Len(Works.kids) = 3 /\ Resume(Cps(Works.kids[3]))
    <3>0. Len(body[n].kids) = 3
      BY <2>4 DEF Works, K
    <3>1. Good(body, H, native, Cps(body[n].kids[3]), rest)
      BY <2>2, <2>4, <3>0, GoodCps
    <3> QED BY <2>4, <3>1 DEF Goal, H, Works, K, Resume, Below
  <2>5. CASE v = "no" /\ Len(Works.kids) = 2 /\ Resume(Apply(UnitCode))
    <3>0. Len(body[n].kids) = 2
      BY <2>5 DEF Works, K
    <3>1. Good(body, H, native, Apply(UnitCode), rest)
      BY <2>2, <2>5, <3>0, GoodApply
    <3> QED BY <2>5, <3>1 DEF Goal, H, Resume, Below
  <2> QED BY <1>8, <2>3, <2>4, <2>5 DEF Branch
<1>9. CASE Lazy(v)
  <2>1. AfterFirst(body, rest, c, v, native, {"and", "or"})
    BY <1>4, <1>9 DEF Resumes, Lazy, K
  <2>2. /\ v = Shortcut(body[n].kind) => AtApply(body, H, native, <<Push(v)>>, rest)
        /\ v # Shortcut(body[n].kind) => AtCps(body, native, body[n].kids[2], rest)
    BY <1>1, <1>4, <2>1, LazyGoes
  <2>3. Resume(IF v = Shortcut(body[n].kind) THEN Apply(<<Push(v)>>) ELSE Cps(body[n].kids[2]))
    BY <1>9 DEF Lazy, Works, K
  <2>4. CASE v = Shortcut(body[n].kind)
    <3>1. Good(body, H, native, Apply(<<Push(v)>>), rest)
      BY <2>2, <2>4, GoodApply
    <3> QED BY <2>3, <2>4, <3>1 DEF Goal, H, Resume, Below
  <2>5. CASE v # Shortcut(body[n].kind)
    <3>1. Good(body, H, native, Cps(body[n].kids[2]), rest)
      BY <2>2, <2>5, GoodCps
    <3> QED BY <2>3, <2>5, <3>1 DEF Goal, H, Resume, Below
  <2> QED BY <2>4, <2>5
<1>10. CASE Rest(v)
  <2>1. AfterStmt(body, rest, c, v, native)
    BY <1>4, <1>10 DEF Resumes, Rest, K
  <2>2. AtStmts(body, native, n, c.i + 1, rest)
    BY <1>1, <1>4, <2>1, RestGoes
  <2>3. Good(body, H, native, Stmts(n, c.i + 1), rest)
    BY <2>2, GoodStmts
  <2> QED BY <1>10, <2>3 DEF Goal, H, Rest, K, Resume, Below
<1>11. CASE Finished(v)
  <2>1. AtDone(body, native, <<v>>)
    BY <1>4, <1>11 DEF Resumes, Finished, K, AtDone
  <2>2. Good(body, H, native, Done(v), rest)
    BY <1>5, <2>1, GoodDone
  <2> QED BY <1>11, <2>2 DEF Goal, H, Finished, Resume, Below
<1>12. CASE Tried(v)
  <2>1. AfterTry(body, rest, v, native)
    BY <1>4, <1>12 DEF Resumes, Tried, K
  <2>2. Resume(IF v = "yes" THEN Apply(<<Push(v)>>) ELSE Done(v))
    BY <1>12 DEF Tried
  <2>3. CASE v = "yes"
    <3>1. AtApply(body, H, native, <<Push(v)>>, rest)
      BY <1>4, <2>1, <2>3, AfterApplies DEF AfterTry
    <3>2. Good(body, H, native, Apply(<<Push(v)>>), rest)
      BY <3>1, GoodApply
    <3> QED BY <2>2, <2>3, <3>2 DEF Goal, H, Resume, Below
  <2>4. CASE v # "yes"
    <3>1. AtDone(body, native, <<v>>)
      BY <2>1, <2>4 DEF AfterTry, AtDone
    <3>2. Good(body, H, native, Done(v), rest)
      BY <1>5, <3>1, GoodDone
    <3> QED BY <2>2, <2>4, <3>2 DEF Goal, H, Resume, Below
  <2> QED BY <2>3, <2>4
<1>13. CASE Assigned(v)
  <2>1. After(body, rest, native, Unit) /\ Unit \in Values
    BY <1>4, <1>13 DEF Resumes, Assigned, K, Unit, Values
  <2>2. AtApply(body, H, native, <<Push(Unit)>>, rest)
    BY <2>1, AfterApplies
  <2>3. Good(body, H, native, Apply(UnitCode), rest)
    BY <2>2, GoodApply DEF UnitCode
  <2> QED BY <1>13, <2>3 DEF Goal, H, Assigned, Resume, Below
<1>14. CASE Looped(v)
  <2> DEFINE cs == Append(rest, Cont("loop", n, 0, <<>>))
  <2>1. AfterIter(body, rest, c, native)
    BY <1>4, <1>14 DEF Resumes, Looped, K
  <2>2. AtEnter(body, native, n, cs) /\ Sound(cs)
    BY <1>1, <2>1, LoopedGoes
  <2>3. Good(body, H, native, Enter(n), cs)
    BY <2>2, GoodEnter
  <2> QED BY <1>14, <2>3 DEF Goal, H, Looped, K, Instead, Below
<1>15. CASE Step(v)
  <2>1. AfterTest(body, rest, c, v, native) /\ c.f # "loop"
    BY <1>4, <1>15 DEF Resumes, Step, K
  <2> DEFINE cs == Append(rest, Cont("next", n, 0, <<>>))
  <2>2. /\ v = "yes" => AtCps(body, native, body[n].kids[2], cs)
        /\ v = "no" => AtApply(body, H, native, UnitCode, Front(Env(Append(rest, c))))
    BY <1>1, <2>1, StepGoes
  <2>3. CASE v = "yes" /\ Body
    <3>1. Good(body, H, native, Cps(body[n].kids[2]), cs)
      BY <2>2, <2>3, GoodCps
    <3> QED BY <2>3, <3>1 DEF Goal, H, Body, Works, K, Instead, Below
  <2>4. CASE v = "no" /\ Exhausted
    <3>1. AtApply(body, H, native, UnitCode, Front(Env(conts)))
      BY <1>5, <2>2, <2>4
    <3>2. Good(body, H, native, Apply(UnitCode), Front(Env(conts)))
      BY <3>1, GoodApply
    <3> QED BY <2>4, <3>2 DEF Goal, H, Exhausted
  <2> QED BY <1>15, <2>3, <2>4 DEF Step
<1>16. CASE K.f = "again" /\ Again(Env(conts))
  <2>1. AfterTurn(body, rest, c, v, native) /\ c.f # "loop"
    BY <1>4, <1>16 DEF Resumes, K
  <2> DEFINE env == Env(Append(rest, c))
             cs == Append(Front(env), Advanced(body, Last(env)))
  <2>2. AtEnter(body, native, Last(env).at, cs) /\ Sound(cs)
    BY <1>1, <2>1, TurnGoes
  <2>3. Again(env)
    BY <1>5, <1>16
  <2>4. Good(body, H, native, now', conts')
    BY <1>1, <2>2, <2>3, AgainGood
  <2> QED BY <2>4 DEF Goal, H
<1>17. \/ Temp(v) \/ Called(v) \/ Branch(v) \/ Lazy(v) \/ Rest(v) \/ Finished(v)
       \/ Tried(v) \/ Assigned(v) \/ Looped(v) \/ Step(v)
       \/ (K.f = "again" /\ Again(Env(conts)))
  BY DEF RunCont, v
<1> QED BY <1>6, <1>7, <1>8, <1>9, <1>10, <1>11, <1>12, <1>13, <1>14, <1>15, <1>16, <1>17

\* An event that the body itself is on its way to: `h` is what it does there.
Meets(h, s) ==
    /\ AtEvent(h) /\ h.do = s.what /\ h.at = s.at /\ h.turn = s.turn /\ h.vals = s.args
Produced(g, s, d, cs) ==
    \E h : /\ Star(body, g, h) /\ Meets(h, s)
           /\ s.what # "done" => Good(body, Held(body), Went(body, h, s.out), d, cs)

\* What is said has these parts.
LEMMA SaidFields ==
  ASSUME NEW what, NEW at, NEW args, NEW turn, NEW out
  PROVE  LET s == Said(what, at, args, turn, out)
         IN  /\ s.what = what /\ s.at = at /\ s.args = args /\ s.turn = turn /\ s.out = out
             /\ what # "nothing" => s # Nothing
BY DEF Said, Nothing

\* An event of the rewritten body is one of the body itself, and after it both
\* go on from the same point, whatever it comes to.
LEMMA StepEvent ==
  ASSUME Level, RunEvent
  PROVE  /\ said' # Nothing /\ said'.what # "done" /\ said'.out \in Values \union Exits
         /\ Produced(native, said', now', conts') /\ NowOK(now') /\ Sound(conts')
<1> DEFINE code == now.code
           vals == now.vals
           item == Head(code)
           n == Operands(body, item)
           H == Held(body)
<1>1. AtEmit(body, native, code, vals, conts) /\ Sound(conts) /\ WellFormed(body)
  BY BodyFits DEF Level, RunEvent, Good, Sim
<1>2. code # <<>> /\ item.run \in {"leaf", "op", "next"}
  BY DEF RunEvent
<1>3. PICK out \in Outcomes(item) :
        /\ said' = Said(item.run, item.at, Taken(vals, n), item.turn, out)
        /\ \/ /\ out \in Values
              /\ now' = Running(Tail(code), Append(Left(vals, n), out))
              /\ UNCHANGED <<conts, turns>>
           \/ out = "return" /\ now' = Done(out) /\ UNCHANGED <<conts, turns>>
           \/ out = "break" /\ BreakTo(item.loop, UnitCode)
           \/ out = "continue" /\ Again(item.loop)
  BY DEF RunEvent
<1>4. PICK h : /\ Star(body, native, h) /\ Performs(body, item, vals, h)
               /\ \A o \in Values : AtEmit(body, Went(body, h, o), Tail(code),
                                           Append(Left(vals, n), o), conts)
  BY <1>1, <1>2, RunsTo
<1>5. /\ said'.what = item.run /\ said'.at = item.at /\ said'.args = Taken(vals, n)
      /\ said'.turn = item.turn /\ said'.out = out
  BY <1>3, SaidFields
<1>5a. said' # Nothing
  BY <1>2, <1>5 DEF Said, Nothing
<1> HIDE DEF code, vals, item, n, H
<1>6. Meets(h, said')
  BY <1>4, <1>5 DEF Performs, Meets, n
<1>7. out \in Values \union Exits
  BY <1>3 DEF Outcomes, Exits
<1>8. out \in {"break", "continue"} => item.loop # <<>>
  BY <1>3 DEF Outcomes, Values
<1>9. Good(body, H, Went(body, h, out), now', conts')
  <2>1. CASE /\ out \in Values
             /\ now' = Running(Tail(code), Append(Left(vals, n), out))
             /\ conts' = conts
    <3>1. Good(body, H, Went(body, h, out), Running(Tail(code), Append(Left(vals, n), out)), conts)
      BY <1>1, <1>4, <2>1, GoodRunning
    <3> QED BY <2>1, <3>1
  <2>2. CASE out = "return" /\ now' = Done(out) /\ conts' = conts
    <3>1. Good(body, H, Went(body, h, "return"), Done("return"), conts)
      BY <1>1, LeafReturns, GoodDone
    <3> QED BY <2>2, <3>1
  <2>3. CASE out = "break" /\ BreakTo(item.loop, UnitCode)
    <3>1. AtApply(body, H, Went(body, h, "break"), UnitCode, Front(item.loop))
      BY <1>1, <1>4, <1>8, <2>3, LeafBreaks
    <3>2. Good(body, H, Went(body, h, "break"), Apply(UnitCode), Front(item.loop))
      BY <3>1, GoodApply
    <3> QED BY <2>3, <3>2 DEF BreakTo
  <2>4. CASE out = "continue" /\ Again(item.loop)
    <3> DEFINE loop == item.loop
               g == Went(body, h, "continue")
    <3>1. Advance(Last(loop)) = Advanced(body, Last(loop))
      BY DEF Advance, Advanced
    <3>2. LET cs == Append(Front(loop), Advanced(body, Last(loop)))
          IN  AtEnter(body, g, Last(loop).at, cs) /\ Sound(cs)
      BY <1>1, <1>4, <1>8, <2>4, LeafContinues
    <3>3. Again(loop)
      BY <2>4
    <3> HIDE DEF loop, g
    <3>4. Good(body, H, g, now', conts')
      BY <1>1, <3>2, <3>3, AgainGood
    <3> QED BY <2>4, <3>4 DEF g
  <2> QED BY <1>3, <2>1, <2>2, <2>3, <2>4
<1>10. Produced(native, said', now', conts')
  BY <1>4, <1>5, <1>6, <1>9 DEF Produced, H
<1>11. NowOK(now') /\ Sound(conts')
  BY <1>9 DEF Good
<1> QED BY <1>2, <1>5, <1>5a, <1>7, <1>10, <1>11

\* The end is the end of the body itself, with the same result.
LEMMA StepDone ==
  ASSUME Level, Return_
  PROVE  /\ said' # Nothing /\ said'.what = "done" /\ said'.out \in Values \union Exits
         /\ Produced(native, said', now', conts') /\ NowOK(now') /\ Sound(conts')
<1>1. AtDone(body, native, now.vals) /\ Sound(conts)
  BY DEF Level, Return_, Good, Sim
<1>2. said' = Said("done", 0, now.vals, 0, Unit) /\ now' = Over /\ conts' = conts
  BY DEF Return_
<1>3. /\ said'.what = "done" /\ said'.at = 0 /\ said'.args = now.vals /\ said'.turn = 0
      /\ said'.out = Unit /\ said' # Nothing
  BY <1>2, SaidFields DEF Said, Nothing
<1>4. PICK v : now.vals = <<v>> /\ Star(body, native, End(v))
  BY <1>1 DEF AtDone
<1>5. Meets(End(v), said')
  BY <1>3, <1>4 DEF Meets, End, Doing, AtEvent
<1>6. Produced(native, said', now', conts')
  BY <1>3, <1>4, <1>5 DEF Produced
<1>7. Good(body, Held(body), native, Over, conts)
  BY <1>1, GoodOver
<1>8. NowOK(now') /\ Sound(conts')
  BY <1>2, <1>7 DEF Good
<1>9. Unit \in Values \union Exits
  BY DEF Unit, Values
<1> QED BY <1>3, <1>6, <1>8, <1>9

-----------------------------------------------------------------------------
(* The inductive invariant.                                                  *)
Machine == {"eval", "value", "leaf", "op", "next", "done"}

\* Whatever the machine does next, it does one of these.
LEMMA DoesOne ==
  ASSUME NEW do \in Machine, NEW at, NEW vals, NEW turn, NEW pending
  PROVE  Doing(do, at, vals, turn, pending).do \in Machine
BY DEF Doing

\* An expression is begun.
LEMMA DoesEval ==
  ASSUME NEW n, NEW stack
  PROVE  Eval(n, stack).do \in Machine
BY DoesOne DEF Eval, Machine

\* A value is there, or the result.
LEMMA DoesYield ==
  ASSUME NEW v, NEW stack
  PROVE  Yield(v, stack).do \in Machine /\ End(v).do \in Machine
BY DoesOne DEF Yield, End, Machine

\* A turn begins, or a loop is left.
LEMMA DoesTurn ==
  ASSUME NEW b, NEW pending, NEW loop, NEW v
  PROVE  NextTurn(b, pending, loop).do \in Machine /\ BreakLoop(pending, loop, v).do \in Machine
<1>1. BreakLoop(pending, loop, v).do \in Machine
  BY DoesYield DEF BreakLoop
<1> DEFINE j == LoopAt(pending, loop)
           fr == Frame(loop, 1, <<>>, pending[j].turn + 1)
           around == Append(SubSeq(pending, 1, j - 1), fr)
<1>2. NextTurn(b, pending, loop) = IF b[loop].kind \in Iterating
                                   THEN Doing("next", loop, <<>>, fr.turn, around)
                                   ELSE Eval(b[loop].kids[1], around)
  BY DEF NextTurn
<1> HIDE DEF fr, around
<1>3. Doing("next", loop, <<>>, fr.turn, around).do \in Machine
  BY DoesOne DEF Machine
<1> QED BY <1>1, <1>2, <1>3, DoesEval

\* An operand is there.
LEMMA DoesOperand ==
  ASSUME NEW t, NEW fr, NEW v, NEW below
  PROVE  Operand(t, fr, v, below).do \in Machine
<1>1. Doing("op", fr.at, Append(fr.vals, v), 0, below).do \in Machine
  BY DoesOne DEF Machine
<1> QED BY <1>1, DoesEval, DoesYield DEF Operand

\* The machine moves.
LEMMA DoesMove ==
  ASSUME NEW b, NEW s
  PROVE  Move(b, s).do \in Machine
<1>1. Begin(b, s).do \in Machine
  <2>1. Doing("leaf", s.at, <<>>, 0, s.pending).do \in Machine
    BY DoesOne DEF Machine
  <2>2. Doing("op", s.at, <<>>, 0, s.pending).do \in Machine
    BY DoesOne DEF Machine
  <2> QED BY <2>1, <2>2, DoesEval, DoesYield DEF Begin
<1>2. Receive(b, s).do \in Machine
  <2> DEFINE fr == s.pending[Len(s.pending)]
             below == SubSeq(s.pending, 1, Len(s.pending) - 1)
             t == b[fr.at]
             v == s.vals[1]
             next == Following(t, fr.i, v)
  <2>1. Receive(b, s) =
          IF t.kind \in Strict THEN Operand(t, fr, v, below)
          ELSE IF t.kind = "return" THEN End(v)
          ELSE IF t.kind = "break" THEN BreakLoop(s.pending, t.loop, v)
          ELSE IF t.kind \in Iterating /\ fr.i = 1 THEN Doing("op", fr.at, <<v>>, 0, s.pending)
          ELSE IF t.kind = "loop" \/ (t.kind \in Looping /\ fr.i = 2) THEN NextTurn(b, s.pending, fr.at)
          ELSE IF next # 0 THEN Eval(t.kids[next], Append(below, Frame(fr.at, next, <<>>, fr.turn)))
          ELSE Yield(Comes(t, fr.i, v), below)
    BY DEF Receive
  <2>2. Doing("op", fr.at, <<v>>, 0, s.pending).do \in Machine
    BY DoesOne DEF Machine
  <2> HIDE DEF fr, below, t, v, next
  <2> QED BY <2>1, <2>2, DoesOperand, DoesYield, DoesTurn, DoesEval
<1>3. Move(b, s) = IF s.do = "eval" THEN Begin(b, s)
                   ELSE IF s.pending = <<>> THEN End(s.vals[1]) ELSE Receive(b, s)
  BY DEF Move
<1> QED BY <1>1, <1>2, <1>3, DoesYield

\* An event has come to its outcome.
LEMMA DoesWent ==
  ASSUME NEW b, NEW s, NEW out
  PROVE  Went(b, s, out).do \in Machine
<1> DEFINE t == b[s.at]
           last == Len(s.pending)
           below == SubSeq(s.pending, 1, last - 1)
<1>1. Went(b, s, out) =
        IF out = "return" THEN End(out)
        ELSE IF out = "break" THEN BreakLoop(s.pending, t.loop, Unit)
        ELSE IF out = "continue" THEN NextTurn(b, s.pending, t.loop)
        ELSE IF s.do = "op" /\ t.kind \in Iterating THEN Doing("next", s.at, <<>>, 0, s.pending)
        ELSE IF s.do = "op" /\ t.kind = "try" /\ out = "no" THEN End(out)
        ELSE IF s.do = "op" /\ t.kind = "assign" THEN Yield(Unit, s.pending)
        ELSE IF s.do = "next" /\ out = "yes"
        THEN Eval(t.kids[2], Append(below, Frame(s.at, 2, <<>>, s.turn)))
        ELSE IF s.do = "next" THEN Yield(Unit, below)
        ELSE Yield(out, s.pending)
  BY DEF Went
<1>2. Doing("next", s.at, <<>>, 0, s.pending).do \in Machine
  BY DoesOne DEF Machine
<1> HIDE DEF t, last, below
<1> QED BY <1>1, <1>2, DoesYield, DoesTurn, DoesEval

\* While no event is out, what is rewritten and the body stand at one point;
\* while one is out, the body is on its way to it, and stands with the rewritten
\* body after it. No continuation has code to run.
Types ==
    /\ body \in Bodies /\ turns \in 0..MaxTurns /\ native.do \in Machine
    /\ said.out \in Values \union Exits /\ NowOK(now) /\ Sound(conts)
Beside ==
    IF said = Nothing THEN Sim(body, Held(body), native, now, conts)
    ELSE Produced(native, said, now, conts)
IInv == Types /\ Beside

\* Every body of this kind keeps its order.
LEMMA OrderHeld ==
  ASSUME InOrder, body \in Bodies
  PROVE  KeepsOrder(body, Held(body))
BY DEF InOrder, Held

\* While no event is out, both stand at one point.
LEMMA LevelHolds ==
  ASSUME InOrder, IInv, said = Nothing
  PROVE  Level
<1>1. body \in Bodies /\ NowOK(now) /\ Sound(conts) /\ Sim(body, Held(body), native, now, conts)
  BY DEF IInv, Types, Beside
<1> QED BY <1>1, OrderHeld DEF Level, Good

\* The body as it was written, and the whole of it to rewrite.
LEMMA InitHolds ==
  ASSUME Init
  PROVE  IInv
<1> DEFINE n == Len(body)
<1>1. body \in Bodies /\ said = Nothing /\ native = Eval(n, <<>>) /\ now = Cps(n)
      /\ conts = <<>> /\ turns = 0
  BY DEF Init
<1>2. WellFormed(body)
  BY <1>1, BodiesAssumption
<1>3. Standing(body, <<>>, <<>>) /\ Awaited(body, <<>>) = n
  BY <1>2, StandingNone
<1>4. n \in DOMAIN body
  <2>1. body \in Seq(Expressions) /\ body # <<>>
    BY <1>2 DEF WellFormed
  <2> QED BY <2>1
<1>5. Star(body, Eval(n, <<>>), Eval(n, <<>>))
  BY StarHere
<1> HIDE DEF n
<1>6. AtCps(body, native, n, <<>>)
  BY <1>1, <1>3, <1>4, <1>5 DEF AtCps
<1>7. Good(body, Held(body), native, now, conts)
  BY <1>1, <1>6, GoodCps
<1>8. native.do \in Machine
  BY <1>1, DoesEval
<1>9. said.out \in Values \union Exits
  BY <1>1, SaidFields DEF Nothing, Values, Unit
<1>10. turns \in 0..MaxTurns
  BY <1>1, MaxTurnsAssumption
<1> QED BY <1>1, <1>7, <1>8, <1>9, <1>10 DEF IInv, Types, Beside, Good

\* A step that produces no event.
LEMMA QuietHolds ==
  ASSUME InOrder, IInv, said = Nothing, Goal, turns' \in 0..MaxTurns,
         UNCHANGED <<said, body, native>>
  PROVE  IInv'
<1>1. Types'
  BY DEF IInv, Types, Goal, Good
<1>2. Sim(body, Held(body), native, now', conts')
  BY DEF Goal, Good
<1>3. Beside'
  BY <1>2 DEF Beside
<1> QED BY <1>1, <1>3 DEF IInv

\* A step that produces one.
LEMMA LoudHolds ==
  ASSUME IInv, said' # Nothing, said'.out \in Values \union Exits,
         Produced(native, said', now', conts'), NowOK(now'), Sound(conts'),
         turns' \in 0..MaxTurns, UNCHANGED <<body, native>>
  PROVE  IInv'
<1>1. Types'
  BY DEF IInv, Types
<1>2. Beside'
  BY DEF Beside, Produced
<1> QED BY <1>1, <1>2 DEF IInv

\* A continuation makes at most one turn.
LEMMA ContTurns ==
  ASSUME turns \in 0..MaxTurns, RunCont
  PROVE  turns' \in 0..MaxTurns
<1>1. CASE turns' = turns
  BY <1>1
<1>2. CASE Again(Env(conts))
  BY <1>2, AgainTurns
<1> QED BY <1>1, <1>2 DEF RunCont

\* So does an event.
LEMMA EventTurns ==
  ASSUME turns \in 0..MaxTurns, RunEvent
  PROVE  turns' \in 0..MaxTurns
<1> DEFINE item == Head(now.code)
<1>1. CASE turns' = turns
  BY <1>1
<1>2. CASE Again(item.loop)
  BY <1>2, AgainTurns
<1> QED BY <1>1, <1>2 DEF RunEvent, BreakTo

\* A step of the rewritten body.
LEMMA RewrittenHolds ==
  ASSUME InOrder, IInv, Rewritten
  PROVE  IInv'
<1>1. said = Nothing /\ body' = body /\ native' = native /\ Level /\ turns \in 0..MaxTurns
  BY LevelHolds DEF Rewritten, IInv, Types
<1>2. CASE (CpsExpr \/ CpsSeq \/ CpsStmts \/ EnterLoop) /\ UNCHANGED <<said, turns>>
  <2>1. Goal
    BY <1>1, <1>2, StepCps, StepSeq, StepStmts, StepEnter
  <2> QED BY <1>1, <1>2, <2>1, QuietHolds
<1>3. CASE (ApplyCont \/ RunSilent \/ RunEnd) /\ UNCHANGED said
  <2>1. Goal
    BY <1>1, <1>3, StepApply, StepRun
  <2>2. turns' = turns
    BY <1>3 DEF ApplyCont, RunSilent, RunEnd
  <2> QED BY <1>1, <1>3, <2>1, <2>2, QuietHolds
<1>4. CASE RunCont /\ UNCHANGED said
  <2>1. Goal /\ turns' \in 0..MaxTurns
    BY <1>1, <1>4, StepCont, ContTurns
  <2> QED BY <1>1, <1>4, <2>1, QuietHolds
<1>5. CASE RunEvent
  <2>1. turns' \in 0..MaxTurns
    BY <1>1, <1>5, EventTurns
  <2> QED BY <1>1, <1>5, <2>1, StepEvent, LoudHolds
<1>6. CASE Return_
  <2>1. turns' = turns
    BY <1>6 DEF Return_
  <2> QED BY <1>1, <1>6, <2>1, StepDone, LoudHolds
<1> QED BY <1>2, <1>3, <1>4, <1>5, <1>6 DEF Rewritten

\* A step of the body itself, towards the event that is out or past it.
LEMMA OriginalHolds ==
  ASSUME IInv, Original
  PROVE  IInv'
<1>1. said # Nothing /\ UNCHANGED <<body, now, conts, turns>>
  BY DEF Original
<1>2. PICK h : /\ Star(body, native, h) /\ Meets(h, said)
               /\ said.what # "done" => Good(body, Held(body), Went(body, h, said.out), now, conts)
  BY <1>1 DEF IInv, Beside, Produced
<1>3. CASE ~AtEvent(native) /\ native' = Move(body, native) /\ UNCHANGED said
  <2>1. Star(body, native', h)
    BY <1>2, <1>3, StarFirst DEF Meets
  <2>2. Produced(native', said, now, conts)
    BY <1>2, <2>1 DEF Produced
  <2>3. Beside'
    BY <1>1, <1>3, <2>2 DEF Beside, Produced
  <2>4. native'.do \in Machine
    BY <1>3, DoesMove
  <2> QED BY <1>1, <1>3, <2>3, <2>4 DEF IInv, Types
<1>4. CASE /\ AtEvent(native) /\ Agrees /\ said.what # "done"
           /\ native' = Went(body, native, said.out) /\ said' = Nothing
  <2>1. h = native
    BY <1>2, <1>4, StarEvent
  <2>2. Sim(body, Held(body), native', now, conts)
    BY <1>2, <1>4, <2>1 DEF Good
  <2>3. Beside'
    BY <1>1, <1>4, <2>2 DEF Beside
  <2>4. native'.do \in Machine
    BY <1>4, DoesWent
  <2>5. said'.out \in Values \union Exits
    BY <1>4, SaidFields DEF Nothing, Values, Unit
  <2> QED BY <1>1, <2>3, <2>4, <2>5 DEF IInv, Types
<1> QED BY <1>3, <1>4 DEF Original

\* Every step keeps the invariant.
LEMMA NextHolds ==
  ASSUME InOrder, IInv, [Next]_vars
  PROVE  IInv'
<1>1. CASE UNCHANGED vars
  BY <1>1 DEF vars, IInv, Types, Beside, Produced
<1> QED BY <1>1, RewrittenHolds, OriginalHolds DEF Next, Ended

-----------------------------------------------------------------------------
(* What it says of each state. *)
LEMMA TypesSay ==
  ASSUME IInv
  PROVE  TypeOK /\ CutCarriesValues
<1>1. /\ turns \in 0..MaxTurns /\ native.do \in Machine /\ said.out \in Values \union Exits
      /\ now.do \in Doings /\ CodeOK(now.code) /\ Sound(conts)
  BY DEF IInv, Types, NowOK
<1>2. TypeOK
  BY <1>1 DEF TypeOK, Sound, ContOK, Doings, Machine
<1>3. CutCarriesValues
  BY <1>1 DEF CutCarriesValues, Sound, ContOK
<1> QED BY <1>2, <1>3

\* An event of the rewritten body is the one the body itself has come to.
LEMMA BesideSays ==
  ASSUME IInv
  PROVE  SameOrder /\ SameOperands
<1>1. SUFFICES ASSUME said # Nothing, AtEvent(native)
               PROVE  Agrees /\ native.vals = said.args
  BY DEF SameOrder, SameOperands
<1>2. PICK h : Star(body, native, h) /\ Meets(h, said)
  BY <1>1 DEF IInv, Beside, Produced
<1>3. h = native
  BY <1>1, <1>2, StarEvent
<1> QED BY <1>2, <1>3 DEF Meets, Agrees

\* The invariant holds of every run.
LEMMA Invariant ==
  ASSUME InOrder
  PROVE  Spec => []IInv
<1>1. Init => IInv
  BY InitHolds
<1>2. IInv /\ [Next]_vars => IInv'
  BY NextHolds
<1> QED BY <1>1, <1>2, PTL DEF Spec
-----------------------------------------------------------------------------
\* Code, values and continuations are what they are called, and a loop waits
\* once however many turns it makes (cps_expr, lower_loop), in every body that
\* keeps its order, of any size.
THEOREM LoweringTypeOK ==
  ASSUME InOrder
  PROVE  Spec => []TypeOK
BY Invariant, TypesSay, PTL

\* Everything the rewritten body does that a program can see, the body as it
\* was written does at the same point (cps_expr, cps_stmts, cps_place, cps_seq,
\* lower_loop, LeafRewrite), for every such body, every outcome of the user's
\* code in it and any number of turns.
THEOREM LoweringSameOrder ==
  ASSUME InOrder
  PROVE  Spec => []SameOrder
BY Invariant, BesideSays, PTL

\* It is done on the same values, and the result is the same (the values handed
\* to the continuations of cps_seq and `&&`), likewise.
THEOREM LoweringSameOperands ==
  ASSUME InOrder
  PROVE  Spec => []SameOperands
BY Invariant, BesideSays, PTL

\* No operand's code waits across a recursive call (cps_seq), likewise.
THEOREM LoweringCutCarriesValues ==
  ASSUME InOrder
  PROVE  Spec => []CutCarriesValues
BY Invariant, TypesSay, PTL
-----------------------------------------------------------------------------
(* Which bodies keep their order. *)
\* What hands on the value it has come to, or none.
Settling == {"rec", "try", "assign", "stmts", "return", "break"}
\* An operand that recurses, before another that does, is a call of a member, a
\* `?` or another of these: `f(n - 1)? + f(n - 2)?`.
CallsOnly(b) ==
    \A n \in DOMAIN b : b[n].kind \in {"op", "pure", "rec"} =>
        \A i \in DOMAIN b[n].kids :
            b[n].places < i /\ b[b[n].kids[i]].rec /\ LaterRecurses(b, b[n], i)
                => b[b[n].kids[i]].kind \in Settling

\* Bodies with only such operands keep their order (cps_seq needs no temporary
\* for what a resume point or a `?` binds already).
THEOREM LoweringCallsInOrder ==
  ASSUME \A b \in Bodies : CallsOnly(b)
  PROVE  InOrder
<1> SUFFICES ASSUME NEW b \in Bodies
             PROVE  \E H \in SUBSET DOMAIN b : KeepsOrder(b, H)
  BY DEF InOrder
<1> DEFINE H == {n \in DOMAIN b : ~(b[n].rec /\ b[n].kind \in Settling)}
<1>1. ASSUME NEW n \in DOMAIN b, Hands(b, H, n)
      PROVE  n \in H
  <2>1. b[n].rec => b[n].kind \in {"op", "pure", "and", "or", "block", "if"} \union Looping
    BY <1>1 DEF Hands
  <2> QED BY <2>1 DEF Settling, Looping, Iterating
<1>2. ASSUME NEW n \in DOMAIN b
      PROVE  ~Late(b, H, n)
  <2>1. SUFFICES ASSUME b[n].kind \in {"op", "pure", "rec"}, NEW i \in DOMAIN b[n].kids,
                        b[n].places < i, b[b[n].kids[i]].rec, b[n].kids[i] \in H,
                        LaterRecurses(b, b[n], i)
                 PROVE  FALSE
    BY DEF Late
  <2>2. b[b[n].kids[i]].kind \in Settling
    BY <2>1 DEF CallsOnly
  <2> QED BY <2>1, <2>2
<1>3. KeepsOrder(b, H)
  BY <1>1, <1>2 DEF KeepsOrder
<1> QED BY <1>3
=============================================================================
