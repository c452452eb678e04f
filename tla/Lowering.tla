------------------------------ MODULE Lowering ------------------------------
(* What the continuation-passing rewriting makes a body do, run beside the  *)
(* body itself. The rewriter hands each continuation the code of a value    *)
(* (`k(quote! {..})`), which runs where the continuation splices it: here a *)
(* continuation is a frame of `conts`, the code of a value is the sequence  *)
(* of what it runs, operands before operators, and code is run only where   *)
(* the rewriter emits a statement for it. Only the path the run takes is     *)
(* rewritten; the branches not taken are the same rewriting of other kids.   *)
EXTENDS Evaluation

CONSTANTS
    Bodies,     \* the bodies rewritten
    MaxTurns    \* the loop turns a run makes before it is cut

ASSUME BodiesAssumption == \A b \in Bodies : WellFormed(b)
ASSUME MaxTurnsAssumption == MaxTurns \in Nat

VARIABLES
    body,       \* the body
    said,       \* the event the rewritten body has just produced, or Nothing
    native,     \* what the body itself does now
    now,        \* what is being rewritten, or run
    conts,      \* the continuations waiting, innermost last
    turns       \* the turns made
vars == <<body, said, native, now, conts, turns>>

\* The continuation of the innermost lowered loop around what is rewritten now,
\* and those before it; empty outside loops.
IsLastLoop(cs, j) == cs[j].f = "loop" /\ \A m \in DOMAIN cs : cs[m].f = "loop" => m <= j
LastLoop(cs) == IF \E j \in DOMAIN cs : cs[j].f = "loop"
                THEN CHOOSE j \in DOMAIN cs : IsLastLoop(cs, j) ELSE 0
Env(cs) == SubSeq(cs, 1, LastLoop(cs))

\* Code. A leaf's `break` and `continue` are rewritten for the loop it is
\* spliced in, and mean that loop wherever the leaf is run.
Code(run, at, v, turn, loop) == [run |-> run, at |-> at, v |-> v, turn |-> turn, loop |-> loop]
Push(v) == Code("push", 0, v, 0, <<>>)
UnitCode == <<Push(Unit)>>
Splice(b, cs, n) == IF b[n].kind = "lit" THEN UnitCode ELSE <<Code("leaf", n, Unit, 0, Env(cs))>>
Perform(b, n) == <<Code(IF b[n].kind = "pure" THEN "pure" ELSE "op", n, Unit, 0, <<>>)>>

\* Continuations, and what is done next.
Cont(f, at, i, acc) == [f |-> f, at |-> at, i |-> i, acc |-> acc]
Moved(cont) == Cont(cont.f, cont.at, cont.i + 1, cont.acc)
Do(do, at, i, code, vals) == [do |-> do, at |-> at, i |-> i, code |-> code, vals |-> vals]
Cps(n) == Do("cps", n, 0, <<>>, <<>>)
Seq_(n, i, acc) == Do("seq", n, i, acc, <<>>)
Stmts(n, i) == Do("stmts", n, i, <<>>, <<>>)
Apply(code) == Do("apply", 0, 0, code, <<>>)
Running(code, vals) == Do("emit", 0, 0, code, vals)
Emit(code) == Running(code, <<>>)
Value(v) == Do("value", 0, 0, <<>>, <<v>>)
Enter(n) == Do("enter", n, 0, <<>>, <<>>)
Done(v) == Do("done", 0, 0, <<>>, <<v>>)
Over == Do("over", 0, 0, <<>>, <<>>)

This == body[now.at]
Kid(i) == This.kids[i]
K == Last(conts)
Below == Front(conts)
Works == body[K.at]
With(doing, cont) == now' = doing /\ conts' = Append(conts, cont)
Resume(doing) == now' = doing /\ conts' = Below
Instead(doing, cont) == now' = doing /\ conts' = Append(Below, cont)

-----------------------------------------------------------------------------
(* cps_expr *)
FirstKid(f) == With(Cps(Kid(1)), Cont(f, now.at, 0, <<>>))

CpsLeaf == ~This.rec /\ now' = Apply(Splice(body, conts, now.at)) /\ UNCHANGED conts
CpsOperands == /\ This.rec /\ This.kind \in {"op", "pure", "rec"}
               /\ now' = Seq_(now.at, 1, <<>>) /\ UNCHANGED conts
CpsBranch == This.rec /\ This.kind = "if" /\ FirstKid("cond")
CpsLazy == This.rec /\ This.kind \in {"and", "or"} /\ FirstKid("left")
CpsBlock == This.rec /\ This.kind \in {"block", "stmts"}
            /\ now' = Stmts(now.at, 1) /\ UNCHANGED conts
CpsUnary == This.rec /\ This.kind \in {"return", "try", "assign", "break"} /\ FirstKid(This.kind)
CpsLoop == /\ This.rec
           /\ \/ This.kind \in Iterating /\ FirstKid("iter")
              \/ This.kind \in {"while", "loop"} /\ With(Enter(now.at), Cont("loop", now.at, 0, <<>>))

CpsExpr == /\ now.do = "cps"
           /\ CpsLeaf \/ CpsOperands \/ CpsBranch \/ CpsLazy \/ CpsBlock \/ CpsUnary \/ CpsLoop

\* cps_seq over the operands of an expression, those inside a place first
\* (cps_place). A value followed by a recursing one is bound to a temporary.
LaterRecurses(b, t, i) == \E j \in DOMAIN t.kids : i < j /\ b[t.kids[j]].rec
Stable(b, t, i) == i <= t.places /\ b[t.kids[i]].kind = "lit"
\* Mutant: only the values of a place are bound.
BoundMutant(b, t, i) == ~Stable(b, t, i) /\ i <= t.places
Bound(b, t, i) == ~Stable(b, t, i) /\ (i <= t.places \/ LaterRecurses(b, t, i))

SeqEnd ==
    /\ now.i > Len(This.kids)
    /\ IF This.kind = "rec"
       THEN With(Emit(now.code \o Perform(body, now.at)), Cont("called", now.at, 0, <<>>))
       ELSE now' = Apply(now.code \o Perform(body, now.at)) /\ UNCHANGED conts
SeqInline ==
    /\ now.i <= Len(This.kids)
    /\ ~body[Kid(now.i)].rec /\ ~Bound(body, This, now.i)
    /\ now' = Seq_(now.at, now.i + 1, now.code \o Splice(body, conts, Kid(now.i)))
    /\ UNCHANGED conts
SeqBind ==
    /\ now.i <= Len(This.kids)
    /\ ~body[Kid(now.i)].rec /\ Bound(body, This, now.i)
    /\ With(Emit(Splice(body, conts, Kid(now.i))), Cont("temp", now.at, now.i, now.code))
SeqRecurse ==
    /\ now.i <= Len(This.kids)
    /\ body[Kid(now.i)].rec
    /\ With(Cps(Kid(now.i)), Cont("operand", now.at, now.i, now.code))
CpsSeq == now.do = "seq" /\ (SeqEnd \/ SeqInline \/ SeqBind \/ SeqRecurse)

\* cps_stmts: the statement `i` of a block, the last one being its value.
IsValue(t, i) == t.kind = "block" /\ i = Len(t.kids)
CpsStmts ==
    /\ now.do = "stmts"
    /\ \/ /\ now.i > Len(This.kids)
          /\ now' = Apply(UnitCode) /\ UNCHANGED conts
       \/ /\ now.i <= Len(This.kids) /\ IsValue(This, now.i)
          /\ now' = Cps(Kid(now.i)) /\ UNCHANGED conts
       \/ /\ now.i <= Len(This.kids) /\ ~IsValue(This, now.i) /\ ~body[Kid(now.i)].rec
          /\ With(Emit(Splice(body, conts, Kid(now.i))), Cont("rest", now.at, now.i, <<>>))
       \/ /\ now.i <= Len(This.kids) /\ ~IsValue(This, now.i) /\ body[Kid(now.i)].rec
          /\ With(Cps(Kid(now.i)), Cont("stmt", now.at, now.i, <<>>))

\* The entry point of a loop. A range gives the item it stands at and moves on
\* at the end of the turn (`advance`); an iterator moves on by itself.
Item(n, turn) == <<Code("next", n, Unit, turn, <<>>)>>
EnterLoop ==
    /\ now.do = "enter"
    /\ \/ This.kind = "while" /\ With(Cps(Kid(1)), Cont("while", now.at, 0, <<>>))
       \/ This.kind = "loop" /\ With(Cps(Kid(1)), Cont("next", now.at, 0, <<>>))
       \/ /\ This.kind = "range"
          /\ With(Emit(Item(now.at, K.i)), Cont("step", now.at, 0, <<>>))
       \/ /\ This.kind = "for"
          /\ now' = Emit(Item(now.at, K.i))
          /\ conts' = Append(Append(Below, Moved(K)), Cont("step", now.at, 0, <<>>))

\* `break`: the continuation after the loop, with a value; `continue` and the
\* end of the loop's body: the entry point again.
BreakTo(loop, code) == now' = Apply(code) /\ conts' = Front(loop) /\ UNCHANGED turns
\* Mutant: a turn ends without moving the range on.
AdvanceMutant(cont) == cont
Advance(cont) == IF body[cont.at].kind = "range" THEN Moved(cont) ELSE cont
\* Mutant: a turn waits below the next one, as a call would.
AgainMutant(loop) ==
    \/ /\ turns < MaxTurns /\ turns' = turns + 1
       /\ now' = Enter(Last(loop).at)
       /\ conts' = Append(loop, Advance(Last(loop)))
    \/ turns = MaxTurns /\ now' = Over /\ UNCHANGED <<conts, turns>>
Again(loop) ==
    \/ /\ turns < MaxTurns /\ turns' = turns + 1
       /\ now' = Enter(Last(loop).at)
       /\ conts' = Append(Front(loop), Advance(Last(loop)))
    \/ turns = MaxTurns /\ now' = Over /\ UNCHANGED <<conts, turns>>

-----------------------------------------------------------------------------
(* A continuation takes the code of a value. *)
\* Mutant: a recursing operand goes before the operands bound so far.
TakeOperandMutant ==
    /\ K.f = "operand"
    /\ IF K.i <= Works.places
       THEN Instead(Emit(now.code), Cont("temp", K.at, K.i, K.acc))
       ELSE Resume(Seq_(K.at, K.i + 1, now.code \o K.acc))
TakeOperand ==
    /\ K.f = "operand"
    /\ IF K.i <= Works.places
       THEN Instead(Emit(now.code), Cont("temp", K.at, K.i, K.acc))
       ELSE Resume(Seq_(K.at, K.i + 1, K.acc \o now.code))
\* Emit the code, and go on in the continuation `f` once it has run.
Runs == [cond |-> "branch", left |-> "lazy", stmt |-> "rest", return |-> "finish",
         next |-> "again", while |-> "whether"]
TakeRun == K.f \in DOMAIN Runs /\ Instead(Emit(now.code), Cont(Runs[K.f], K.at, K.i, <<>>))
Acts == [try |-> "tried", assign |-> "assigned", iter |-> "looped"]
TakeAct == K.f \in DOMAIN Acts
           /\ Instead(Emit(now.code \o Perform(body, K.at)), Cont(Acts[K.f], K.at, K.i, <<>>))
TakeBreak == K.f = "break" /\ now' = Apply(now.code) /\ conts' = Front(Env(conts))
TakeEnd == conts = <<>> /\ With(Emit(now.code), Cont("finish", 0, 0, <<>>))

ApplyCont == /\ now.do = "apply"
             /\ \/ /\ conts # <<>>
                   /\ TakeOperand \/ TakeRun \/ TakeAct \/ TakeBreak
                \/ TakeEnd
             /\ UNCHANGED turns

-----------------------------------------------------------------------------
(* Emitted code runs: constants and effect-free operators silently. *)
Taken(vals, n) == SubSeq(vals, Len(vals) - n + 1, Len(vals))
Left(vals, n) == SubSeq(vals, 1, Len(vals) - n)
Operands(b, item) == IF item.run = "op" THEN Arity(b[item.at]) ELSE 0

RunSilent ==
    LET item == Head(now.code) IN
    /\ now.do = "emit" /\ now.code # <<>> /\ item.run \in {"push", "pure"}
    /\ now' = Running(Tail(now.code),
                      IF item.run = "push" THEN Append(now.vals, item.v)
                      ELSE Append(Left(now.vals, Arity(body[item.at])), Unit))
    /\ UNCHANGED <<conts, turns>>
RunEnd == /\ now.do = "emit" /\ now.code = <<>>
          /\ now' = Value(Last(now.vals)) /\ UNCHANGED <<conts, turns>>

\* What the code can come to: a leaf may leave the body or the loop it is in.
Outcomes(item) ==
    Values \union (IF item.run = "leaf" THEN {"return"} ELSE {})
           \union (IF item.loop # <<>> THEN {"break", "continue"} ELSE {})

RunEvent ==
    LET item == Head(now.code)
        n == Operands(body, item) IN
    /\ now.do = "emit" /\ now.code # <<>> /\ item.run \in {"leaf", "op", "next"}
    /\ \E out \in Outcomes(item) :
          /\ said' = Said(item.run, item.at, Taken(now.vals, n), item.turn, out)
          /\ \/ /\ out \in Values
                /\ now' = Running(Tail(now.code), Append(Left(now.vals, n), out))
                /\ UNCHANGED <<conts, turns>>
             \/ out = "return" /\ now' = Done(out) /\ UNCHANGED <<conts, turns>>
             \/ out = "break" /\ BreakTo(item.loop, UnitCode)
             \/ out = "continue" /\ Again(item.loop)

\* The code has run to a value, and its continuation goes on.
Temp(v) == K.f = "temp" /\ Resume(Seq_(K.at, K.i + 1, Append(K.acc, Push(v))))
Called(v) == K.f = "called" /\ Resume(Apply(<<Push(v)>>))
Branch(v) ==
    /\ K.f = "branch"
    /\ \/ v = "yes" /\ Resume(Cps(Works.kids[2]))
       \/ v = "no" /\ Len(Works.kids) = 3 /\ Resume(Cps(Works.kids[3]))
       \/ v = "no" /\ Len(Works.kids) = 2 /\ Resume(Apply(UnitCode))
Lazy(v) == K.f = "lazy" /\ Resume(IF v = Shortcut(Works.kind) THEN Apply(<<Push(v)>>)
                                  ELSE Cps(Works.kids[2]))
Rest(v) == K.f = "rest" /\ Resume(Stmts(K.at, K.i + 1))
Finished(v) == K.f = "finish" /\ Resume(Done(v))
Tried(v) == K.f = "tried" /\ Resume(IF v = "yes" THEN Apply(<<Push(v)>>) ELSE Done(v))
Assigned(v) == K.f = "assigned" /\ Resume(Apply(UnitCode))
Looped(v) == K.f = "looped" /\ Instead(Enter(K.at), Cont("loop", K.at, 0, <<>>))
Body == Instead(Cps(Works.kids[2]), Cont("next", K.at, 0, <<>>))
Exhausted == now' = Apply(UnitCode) /\ conts' = Front(Env(conts))
Step(v) == K.f \in {"step", "whether"} /\ ((v = "yes" /\ Body) \/ (v = "no" /\ Exhausted))

RunCont == /\ now.do = "value"
           /\ \/ /\ \E v \in {now.vals[1]} :
                       \/ Temp(v) \/ Called(v) \/ Branch(v) \/ Lazy(v) \/ Rest(v) \/ Finished(v)
                       \/ Tried(v) \/ Assigned(v) \/ Looped(v) \/ Step(v)
                 /\ UNCHANGED turns
              \/ K.f = "again" /\ Again(Env(conts))

Return_ == /\ now.do = "done"
           /\ said' = Said("done", 0, now.vals, 0, Unit)
           /\ now' = Over /\ UNCHANGED <<conts, turns>>

-----------------------------------------------------------------------------
(* The rewritten body goes first; after each event it produces, the body    *)
(* itself runs to its next event and both go on.                            *)
Rewritten ==
    /\ said = Nothing
    /\ \/ (CpsExpr \/ CpsSeq \/ CpsStmts \/ EnterLoop) /\ UNCHANGED <<said, turns>>
       \/ (ApplyCont \/ RunSilent \/ RunEnd \/ RunCont) /\ UNCHANGED said
       \/ RunEvent
       \/ Return_
    /\ UNCHANGED <<body, native>>

Agrees == /\ native.do = said.what /\ native.at = said.at
          /\ native.turn = said.turn
Original ==
    /\ said # Nothing
    /\ \/ ~AtEvent(native) /\ native' = Move(body, native) /\ UNCHANGED said
       \/ /\ AtEvent(native) /\ Agrees /\ said.what # "done"
          /\ native' = Went(body, native, said.out) /\ said' = Nothing
    /\ UNCHANGED <<body, now, conts, turns>>

Ended == /\ now.do = "over"
         /\ said = Nothing \/ (said.what = "done" /\ native.do = "done")
         /\ UNCHANGED vars

Init == /\ body \in Bodies /\ said = Nothing /\ native = Eval(Len(body), <<>>)
        /\ now = Cps(Len(body)) /\ conts = <<>> /\ turns = 0
Next == Rewritten \/ Original \/ Ended
Spec == Init /\ [][Next]_vars
-----------------------------------------------------------------------------
(* Where the rewriting may keep an order: `H` holds the expressions whose   *)
(* code may have something left to run when it is handed on.                *)
Hands(b, H, n) ==
    LET t == b[n] IN
    \/ ~t.rec /\ t.kind # "lit"
    \/ t.rec /\ t.kind = "op"
    \/ /\ t.rec /\ t.kind = "pure"
       /\ \E i \in DOMAIN t.kids :
             t.kids[i] \in H /\ (b[t.kids[i]].rec \/ ~LaterRecurses(b, t, i))
    \/ t.rec /\ t.kind \in {"and", "or", "block"} /\ t.kids[Len(t.kids)] \in H
    \/ t.rec /\ t.kind = "if" /\ \E i \in 2..Len(t.kids) : t.kids[i] \in H
    \/ /\ t.kind \in Looping
       /\ \E m \in DOMAIN b : b[m].kind = "break" /\ b[m].loop = n /\ b[m].kids[1] \in H

\* A recursing operand with code left to run, before another recursing operand:
\* `g(f(n - 1)) + f(n - 2)`. cps_seq does not bind it.
Late(b, H, n) ==
    /\ b[n].kind \in {"op", "pure", "rec"}
    /\ \E i \in DOMAIN b[n].kids :
          /\ b[n].places < i /\ b[b[n].kids[i]].rec /\ b[n].kids[i] \in H
          /\ LaterRecurses(b, b[n], i)

KeepsOrder(b, H) == \A n \in DOMAIN b : (Hands(b, H, n) => n \in H) /\ ~Late(b, H, n)
InOrder == \A b \in Bodies : \E H \in SUBSET DOMAIN b : KeepsOrder(b, H)
-----------------------------------------------------------------------------
(* Properties. *)
ItemOK(item) == /\ item.run \in {"push", "pure", "leaf", "op", "next"}
                /\ item.v \in Values /\ item.turn \in Nat
CodeOK(code) == \A i \in DOMAIN code : ItemOK(code[i])

\* Code, values and continuations are what they are called, and a loop waits
\* once however many turns it makes (`tail` in lower_loop).
TypeOK ==
    /\ now.do \in {"cps", "seq", "stmts", "enter", "apply", "emit", "value", "done", "over"}
    /\ CodeOK(now.code)
    /\ \A i \in DOMAIN conts : CodeOK(conts[i].acc) /\ conts[i].i \in Nat
    /\ \A i, j \in DOMAIN conts :
          conts[i].f = "loop" /\ conts[j].f = "loop" /\ conts[i].at = conts[j].at => i = j
    /\ turns \in 0..MaxTurns
    /\ native.do \in {"eval", "value", "leaf", "op", "next", "done"}
    /\ said.out \in Values \union Exits

\* Everything the rewritten body does that a program can see, the body as it
\* was written does at the same point: operands from left to right, `&&` and
\* `||` lazily, statements in order, exits where they stand, an iterator
\* expression once, the same item in each turn, and the end when it ends
\* (cps_expr, cps_stmts, cps_place, cps_seq, lower_loop, LeafRewrite).
SameOrder == said # Nothing /\ AtEvent(native) => Agrees

\* What it does is done on the same values: a temporary, a frame or a shortcut
\* carries the value of the operand it stands for, and the body returns the
\* same result (the values handed to the continuations of cps_seq and `&&`).
SameOperands == said # Nothing /\ AtEvent(native) /\ Agrees => native.vals = said.args

\* When a recursive call suspends the body, no operand whose code the body
\* runs before the call is still waiting to be run by a continuation: what
\* crosses the cut is values (cps_seq binds what a recursing operand follows).
Runnable(item) == item.run \in {"leaf", "op", "next"}
CutCarriesValues ==
    said.what = "op" /\ body[said.at].kind = "rec" =>
        \A i \in DOMAIN conts : \A j \in DOMAIN conts[i].acc : ~Runnable(conts[i].acc[j])
=============================================================================
