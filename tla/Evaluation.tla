----------------------------- MODULE Evaluation -----------------------------
(* The order in which Rust evaluates a body, as a machine with a stack of   *)
(* the expressions under way. A state says what the machine does, and on     *)
(* which values; what it does that a program can see is an event: the code   *)
(* of a leaf, the code of an expression on its operands, the next item of a   *)
(* loop, the end. Between events it moves by itself (`Move`), and an event   *)
(* takes its outcome from outside (`Went`).                                  *)
EXTENDS Programs

Doing(do, at, vals, turn, pending) ==
    [do |-> do, at |-> at, vals |-> vals, turn |-> turn, pending |-> pending]
Eval(n, pending) == Doing("eval", n, <<>>, 0, pending)
Yield(v, pending) == Doing("value", 0, <<v>>, 0, pending)
End(v) == Doing("done", 0, <<v>>, 0, <<>>)

\* An expression under way: it waits for its `i`-th kid.
Frame(at, i, vals, turn) == [at |-> at, i |-> i, vals |-> vals, turn |-> turn]

AtEvent(s) == s.do \in {"leaf", "op", "next", "done"}

\* Start evaluating an expression.
Begin(b, s) ==
    LET t == b[s.at] IN
    IF t.kind = "lit" THEN Yield(Unit, s.pending)
    ELSE IF ~t.rec THEN Doing("leaf", s.at, <<>>, 0, s.pending)
    ELSE IF t.kids = <<>> THEN Doing("op", s.at, <<>>, 0, s.pending)
    ELSE Eval(t.kids[1], Append(s.pending, Frame(s.at, 1, <<>>, 0)))

\* `break` and `continue` of a loop.
LoopAt(pending, loop) == CHOOSE j \in DOMAIN pending : pending[j].at = loop
BreakLoop(pending, loop, v) == Yield(v, SubSeq(pending, 1, LoopAt(pending, loop) - 1))
NextTurn(b, pending, loop) ==
    LET j == LoopAt(pending, loop)
        fr == Frame(loop, 1, <<>>, pending[j].turn + 1)
        around == Append(SubSeq(pending, 1, j - 1), fr)
    IN  IF b[loop].kind \in Iterating THEN Doing("next", loop, <<>>, fr.turn, around)
        ELSE Eval(b[loop].kids[1], around)

\* A value reaches the innermost expression under way, `t` with the frame `fr`.
Operand(t, fr, v, below) ==
    IF fr.i < Len(t.kids)
    THEN Eval(t.kids[fr.i + 1], Append(below, Frame(fr.at, fr.i + 1, Append(fr.vals, v), 0)))
    ELSE IF t.kind = "pure" THEN Yield(Unit, below)
    ELSE Doing("op", fr.at, Append(fr.vals, v), 0, below)

Shortcut(kind) == IF kind = "and" THEN "no" ELSE "yes"

\* The kid that comes after the `i`-th when that had the value `v`, or 0.
Following(t, i, v) ==
    IF t.kind \in {"and", "or"} THEN IF i = 1 /\ v # Shortcut(t.kind) THEN 2 ELSE 0
    ELSE IF t.kind = "if" THEN IF i = 1 /\ v = "yes" THEN 2
                               ELSE IF i = 1 /\ Len(t.kids) = 3 THEN 3 ELSE 0
    ELSE IF t.kind = "while" THEN IF v = "yes" THEN 2 ELSE 0
    ELSE IF i < Len(t.kids) THEN i + 1 ELSE 0

\* What an expression comes to, when its last kid came to `v`.
Comes(t, i, v) ==
    IF t.kind \in {"and", "or", "block"} \/ (t.kind = "if" /\ i > 1) THEN v ELSE Unit

Receive(b, s) ==
    LET fr == s.pending[Len(s.pending)]
        below == SubSeq(s.pending, 1, Len(s.pending) - 1)
        t == b[fr.at]
        v == s.vals[1]
        next == Following(t, fr.i, v)
    IN  IF t.kind \in Strict THEN Operand(t, fr, v, below)
        ELSE IF t.kind = "return" THEN End(v)
        ELSE IF t.kind = "break" THEN BreakLoop(s.pending, t.loop, v)
        ELSE IF t.kind \in Iterating /\ fr.i = 1 THEN Doing("op", fr.at, <<v>>, 0, s.pending)
        ELSE IF t.kind = "loop" \/ (t.kind \in Looping /\ fr.i = 2) THEN NextTurn(b, s.pending, fr.at)
        ELSE IF next # 0 THEN Eval(t.kids[next], Append(below, Frame(fr.at, next, <<>>, fr.turn)))
        ELSE Yield(Comes(t, fr.i, v), below)

Move(b, s) ==
    IF s.do = "eval" THEN Begin(b, s)
    ELSE IF s.pending = <<>> THEN End(s.vals[1]) ELSE Receive(b, s)

\* The event has come to `out`.
Went(b, s, out) ==
    LET t == b[s.at]
        last == Len(s.pending)
    IN  IF out = "return" THEN End(out)
        ELSE IF out = "break" THEN BreakLoop(s.pending, t.loop, Unit)
        ELSE IF out = "continue" THEN NextTurn(b, s.pending, t.loop)
        ELSE IF s.do = "op" /\ t.kind \in Iterating THEN Doing("next", s.at, <<>>, 0, s.pending)
        ELSE IF s.do = "op" /\ t.kind = "try" /\ out = "no" THEN End(out)
        ELSE IF s.do = "op" /\ t.kind = "assign" THEN Yield(Unit, s.pending)
        ELSE IF s.do = "next" /\ out = "yes"
        THEN Eval(t.kids[2], Append(SubSeq(s.pending, 1, last - 1), Frame(s.at, 2, <<>>, s.turn)))
        ELSE IF s.do = "next" THEN Yield(Unit, SubSeq(s.pending, 1, last - 1))
        ELSE Yield(out, s.pending)
=============================================================================
