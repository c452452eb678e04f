------------------------------ MODULE Programs ------------------------------
(* The bodies the rewriter cuts. A body is the sequence of its expressions, *)
(* each after its operands, so that the last is the whole; an expression is  *)
(* known by its number. It has a kind:                                       *)
(*   leaf           any code without a recursive call, spliced as it is      *)
(*   lit            a literal, or a path nothing later mentions              *)
(*   rec            a call of a member; its kids are the arguments           *)
(*   op             user code run on operands that are evaluated first: a    *)
(*                  call, an overloaded operator, a method, an index         *)
(*   pure           the same without an effect: a tuple, a field, a cast     *)
(*   and, or, if, block, stmts, return, try, assign, break, while, loop, for *)
(*   range          a `for` over `a..b`, whose item is read off the range    *)
(* A block's value is its last kid, a stmts' value is (). The first `places` *)
(* kids of an op are the values inside the place it works on; `rec` says     *)
(* whether it contains a recursive call, and `loop` is the loop `break` and   *)
(* `continue` in it mean, 0 outside loops.                                    *)
EXTENDS Naturals, Sequences, SequencesExt

Strict == {"op", "pure", "rec", "assign", "try"}
Iterating == {"for", "range"}
Looping == {"while", "loop"} \union Iterating
Unary == {"return", "try", "assign", "break", "loop"}
Binary == {"and", "or", "while"} \union Iterating
Kinds == {"leaf", "lit", "if", "block", "stmts"} \union Strict \union Looping \union Unary \union Binary

Expressions == [kind : Kinds, kids : Seq(Nat), places : Nat, rec : BOOLEAN, loop : Nat]

\* contains_rec
Recurses(b, n) == b[n].kind = "rec" \/ \E i \in DOMAIN b[n].kids : b[b[n].kids[i]].rec

\* The iterator expression of a `for` is outside of the loop.
LoopIn(b, n, i) ==
    IF b[n].kind \in Looping /\ (b[n].kind \in Iterating => i = 2) THEN n ELSE b[n].loop

WellFormed(b) ==
    /\ b \in Seq(Expressions) /\ b # <<>> /\ b[Len(b)].loop = 0
    /\ \A n \in DOMAIN b :
         /\ \A i \in DOMAIN b[n].kids :
              b[n].kids[i] \in 1..(n - 1) /\ b[b[n].kids[i]].loop = LoopIn(b, n, i)
         /\ b[n].rec = Recurses(b, n)
         /\ b[n].places <= Len(b[n].kids) /\ (b[n].kind # "op" => b[n].places = 0)
         /\ b[n].kind \in {"lit", "leaf"} => b[n].kids = <<>>
         /\ b[n].kind \in Unary => Len(b[n].kids) = 1
         /\ b[n].kind \in Binary => Len(b[n].kids) = 2
         /\ b[n].kind = "if" => Len(b[n].kids) \in {2, 3}
         /\ b[n].kind = "break" => b[n].loop # 0

\* The operands the code of an expression takes: a `for` takes its iterator only.
Arity(t) == IF t.kind \in Iterating THEN 1 ELSE Len(t.kids)

Values == {"yes", "no"}
Unit == "no"
Exits == {"return", "break", "continue"}
Said(what, at, args, turn, out) ==
    [what |-> what, at |-> at, args |-> args, turn |-> turn, out |-> out]
Nothing == Said("nothing", 0, <<>>, 0, Unit)
=============================================================================
