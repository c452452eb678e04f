------------------------------ MODULE MCContexts ------------------------------
(* Small groups for TLC: one function that recurses in two ways, and pairs that take  *)
(* their parameters in different orders.                                              *)
EXTENDS Contexts

CONSTANTS a, b, s,    \* parameters
          X, Y, Z     \* types

Mut(n) == [name |-> n, ref |-> "mut", type |-> X]
Shared(n, ty) == [name |-> n, ref |-> "shared", type |-> ty]
Arg(f, n) == [form |-> f, of |-> n]
Member(params, binds, calls) == [params |-> params, binds |-> binds, calls |-> calls]

\* Ways to pass on the parameters of one function to another.
ArgsFor(p, forms) ==
  IF p.ref = "mut" THEN {Arg(f, n) : f \in forms, n \in {a, b}}
  ELSE {Arg(f, s) : f \in {"name", "other"}}
NoneTwice(params, args) ==
  \A i, j \in DOMAIN params : i # j /\ params[i].ref = "mut" /\ params[j].ref = "mut"
                              => Disjoint(args[i], args[j])
\* One part is as good as another: the second is only lent beside the first.
FirstPart(args) ==
  \A i \in DOMAIN args : args[i].form = "right" => \E j \in 1..(i - 1) : args[j] = Arg("left", args[i].of)
CallsTo(k, params, forms) ==
  {[callee |-> k, args |-> args] :
     args \in {f \in [DOMAIN params -> UNION {ArgsFor(params[i], forms) : i \in DOMAIN params}] :
                 /\ \A i \in DOMAIN params : f[i] \in ArgsFor(params[i], forms)
                 /\ FirstPart(f)
                 /\ NoneTwice(params, f)}}

Three == <<Mut(a), Mut(b), Shared(s, Y)>>
Alone ==
  {[members |-> <<Member(Three, binds, calls)>>, nonlinear |-> nonlinear] :
     binds \in {{}, {s}}, nonlinear \in BOOLEAN,
     calls \in {{c} : c \in CallsTo(1, Three, {"name", "reborrow", "other"})} \union
               {{c, d} : c \in CallsTo(1, Three, {"name"}), d \in CallsTo(1, Three, {"name"} \union Parts)}}

\* Slots of two types: a place may be of either.
Mixed == <<Mut(a), [Mut(b) EXCEPT !.type = Z], Shared(s, Y)>>
OfTwoTypes ==
  {[members |-> <<Member(Mixed, {}, {c, d})>>, nonlinear |-> TRUE] :
     c \in CallsTo(1, Mixed, {"name"}), d \in CallsTo(1, Mixed, {"name"} \union Parts)}

Orders ==
  {<<Mut(b), Mut(a), Shared(s, Y)>>, <<Shared(s, Y), Mut(a), Mut(b)>>,
   <<Mut(a), Mut(b), Shared(s, Z)>>, <<Mut(a), Shared(s, Y)>>}
Pairs ==
  UNION {{[members |-> <<Member(Three, {}, {c}), Member(order, binds, {d})>>, nonlinear |-> TRUE] :
            binds \in {{}, {s}},
            c \in CallsTo(2, order, {"name"} \union Parts), d \in CallsTo(1, Three, {"name"} \union Parts)} :
           order \in Orders}
Considered == {g \in OfTwoTypes \union Alone \union Pairs : Valid(g)}

\* A member that names its second slot as no other does.
Foreign ==
  [members |-> <<Member(<<Mut(a), Mut(b)>>, {}, {[callee |-> 2, args |-> <<Arg("name", a), Arg("name", b)>>]}),
                 Member(<<Mut(a), Mut(s)>>, {}, {[callee |-> 1, args |-> <<Arg("name", a), Arg("name", s)>>]})>>,
   nonlinear |-> FALSE]

MCStraight == {g \in Considered : Straight(g)} \union {Foreign}
MCCrossing == {g \in Considered : ~Straight(g)}
=============================================================================
