---------------------------- MODULE MCCallGraph -----------------------------
(* Small scopes for TLC: every call graph over four shapes of nesting, and *)
(* every way of writing a call, marking a definition and nesting a         *)
(* container in smaller ones.                                              *)
EXTENDS CallGraph

CONSTANTS a, b, c, d,    \* names
          old, was       \* suffixes

Root(o, n)       == [owner |-> o, path |-> <<>>, name |-> n, inBlock |-> FALSE, marks |-> <<>>]
Inner(o, p, n)   == [Root(o, n) EXCEPT !.path = p]
InBlock(o, p, n) == [Inner(o, p, n) EXCEPT !.inBlock = TRUE]

Shapes ==
  { <<Root(1, a), Root(2, b), Inner(1, <<0>>, c), Inner(1, <<0, 0>>, d)>>,
    <<Root(1, a), Inner(1, <<0>>, b), Inner(1, <<1>>, c), Inner(1, <<0, 0>>, d)>>,
    <<Root(1, a), Root(2, b), Inner(1, <<0>>, c), Inner(2, <<0>>, d)>>,
    <<Root(1, a), Inner(1, <<0>>, b), Inner(1, <<0, 0>>, c), Inner(1, <<0, 0, 0>>, d)>> }

\* An annotated module, impl block or function without options and containers.
Scope(defs, mentions, assoc, trait) ==
  [defs |-> defs, mentions |-> mentions, assoc |-> assoc, trait |-> trait,
   annotated |-> TRUE, given |-> Default, marks |-> <<>>, containers |-> <<>>]

Mention(n, w, r) == [name |-> n, written |-> w, rewritable |-> r]
Called(n) == Mention(n, "bare", TRUE)

Few(S, n) == UNION {kSubset(k, S) : k \in 0..n}

\* What each body may call: the first two bodies make up to two calls, the others one.
CanCall ==
  [defs \in Shapes |-> [i \in 1..4 |->
     {Called(defs[j].name) : j \in {j \in 1..4 : InScope(Scope(defs, <<>>, FALSE, FALSE), i, j)}}]]
Graphs ==
  UNION {{Scope(defs, <<w, x, y, z>>, FALSE, FALSE) :
            w \in Few(CanCall[defs][1], 2), x \in Few(CanCall[defs][2], 2),
            y \in Few(CanCall[defs][3], 1), z \in Few(CanCall[defs][4], 1)} : defs \in Shapes}

\* Two names for three functions, and the ways a call is written.
Shadowing ==
  { <<Root(1, a), Inner(1, <<0>>, a), Inner(1, <<0, 0>>, b)>>,
    <<Root(1, a), Inner(1, <<0>>, b), Inner(1, <<1>>, b)>>,
    <<Root(1, a), Root(2, b), Inner(1, <<0>>, b)>> }
AnyWay ==
  Few({Mention(n, w, TRUE) : n \in {a, b}, w \in {"bare", "onAValue", "inThisModule"}} \union
      {Mention(a, "inAMacro", TRUE)}, 1)
Forms ==
  {Scope(defs, <<x, y, z>>, assoc, FALSE) :
     defs \in Shadowing, assoc \in BOOLEAN, x \in AnyWay, y \in AnyWay, z \in AnyWay}

\* Calls through paths around a cycle of methods.
Paths ==
  LET ways == {Mention(n, "onAValue", r) : n \in {a, b, c}, r \in BOOLEAN}
  IN {Scope(<<Root(1, a), Root(2, b), Root(3, c)>>, <<x, y, z>>, TRUE, FALSE) :
        x \in Few(ways, 2), y \in Few(ways, 1), z \in Few(ways, 1)}

\* Markers: what may be written once, what is refused, and two of them on one item.
Meta(n, v) == [name |-> n, value |-> v]
Raw == <<Meta("use_nonlinear_mut", None)>>
Framed == <<Meta("data_in_frame", None), Meta("original_suffix", old)>>
Readings ==
  {<<>>, <<<<>>>>, <<Raw>>, <<Framed>>, <<Raw, Framed>>, <<Framed, <<Meta("original_suffix", was)>>>>}
Errors ==
  {<<<<Meta(n, v)>>>> : n \in Flags \union {"original_suffix", "unknown"}, v \in {old, Bad, None}}
  \union {<<<<m, m>>>> : m \in {Meta("use_nonlinear_mut", None), Meta("original_suffix", old)}}

\* Two roots and two functions nested in the first, each with its markers.
Marked ==
  {[Scope(<<[Root(1, a) EXCEPT !.marks = k], Root(2, b), [Inner(1, <<0>>, c) EXCEPT !.marks = l],
            [Inner(1, <<0, 0>>, d) EXCEPT !.marks = m]>>,
          <<x, y, z, {Called(d)}>>, FALSE, FALSE) EXCEPT !.given = g, !.marks = h] :
     k \in Readings, l \in Readings, m \in {<<>>, <<Raw>>},
     g \in {Default, [flags |-> {"data_in_frame"}, original_suffix |-> was]}, h \in {<<>>, <<Raw>>},
     x \in {{Called(a), Called(b)}, {Called(c)}}, y \in {{Called(a)}}, z \in {{Called(c)}, {Called(a)}}}
  \union
  {[Scope(<<[Root(1, a) EXCEPT !.marks = k]>>, <<{Called(a)}>>, FALSE, FALSE) EXCEPT !.marks = h] :
     k \in Errors, h \in Errors \union {<<>>}}

\* Trait impls, and containers that come out in every way, with and without a recursion.
Container(u, m, o) == [under |-> u, marks |-> m, outcome |-> o]
Nestings ==
  {[Scope(<<Root(1, a), Root(2, b), Inner(1, <<0>>, c)>>, <<x, y, z>>, assoc, t) EXCEPT
      !.annotated = n, !.containers = cs] :
     x \in {{}, {Called(b)}, {Called(c), Mention(a, "onAValue", TRUE)}}, y \in {{}, {Called(a)}},
     z \in {{}, {Called(a)}, {Called(c)}},
     assoc \in {FALSE}, t \in {FALSE}, n \in BOOLEAN,
     cs \in {<<>>} \union {<<Container(u, m, o)>> :
              u \in {0, 1, 3}, m \in {<<>>, <<Raw>>, <<<<Meta("unknown", None)>>>>}, o \in {"rewritten", "unchanged", "error"}}}
  \union
  {Scope(<<Root(1, a), Root(2, b), Inner(1, <<0>>, c)>>, <<x, y, z>>, TRUE, TRUE) :
     x \in Few({Mention(a, "onAValue", TRUE), Called(c)}, 2), y \in Few({Mention(a, "onAValue", TRUE)}, 1),
     z \in Few({Called(c), Mention(b, "onAValue", TRUE)}, 1)}

\* A container in the body of a marked function.
Covered ==
  {[Scope(<<[Root(1, a) EXCEPT !.marks = k], [Inner(1, <<0>>, b) EXCEPT !.marks = l]>>,
          <<{Called(a), Called(b)}, z>>, FALSE, FALSE) EXCEPT !.marks = h, !.containers = <<Container(u, m, o)>>] :
     k \in {<<>>, <<Raw>>}, l \in {<<>>, <<Framed>>}, h \in {<<>>, <<Framed>>}, z \in {{}, {Called(a)}, {Called(b)}},
     u \in {0, 1, 2}, m \in {<<>>, <<Raw>>}, o \in {"rewritten", "unchanged"}}

\* Two members, and what their bodies declare: in the body of each or of one, or in a block.
Declared ==
  { <<Root(1, a), Root(2, b), Inner(1, <<0>>, c), Inner(2, <<0>>, c)>>,
    <<Root(1, a), Root(2, b), Inner(1, <<0>>, c), InBlock(2, <<0>>, c)>>,
    <<Root(1, a), Root(2, b), InBlock(1, <<0>>, c), InBlock(1, <<1>>, c)>> }
Hoistings ==
  {Scope(defs, <<x, y, v, w>>, FALSE, FALSE) :
     defs \in Declared, x \in {{Called(b)}, {Called(b), Called(c)}}, y \in {{Called(a)}, {Called(a), Called(c)}},
     v \in Few({Called(c), Called(b)}, 1), w \in Few({Called(c), Called(a)}, 1)}

\* Functions of one name, and two ways of calling them from one body.
OneName ==
  { <<Root(1, a), Root(2, b)>>, <<Root(1, a), Inner(1, <<0>>, a)>>, <<Root(1, a), Inner(1, <<0>>, b)>> }
Homonyms ==
  {Scope(defs, <<x, y>>, assoc, FALSE) :
     defs \in OneName, assoc \in BOOLEAN,
     x \in {v \union w : v \in AnyWay, w \in AnyWay}, y \in {v \union w : v \in AnyWay, w \in AnyWay}}

\* The same, for the methods of one impl block.
MCMethods == {s \in Homonyms : s.assoc /\ \A i \in Defs(s) : IsRoot(s, i)}
MCScopes ==
  Hoistings \union (Covered \union (Forms \union (Nestings \union
    (Paths \union (Marked \union (Homonyms \union Graphs))))))
=============================================================================
