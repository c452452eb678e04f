------------------------------ MODULE MCDelegate ------------------------------
(* Traits of up to three methods and two generic parameters, and the impl blocks of them. *)
EXTENDS Delegate

CONSTANTS P, Q,           \* names of generic parameters, and of other things
          vec, byte, one, two, static,
          get, put, len   \* methods

Word(place, name) == [place |-> place, name |-> name]

Method(name, required, receiver, gated, sig) ==
  [name |-> name, required |-> required, receiver |-> receiver, gated |-> gated, sig |-> sig]

\* Every place a parameter's name may stand in, rewritten or not.
Mentions ==
  <<Word("type", vec), Word("type", P), Word("expr", P), Word("lifetime", P), Word("binding", P),
    Word("type", Q), Word("expr", Q), Word("lifetime", Q)>>

\* A constructor the block writes or has to, a method compiled out or not, an accessor.
Methods ==
  {<<Method(get, TRUE, r, FALSE, <<>>), Method(put, q, "ref", g, <<>>),
     Method(len, TRUE, "mut", FALSE, <<>>)>> : r \in Receivers, q, g \in BOOLEAN}
  \cup {<<Method(get, TRUE, r, TRUE, <<>>), Method(put, TRUE, q, FALSE, <<>>),
           Method(len, TRUE, "mut", FALSE, <<>>)>> : r, q \in {"ref", "typed", "none"}}

Orders ==
  {o \in UNION {[1..n -> {get, put, len}] : n \in 0..3} :
     \A i, j \in DOMAIN o : o[i] = o[j] => i = j}

Case(params, methods, written, args) ==
  [flag |-> "nothing", target |-> "field", block |-> "trait", params |-> params,
   methods |-> methods, written |-> written, args |-> args]

Skips == {Case(<<>>, ms, o, <<>>) : ms \in Methods, o \in Orders}

\* A lifetime and a type of one name are two parameters.
Param(kind, name, default) == [kind |-> kind, name |-> name, default |-> default]
Plain == {Param(k, P, None) : k \in Kinds}
Byte == {Param("type", P, <<Word("type", byte)>>), Param("const", P, <<Word("expr", one)>>)}
\* A default that mentions the parameter before it, which every block then passes.
Mentioning ==
  {Param("type", Q, <<Word("type", vec), Word("type", P), Word("expr", P), Word("lifetime", P)>>)}
\* A default that mentions one before it, which a block may leave out as well.
Chained == {<<Param("type", P, <<Word("type", byte)>>), q>> : q \in Mentioning}
Others == {Param(k, Q, None) : k \in Kinds} \cup {Param("type", P, None)}
Lists ==
  {<<>>} \cup {<<p>> : p \in Plain \cup Byte}
  \cup {<<p, q>> : p \in Plain, q \in Mentioning}
  \cup {<<p, q>> : p \in {Param("lifetime", P, None)}, q \in Others}
  \cup {<<p, q>> : p \in Plain, q \in {Param(k, Q, None) : k \in Kinds}}
  \cup Chained
  \cup {<<p, q>> : p \in Byte, q \in {Param("const", Q, <<Word("expr", two)>>)}}

Given == {[kind |-> "type", code |-> <<Word("type", byte)>>],
          [kind |-> "const", code |-> <<Word("expr", two)>>],
          [kind |-> "lifetime", code |-> <<Word("lifetime", static)>>]}

Argument ==
  UNION {[1..n -> Given] : n \in 0..2}
  \cup {<<g, g, g>> : g \in Given}

Generic ==
  {Case(l, <<Method(get, TRUE, r, FALSE, Mentions), Method(len, TRUE, "value", FALSE, <<Word("segment", P)>>)>>, o, a) :
     l \in Lists, r \in {"ref", "none"}, o \in {<<>>, <<len>>, <<len, get>>},
     a \in Argument}

Refused ==
  {[Case(<<>>, ms, <<get>>, <<>>) EXCEPT !.flag = f, !.target = t, !.block = b] :
     ms \in {<<Method(get, TRUE, "ref", FALSE, <<>>)>>},
     f \in {"nothing", "local", "unknown"}, t \in {"field", "expression", "missing"},
     b \in {"trait", "inherent", "sugar"}}

MCCases == Skips \cup Generic \cup Refused
=============================================================================
