------------------------------ MODULE MCDriver ------------------------------
(* Four activations of two members: 1 calls 2, 2 calls 3, 3 calls 4, with   *)
(* plain calls, `?`, tail calls, loop iterations and early returns mixed    *)
(* every way, both carriers' residual conversions, and a vector of frames   *)
(* that grows twice.                                                        *)
EXTENDS Driver

CONSTANTS m1, m2, t1, t2

MCActs == 1..4
MCMemberOf == [a \in MCActs |-> IF a \in {1, 4} THEN m1 ELSE m2]
MCResults == 0..4
MCOk == 0..2
MCFromResidual ==
  [t \in {t1, t2} |-> [r \in MCResults |-> IF t = t1 \/ r \in MCOk THEN r ELSE 7 - r]]

Call(to) == [kind |-> "call", to |-> to]
Try(to) == [kind |-> "try", to |-> to]
Iterate(to) == [kind |-> "again", to |-> to]
Answer(r) == [kind |-> "done", result |-> r]

\* The end of a script: an order-sensitive value of the results, the last result itself, or an
\* early return as soon as a plain call has answered an error.
Ending(end, a, got) ==
  IF end = "last" THEN Answer(got[Len(got)])
  ELSE Answer((a + 2 * got[1] + got[Len(got)]) % 3)

Script(steps, end) == [steps |-> steps, end |-> end]
Follow(s, a, got) ==
  IF s.end = "early" /\ \E k \in DOMAIN got : got[k] \notin MCOk THEN Answer(4)
  ELSE IF Len(got) < Len(s.steps) THEN s.steps[Len(got) + 1]
  ELSE Ending(s.end, a, got)

MCGots == UNION {[1..n -> MCResults] : n \in 0..2}

Scripts ==
  { <<Script(s1, e1), s2, s3, Script(<<Answer(r)>>, "last")>> :
      s1 \in {<<Try(2), Call(3)>>, <<Call(2), Try(3)>>, <<Try(2), Try(3)>>, <<Call(2)>>},
      e1 \in {"last", "mix", "early"},
      s2 \in {Script(<<Call(3)>>, "last"), Script(<<Try(3)>>, "mix"),
             Script(<<Call(3), Try(4)>>, "mix"), Script(<<Iterate(3)>>, "mix")},
      s3 \in {Script(<<Call(4)>>, "last"), Script(<<Try(4)>>, "mix"), Script(<<Answer(2)>>, "last")},
      r \in {1, 3} }

RECURSIVE Returns(_, _, _, _)
Returns(moves, ret, a, got) ==
  LET mv == moves[a][got]
  IN IF mv.kind = "done" THEN mv.result
     ELSE LET r == Returns(moves, ret, mv.to, <<>>)
          IN CASE mv.kind = "again" -> r
               [] mv.kind = "try" /\ r \notin MCOk -> MCFromResidual[ret[MCMemberOf[a]]][r]
               [] OTHER -> Returns(moves, ret, a, Append(got, r))

\* How deep the calls that are not tail calls nest.
RECURSIVE Nests(_, _)
Nests(p, a) ==
  LET Going == {got \in MCGots : p.moves[a][got].kind # "done"}
      Steps == {<<Parks(p, a, got), p.moves[a][got].to>> : got \in Going}
      Costs == {(IF s[1] THEN 1 ELSE 0) + Nests(p, s[2]) : s \in Steps}
  IN IF Costs = {} THEN 0 ELSE CHOOSE c \in Costs : \A d \in Costs : d <= c

Program(scripts, ret, options) ==
  LET moves  == [a \in MCActs |-> [got \in MCGots |-> Follow(scripts[a], a, got)]]
      native == [a \in MCActs |-> [got \in MCGots |-> Returns(moves, ret, a, got)]]
      p      == [start |-> 1, ret |-> ret, options |-> options, moves |-> moves,
                 native |-> native]
  IN [start |-> 1, ret |-> ret, options |-> options, moves |-> moves, native |-> native,
      depth |-> [a \in MCActs |-> Nests(p, a)]]

MCPrograms ==
  {Program(s, ret, options) :
     s \in Scripts,
     ret \in {[m \in {m1, m2} |-> t2], [m \in {m1, m2} |-> IF m = m1 THEN t1 ELSE t2]},
     options \in BOOLEAN}
=============================================================================
