----------------------------- MODULE MCLowering -----------------------------
(* Every body two levels deep, and some of three, rewritten and run. *)
EXTENDS Lowering

\* A body out of the bodies of its kids: they keep their order, and their
\* expressions get new numbers.
Node(kind, parts) ==
    LET before(i) == FoldLeft(LAMBDA sum, part : sum + Len(part), 0, SubSeq(parts, 1, i - 1))
        self == before(Len(parts) + 1) + 1
        looped(i) == kind \in Looping /\ (kind \in Iterating => i = 2)
        moved(i) == [m \in DOMAIN parts[i] |->
            [parts[i][m] EXCEPT
                !.kids = [j \in DOMAIN @ |-> @[j] + before(i)],
                !.loop = IF @ # 0 THEN @ + before(i) ELSE IF looped(i) THEN self ELSE 0]]
    IN  Append(FlattenSeq([i \in DOMAIN parts |-> moved(i)]),
               [kind |-> kind, kids |-> [i \in DOMAIN parts |-> before(i + 1)], places |-> 0,
                rec |-> kind = "rec" \/ \E i \in DOMAIN parts : Last(parts[i]).rec, loop |-> 0])
OnPlace(places, parts) ==
    LET b == Node("op", parts) IN [b EXCEPT ![Len(b)].places = places]

Leaf == Node("leaf", <<>>)
Lit == Node("lit", <<>>)
Call == Node("rec", <<>>)
Simple == {Leaf, Call}

UnaryKinds == {"op", "pure", "rec", "stmts", "return", "try", "assign", "break", "loop"}
BinaryKinds == {"op", "pure", "rec", "and", "or", "if", "block", "stmts", "while", "for", "range"}
UnaryOn(T) == {Node(k, <<t>>) : k \in UnaryKinds, t \in T} \union {OnPlace(1, <<t>>) : t \in T}
BinaryOn(S, T) == {Node(k, <<s, t>>) : k \in BinaryKinds, s \in S, t \in T}
                  \union {OnPlace(1, <<s, t>>) : s \in S \union {Lit}, t \in T}

Recursing(T) == {t \in T : Last(t).rec}
Small == Recursing(UnaryOn(Simple) \union BinaryOn(Simple, Simple))
Second == {Node("op", <<Call>>), Node("rec", <<Leaf, Call>>), Node("and", <<Call, Leaf>>),
           Node("try", <<Call>>), Node("loop", <<Node("break", <<Call>>)>>)}
Large == Recursing(UnaryOn(Small) \union BinaryOn(Small, Simple) \union BinaryOn(Simple, Small)
                   \union {Node("if", <<Call, s, Leaf>>) : s \in Small}
                   \union {Node("if", <<Call, Leaf, s>>) : s \in Small}
                   \union {Node("op", <<s, t>>) : s \in Small, t \in Second})

\* A `break` whose value has code left to run after a recursive call, code that
\* may itself leave the loop or start its next turn.
Broken == {Node("loop", <<Node("break", <<Node(k, <<Call, Leaf>>)>>)>>) : k \in {"op", "pure"}}
Leaving == Broken \union UnaryOn(Broken) \union BinaryOn(Broken, Simple)

\* The least set that `Hands` asks for.
HandsOn(b) ==
    LET hands[n \in DOMAIN b] == Hands(b, {m \in 1..(n - 1) : hands[m]}, n)
    IN  {n \in DOMAIN b : hands[n]}

\* No `break` outside a loop, and no late operand.
NoStray(b) == \A n \in DOMAIN b : b[n].kind = "break" => b[n].loop # 0
MCBodies == {b \in Small \union Large \union Leaving : NoStray(b) /\ KeepsOrder(b, HandsOn(b))}
LateBodies == {Node("op", <<Node("op", <<Call>>), Call>>)}
=============================================================================
