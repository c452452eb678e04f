----------------------------- MODULE MCPayloads -----------------------------
EXTENDS Payloads

\* A local, the index of a range loop and its iterator, the local of another branch.
MCIdents == {"x", "y", "i", "it"}
OfIt == [name |-> "i", from |-> "it"]

Loop(enters) ==
  [scope : {{"x"}}, forced : {{"it"}}, derived : {{}}, uses : SUBSET {"x"}, enters : enters]
Inside(enters) ==
  [scope : {{"x", "i", "it"}}, forced : {{}}, derived : {{}, {OfIt}}, uses : SUBSET {"x", "i"}, enters : enters]
After(enters) ==
  [scope : {{"x", "y"}, {"y", "i", "it"}}, forced : {{}}, derived : {{}}, uses : SUBSET {"y", "i"}, enters : enters]

\* The arm of a range loop, one inside it and one of the code after it.
MCProblems ==
  {<<p, q, r>> : p \in Loop({{1, 2}, {2, 3}, {3}}),
                 q \in Inside({{}, {1}, {2}, {1, 3}}),
                 r \in After({{}, {1}, {2}, {2, 3}})}
=============================================================================
