--------------------------- MODULE PayloadsProofs ---------------------------
(***************************************************************************)
(* For every group of points: once a pass changes nothing, every payload   *)
(* is what the needs of its point make it, and the needs hold the payloads *)
(* the point builds; and no pass adds a name that some solution could do   *)
(* without. That the passes end is left to TLC.                            *)
(***************************************************************************)
EXTENDS Payloads, TLAPS, SequenceTheorems

\* What is known of the points already passed while nothing has changed.
Right(n) == solved[n] = Carried(points[n], Needed(n))
Settled(n) == Needed(n) = mentioned[n]

PassInv ==
  /\ points \in Problems
  /\ \A n \in Points(points) : points[n].uses \subseteq mentioned[n]
  /\ phase = "solving" /\ ~changed => \A n \in 1..(at - 1) : Right(n)
  /\ phase = "spreading" /\ ~changed =>
       (\A n \in Points(points) : Right(n)) /\ \A n \in 1..(at - 1) : Settled(n)
  /\ phase = "done" => \A n \in Points(points) : Right(n) /\ Settled(n)

\* No solution does with less.
Below(needs) ==
  \A n \in Points(points) :
    mentioned[n] \subseteq needs[n] /\ solved[n] \subseteq Carried(points[n], needs[n])
LeastInv == \A needs \in [Points(points) -> SUBSET Idents] : Suffices(points, needs) => Below(needs)

IInv == TypeOK /\ PassInv /\ LeastInv

LEMMA PointsType ==
  ASSUME TypeOK, points \in Problems
  PROVE  /\ Len(points) \in Nat /\ Points(points) = 1..Len(points)
         /\ \A n \in Points(points) : points[n] \in PointType
         /\ WellFormed(points)
         /\ \A n \in Points(points) : points[n].enters \subseteq Points(points)
<1>1. points \in Seq(PointType) /\ WellFormed(points)
  BY ProblemsAssumption
<1>2. Len(points) \in Nat /\ Points(points) = 1..Len(points)
  BY <1>1, LenProperties DEF Points
<1>3. \A n \in Points(points) : points[n] \in PointType
  BY <1>1, <1>2, LenProperties
<1> QED BY <1>1, <1>2, <1>3 DEF WellFormed

\* What a point needs and carries are names.
LEMMA NamesType ==
  ASSUME TypeOK, points \in Problems, NEW n \in Points(points)
  PROVE  /\ Needed(n) \subseteq Idents
         /\ \A needed : Carried(points[n], needed) \subseteq Idents
<1>1. points[n].enters \subseteq Points(points) /\ points[n] \in PointType
  BY PointsType
<1>2. Needed(n) \subseteq Idents
  BY <1>1 DEF TypeOK, Needed
<1>3. \A needed : Carried(points[n], needed) \subseteq Idents
  BY <1>1 DEF Carried, PointType
<1> QED BY <1>2, <1>3

\* The more a point needs, the more it carries.
LEMMA CarriedGrows ==
  ASSUME NEW ps \in Problems, NEW n \in Points(ps), NEW low, NEW high, low \subseteq high
  PROVE  Carried(ps[n], low) \subseteq Carried(ps[n], high)
<1>1. \A d, e \in ps[n].derived : d.from # e.name
  BY ProblemsAssumption DEF WellFormed
<1>2. Recomputed(ps[n], low) \subseteq Recomputed(ps[n], high)
  BY DEF Recomputed
<1>3. ASSUME NEW x \in Carried(ps[n], low) PROVE x \in Carried(ps[n], high)
  <2>1. CASE x \in ps[n].forced
    BY <2>1 DEF Carried
  <2>2. CASE x \notin ps[n].forced
    <3>1. /\ x \in ps[n].scope
          /\ x \in low \/ \E d \in Recomputed(ps[n], low) : x = d.from
          /\ \A d \in Recomputed(ps[n], low) : x # d.name
      BY <1>3, <2>2 DEF Carried
    <3>2. \A d \in Recomputed(ps[n], high) : x # d.name
      BY <1>1, <3>1 DEF Recomputed
    <3> QED BY <1>2, <3>1, <3>2 DEF Carried
  <2> QED BY <2>1, <2>2
<1> QED BY <1>3

\* A step that leaves the points and their sets alone.
LEMMA SamePoints ==
  ASSUME points' = points, mentioned' = mentioned, solved' = solved
  PROVE  \A n : Right(n)' = Right(n) /\ Settled(n)' = Settled(n)
<1>1. \A n : Needed(n)' = Needed(n)
  BY DEF Needed
<1> QED BY <1>1 DEF Right, Settled

LEMMA InitInv == Init => IInv
<1> SUFFICES ASSUME Init PROVE IInv
  OBVIOUS
<1>1. points \in Seq(PointType) /\ Len(points) \in Nat /\ points \in Problems
  BY ProblemsAssumption, LenProperties DEF Init
<1>2. \A n \in Points(points) : points[n] \in PointType
  BY <1>1, LenProperties DEF Points
<1>3. TypeOK
  <2>1. \A n \in Points(points) : points[n].uses \subseteq Idents
    BY <1>2 DEF PointType
  <2>2. at \in 1..(Len(points) + 1)
    BY <1>1 DEF Init
  <2> QED BY <1>1, <2>1, <2>2 DEF Init, TypeOK
<1>4. PassInv
  BY <1>1 DEF Init, PassInv
<1>5. LeastInv
  BY DEF Init, LeastInv, Below, Suffices
<1> QED BY <1>3, <1>4, <1>5 DEF IInv

LEMMA NextType == TypeOK /\ points \in Problems /\ [Next]_vars => TypeOK'
<1> SUFFICES ASSUME TypeOK, points \in Problems, [Next]_vars PROVE TypeOK'
  OBVIOUS
<1>1. Len(points) \in Nat /\ Points(points) = 1..Len(points)
  BY PointsType
<1>2. CASE Solve
  <2>1. Carried(points[at], Needed(at)) \subseteq Idents
    BY <1>2, NamesType DEF Solve
  <2> QED BY <1>1, <1>2, <2>1 DEF Solve, TypeOK
<1>3. CASE Spread
  <2>1. Needed(at) \subseteq Idents
    BY <1>3, NamesType DEF Spread
  <2> QED BY <1>1, <1>3, <2>1 DEF Spread, TypeOK
<1>4. CASE Solved \/ Again
  <2>1. /\ points' = points /\ mentioned' = mentioned /\ solved' = solved
        /\ phase' \in {"solving", "spreading", "done"} /\ changed' \in BOOLEAN
        /\ at' = 1 \/ at' = at
    BY <1>4 DEF Solved, Again, TypeOK
  <2> QED BY <1>1, <2>1 DEF TypeOK
<1>5. CASE Done \/ UNCHANGED vars
  BY <1>5 DEF Done, vars, TypeOK
<1> QED BY <1>2, <1>3, <1>4, <1>5 DEF Next

LEMMA NextPass == TypeOK /\ PassInv /\ [Next]_vars => PassInv'
<1> SUFFICES ASSUME TypeOK, PassInv, [Next]_vars PROVE PassInv'
  OBVIOUS
<1>1. Len(points) \in Nat /\ Points(points) = 1..Len(points) /\ at \in 1..(Len(points) + 1)
  BY PointsType DEF PassInv, TypeOK
<1>2. CASE Solve
  <2>1. points' = points /\ mentioned' = mentioned /\ phase' = "solving" /\ at' = at + 1
    BY <1>2 DEF Solve
  <2>2. ASSUME ~changed' PROVE \A n \in 1..at : Right(n)'
    <3>1. ~changed /\ solved' = solved
      BY <1>2, <2>2 DEF Solve
    <3>2. \A n \in 1..(at - 1) : Right(n)
      BY <1>2, <3>1 DEF Solve, PassInv
    <3>3. Right(at)
      BY <1>2, <3>1 DEF Solve, TypeOK, Right
    <3>4. \A n \in 1..at : Right(n)
      BY <1>1, <3>2, <3>3
    <3> QED BY <2>1, <3>1, <3>4, SamePoints
  <2> QED BY <1>1, <2>1, <2>2 DEF PassInv
<1>3. CASE Solved
  <2>1. at - 1 = Len(points)
    BY <1>1, <1>3 DEF Solved
  <2>2. UNCHANGED <<points, mentioned, solved, changed>> /\ phase = "solving" /\ phase' = "spreading" /\ at' = 1
    BY <1>3 DEF Solved
  <2> QED BY <1>1, <2>1, <2>2, SamePoints DEF PassInv
<1>4. CASE Spread
  <2>1. points' = points /\ solved' = solved /\ phase' = "spreading" /\ at' = at + 1
    BY <1>4 DEF Spread
  <2>2. \A n \in Points(points) : points[n].uses \subseteq mentioned'[n]
    BY <1>4 DEF Spread, PassInv, TypeOK, Needed
  <2>3. ASSUME ~changed'
        PROVE  (\A n \in Points(points) : Right(n)') /\ \A n \in 1..at : Settled(n)'
    <3>1. ~changed /\ mentioned' = mentioned
      BY <1>4, <2>3 DEF Spread
    <3>2. (\A n \in Points(points) : Right(n)) /\ \A n \in 1..(at - 1) : Settled(n)
      BY <1>4, <3>1 DEF Spread, PassInv
    <3>3. Settled(at)
      BY <1>4, <3>1 DEF Spread, TypeOK, Settled
    <3>4. \A n \in 1..at : Settled(n)
      BY <1>1, <3>2, <3>3
    <3> QED BY <2>1, <3>1, <3>2, <3>4, SamePoints
  <2>4. points' \in Problems
    BY <2>1 DEF PassInv
  <2> QED BY <1>1, <2>1, <2>2, <2>3, <2>4 DEF PassInv
<1>5. CASE Again
  <2>1. at - 1 = Len(points)
    BY <1>1, <1>5 DEF Again
  <2>2. UNCHANGED <<points, mentioned, solved>> /\ phase = "spreading"
    BY <1>5 DEF Again
  <2>3. CASE changed
    <3>1. phase' = "solving" /\ at' = 1
      BY <1>5, <2>3 DEF Again
    <3> QED BY <2>2, <3>1 DEF PassInv
  <2>4. CASE ~changed
    <3>1. phase' = "done"
      BY <1>5, <2>4 DEF Again
    <3> QED BY <1>1, <2>1, <2>2, <2>4, <3>1, SamePoints DEF PassInv
  <2> QED BY <2>3, <2>4
<1>6. CASE Done \/ UNCHANGED vars
  <2>1. UNCHANGED <<points, mentioned, solved, phase, at, changed>>
    BY <1>6 DEF Done, vars
  <2> QED BY <2>1, SamePoints DEF PassInv
<1> QED BY <1>2, <1>3, <1>4, <1>5, <1>6 DEF Next

LEMMA NextLeast == TypeOK /\ PassInv /\ LeastInv /\ [Next]_vars => LeastInv'
<1> SUFFICES ASSUME TypeOK, PassInv, LeastInv, [Next]_vars PROVE LeastInv'
  OBVIOUS
<1>1. points' = points /\ points \in Problems
  BY DEF Next, Solve, Solved, Spread, Again, Done, vars, PassInv
<1> SUFFICES ASSUME NEW needs \in [Points(points) -> SUBSET Idents], Suffices(points, needs)
             PROVE  Below(needs)'
  BY <1>1 DEF LeastInv
<1>2. Below(needs)
  BY DEF LeastInv
<1>3. ASSUME NEW n \in Points(points) PROVE Needed(n) \subseteq needs[n]
  <2>1. \A m \in points[n].enters : solved[m] \subseteq needs[n]
    BY <1>1, <1>2, PointsType DEF Below, Suffices
  <2> QED BY <1>2, <2>1 DEF Below, Needed
<1>4. CASE Solve
  <2>1. Carried(points[at], Needed(at)) \subseteq Carried(points[at], needs[at])
    BY <1>1, <1>3, <1>4, CarriedGrows DEF Solve
  <2>2. \A n \in Points(points) : solved'[n] \subseteq Carried(points[n], needs[n])
    BY <1>2, <1>4, <2>1 DEF Solve, TypeOK, Below
  <2> QED BY <1>1, <1>2, <1>4, <2>2 DEF Solve, Below
<1>5. CASE Spread
  <2>1. \A n \in Points(points) : mentioned'[n] \subseteq needs[n]
    BY <1>2, <1>3, <1>5 DEF Spread, TypeOK, Below
  <2> QED BY <1>1, <1>2, <1>5, <2>1 DEF Spread, Below
<1>6. CASE Solved \/ Again \/ Done \/ UNCHANGED vars
  BY <1>1, <1>2, <1>6 DEF Solved, Again, Done, vars, Below
<1> QED BY <1>4, <1>5, <1>6 DEF Next

LEMMA Inductive == Init /\ [][Next]_vars => []IInv
<1>1. IInv /\ [Next]_vars => IInv'
  BY NextType, NextPass, NextLeast DEF IInv, PassInv
<1> QED BY InitInv, <1>1, PTL

\* The passes stay inside the names and the points of the group.
THEOREM PayloadsTypeOK == Spec => []TypeOK
<1>1. IInv => TypeOK BY DEF IInv
<1> QED BY <1>1, Inductive, PTL DEF Spec

\* What the code of a point reads, and what the payloads it builds hold, is at hand when
\* the machine gets there, for every group of points.
THEOREM PayloadsAvailable == Spec => []Available
<1>1. IInv => Available
  <2> SUFFICES ASSUME IInv, phase = "done", NEW n \in Points(points)
               PROVE  LET p == points[n]
                          built == UNION {solved[m] : m \in p.enters}
                      IN /\ (p.uses \union built) \intersect p.scope \subseteq solved[n] \union Rebound(n)
                         /\ \A d \in Recomputed(p, mentioned[n]) : d.from \in solved[n]
    BY DEF Available
  <2>1. /\ solved[n] = Carried(points[n], mentioned[n]) /\ Needed(n) = mentioned[n]
        /\ points[n].uses \subseteq mentioned[n]
    BY DEF IInv, PassInv, Right, Settled
  <2>2. UNION {solved[m] : m \in points[n].enters} \subseteq mentioned[n]
    BY <2>1 DEF Needed
  <2>3. \A x \in mentioned[n] \intersect points[n].scope : x \in solved[n] \/ x \in Rebound(n)
    BY <2>1 DEF Carried, Rebound
  <2>4. points \in Problems /\ WellFormed(points)
    BY ProblemsAssumption DEF IInv, PassInv
  <2>5. \A d \in Recomputed(points[n], mentioned[n]) :
          d.from \in points[n].scope /\ \A e \in Recomputed(points[n], mentioned[n]) : d.from # e.name
    BY <2>4 DEF WellFormed, Recomputed
  <2>6. \A d \in Recomputed(points[n], mentioned[n]) : d.from \in solved[n]
    BY <2>1, <2>5 DEF Carried
  <2> QED BY <2>1, <2>2, <2>3, <2>6
<1> QED BY <1>1, Inductive, PTL DEF Spec

\* No payload holds what every solution could do without, for every group of points.
THEOREM PayloadsNothingMore == Spec => []NothingMore
<1>1. IInv => NothingMore
  BY DEF IInv, LeastInv, Below, NothingMore
<1> QED BY <1>1, Inductive, PTL DEF Spec
=============================================================================
