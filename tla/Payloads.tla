------------------------------ MODULE Payloads ------------------------------
(***************************************************************************)
(* What each point of the emitted machine carries (`solve_payloads` in     *)
(* src/stack_safe/loop_state.rs). A point is the arm of a lowered loop or  *)
(* of a resumed call. Its code reads bindings and builds the payloads of   *)
(* other points, named by markers until the payloads are known; a payload  *)
(* can only be built from what the point itself has, so the points are     *)
(* solved together.                                                        *)
(***************************************************************************)
EXTENDS Integers, Sequences

CONSTANTS Problems, \* the points of one group each
          Idents    \* the names of bindings, without `r#`

Derived == [name : Idents, from : Idents]
PointType ==
  [scope   : SUBSET Idents,  \* the bindings in scope where the point was cut
   forced  : SUBSET Idents,  \* carried whatever the code mentions
   derived : SUBSET Derived, \* bindings that can be recomputed, and from what
   uses    : SUBSET Idents,  \* the names the code mentions, its own bindings among them
   enters  : SUBSET (Nat \ {0})] \* the points whose markers it mentions

Points(points) == 1..Len(points)

\* Recomputable is the index of a `for` over a range, from the loop's own iterator, which
\* is in scope wherever the index is; it is no index itself.
WellFormed(points) ==
  \A n \in Points(points) :
    LET p == points[n]
    IN /\ p.enters \subseteq Points(points)
       /\ \A d \in p.derived : /\ d.from \in p.scope
                               /\ \A e \in p.derived : d.from # e.name

ASSUME ProblemsAssumption == \A points \in Problems : points \in Seq(PointType) /\ WellFormed(points)
-----------------------------------------------------------------------------
VARIABLES points,    \* the points being solved, loops first
          mentioned, \* the names each point's code is known to need
          solved,    \* what each point carries, so far
          phase,     \* solving, spreading or done
          at,        \* the next point of the pass
          changed    \* something grew in this pass

vars == <<points, mentioned, solved, phase, at, changed>>

(* Every payload is taken to be built. *)
NeededMutant(n) == mentioned[n] \union UNION {solved[m] : m \in Points(points)}

Needed(n) == mentioned[n] \union UNION {solved[m] : m \in points[n].enters}

Recomputed(p, needed) == {d \in p.derived : d.name \in needed}

(* What a binding is recomputed from is not carried for it. *)
CarriedMutant(p, needed) ==
  p.forced \union ((p.scope \intersect needed) \ {d.name : d \in Recomputed(p, needed)})

\* A binding that is recomputed is not carried; what it is recomputed from is.
Carried(p, needed) ==
  LET recomputed == Recomputed(p, needed)
      all == needed \union {d.from : d \in recomputed}
  IN p.forced \union ((p.scope \intersect all) \ {d.name : d \in recomputed})

Init ==
  /\ points \in Problems
  /\ mentioned = [n \in Points(points) |-> points[n].uses]
  /\ solved = [n \in Points(points) |-> {}]
  /\ phase = "solving"
  /\ at = 1
  /\ changed = FALSE

Solve ==
  /\ phase = "solving" /\ at \in Points(points)
  /\ solved' = [solved EXCEPT ![at] = Carried(points[at], Needed(at))]
  /\ changed' = (changed \/ solved' # solved)
  /\ at' = at + 1
  /\ UNCHANGED <<points, mentioned, phase>>

Solved ==
  /\ phase = "solving" /\ at \notin Points(points)
  /\ phase' = "spreading"
  /\ at' = 1
  /\ UNCHANGED <<points, mentioned, solved, changed>>

\* A payload grown in this pass reaches the points whose code builds it.
Spread ==
  /\ phase = "spreading" /\ at \in Points(points)
  /\ mentioned' = [mentioned EXCEPT ![at] = Needed(at)]
  /\ changed' = (changed \/ mentioned' # mentioned)
  /\ at' = at + 1
  /\ UNCHANGED <<points, solved, phase>>

(* What a pass changed is not forgotten for the next. *)
AgainMutant ==
  /\ phase = "spreading" /\ at \notin Points(points)
  /\ IF changed THEN phase' = "solving" /\ at' = 1 ELSE phase' = "done" /\ UNCHANGED at
  /\ UNCHANGED <<points, mentioned, solved, changed>>

(* The next pass starts one too early. *)
AgainEarlyMutant ==
  /\ phase = "spreading" /\ at \notin Points(points)
  /\ IF changed THEN phase' = "solving" /\ at' = 0 ELSE phase' = "done" /\ UNCHANGED at
  /\ changed' = FALSE
  /\ UNCHANGED <<points, mentioned, solved>>

Again ==
  /\ phase = "spreading" /\ at \notin Points(points)
  /\ IF changed THEN phase' = "solving" /\ at' = 1 ELSE phase' = "done" /\ UNCHANGED at
  /\ changed' = FALSE
  /\ UNCHANGED <<points, mentioned, solved>>

Done == phase = "done" /\ UNCHANGED vars

Next == Solve \/ Solved \/ Spread \/ Again \/ Done

Spec == Init /\ [][Next]_vars /\ WF_vars(Next)
-----------------------------------------------------------------------------
\* What the arm of a point rebinds before its code.
Rebound(n) == {d.name : d \in Recomputed(points[n], mentioned[n])}

TypeOK ==
  /\ points \in Seq(PointType)
  /\ mentioned \in [Points(points) -> SUBSET Idents]
  /\ solved \in [Points(points) -> SUBSET Idents]
  /\ phase \in {"solving", "spreading", "done"}
  /\ at \in 1..(Len(points) + 1)
  /\ changed \in BOOLEAN

\* The machine resumes with everything at hand: what the code of a point reads of the
\* bindings it was cut from, and what it needs of them to build the payloads of the points
\* it goes to, is carried or recomputed, and what it is recomputed from is carried.
Available ==
  phase = "done" =>
    \A n \in Points(points) :
      LET p == points[n]
          built == UNION {solved[m] : m \in p.enters}
      IN /\ (p.uses \union built) \intersect p.scope \subseteq solved[n] \union Rebound(n)
         /\ \A d \in Recomputed(p, mentioned[n]) : d.from \in solved[n]

\* Names for each point that hold what its code mentions and, with them, what the payloads
\* it builds carry.
Suffices(points_, needs) ==
  \A n \in Points(points_) :
    /\ points_[n].uses \subseteq needs[n]
    /\ \A m \in points_[n].enters : Carried(points_[m], needs[m]) \subseteq needs[n]

\* Nothing else is carried: a frame keeps a local alive only if code that can still run
\* mentions it.
NothingMore ==
  phase = "done" =>
    \A needs \in [Points(points) -> SUBSET Idents] :
      Suffices(points, needs) =>
        \A n \in Points(points) : solved[n] \subseteq Carried(points[n], needs[n])

\* The passes come to an end.
Settles == <>(phase = "done")
=============================================================================
