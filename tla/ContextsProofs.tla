--------------------------- MODULE ContextsProofs ----------------------------
(***************************************************************************)
(* For every group, of any size and nested to any depth: the analysis and  *)
(* the run keep their types.  If every accepted group is straight, no two  *)
(* slots reach one place, and every body finds in its parameters what      *)
(* native recursion would have given it.  Each activation has its view: the*)
(* slots as it will find them when it runs again: the running one sees the *)
(* slots themselves, a parked one what its callee sees with what it saved  *)
(* put back.                                                               *)
(***************************************************************************)
EXTENDS Contexts, TLAPS, FiniteSetTheorems, SequenceTheorems

-----------------------------------------------------------------------------
(* Numbering the slots. *)

\* Slots are numbered from one, without gaps, each by one parameter.
LEMMA SlotNumbers ==
  ASSUME NEW names, NEW params \in Seq(ParamType)
  PROVE  LET at == SlotPositions(names, params)
         IN /\ at \subseteq DOMAIN params /\ Cardinality(at) \in Nat
            /\ \A i \in at : SlotAt(names, params, i) \in 1..Cardinality(at)
            /\ \A i, j \in at : SlotAt(names, params, i) = SlotAt(names, params, j) => i = j
            /\ \A s \in 1..Cardinality(at) : \E i \in at : SlotAt(names, params, i) = s
<1> DEFINE at == SlotPositions(names, params)
           upTo(i) == {j \in at : j <= i}
           n == Cardinality(at)
           number == [i \in at |-> SlotAt(names, params, i)]
<1>1. Len(params) \in Nat /\ DOMAIN params = 1..Len(params)
  BY LenProperties
<1>2. at \subseteq 1..Len(params)
  BY <1>1 DEF SlotPositions
<1>3. IsFiniteSet(at) /\ n \in Nat
  <2>1. IsFiniteSet(1..Len(params)) /\ at \in SUBSET (1..Len(params))
    BY <1>1, <1>2, FS_Interval
  <2> QED BY <2>1, FS_Subset, FS_CardinalityType
<1>4. \A i \in at : SlotAt(names, params, i) = Cardinality(upTo(i))
  BY DEF SlotPositions, SlotAt
<1> HIDE DEF at
<1>5. ASSUME NEW i \in at
      PROVE  IsFiniteSet(upTo(i)) /\ Cardinality(upTo(i)) \in 1..n
  <2>1. upTo(i) \in SUBSET at /\ i \in upTo(i)
    BY <1>1, <1>2
  <2>2. IsFiniteSet(upTo(i)) /\ Cardinality(upTo(i)) <= n /\ Cardinality(upTo(i)) \in Nat
    BY <1>3, <2>1, FS_Subset, FS_CardinalityType
  <2>3. Cardinality(upTo(i)) # 0
    BY <2>1, <2>2, FS_EmptySet
  <2> QED BY <1>3, <2>2, <2>3
<1>6. ASSUME NEW i \in at, NEW j \in at, i < j
      PROVE  Cardinality(upTo(i)) # Cardinality(upTo(j))
  <2>1. i \in Nat /\ j \in Nat /\ \A k \in at : k \in Nat
    BY <1>1, <1>2
  <2>2. \A k \in upTo(i) : k \in upTo(j)
    BY <1>6, <2>1
  <2>3. j \in upTo(j) /\ j \notin upTo(i)
    BY <1>6, <2>1
  <2> QED BY <1>5, <2>2, <2>3, FS_Subset
<1>7. \A i, j \in at : SlotAt(names, params, i) = SlotAt(names, params, j) => i = j
  <2>1. \A i, j \in at : i < j \/ j < i \/ i = j
    BY <1>1, <1>2
  <2> QED BY <1>4, <1>6, <2>1
<1>8. \A i \in at : SlotAt(names, params, i) \in 1..n
  BY <1>4, <1>5
<1>9. number \in Injection(at, 1..n)
  BY <1>7, <1>8 DEF Injection, IsInjective
<1>10. IsFiniteSet(1..n) /\ Cardinality(1..n) = n
  BY <1>3, FS_Interval
<1>11. number \in Surjection(at, 1..n)
  <2> HIDE DEF number, n
  <2> QED BY <1>9, <1>10, FS_Injection DEF n
<1>12. \A s \in 1..n : \E i \in at : SlotAt(names, params, i) = s
  BY <1>11 DEF Surjection
<1> QED BY <1>1, <1>2, <1>3, <1>7, <1>8, <1>12 DEF at

\* What the slots of a member are.
LEMMA SlotsOfMember ==
  ASSUME NEW names, NEW mb \in MemberType
  PROVE  /\ SplitParams(names, mb) \in Seq(ParamType)
         /\ SlotPositions(names, mb.params) \subseteq DOMAIN mb.params
         /\ \A i \in SlotPositions(names, mb.params) :
              /\ SlotAt(names, mb.params, i) \in DOMAIN SplitParams(names, mb)
              /\ SplitParams(names, mb)[SlotAt(names, mb.params, i)] = mb.params[i]
         /\ \A i, j \in SlotPositions(names, mb.params) :
              SlotAt(names, mb.params, i) = SlotAt(names, mb.params, j) => i = j
         /\ \A s \in DOMAIN SplitParams(names, mb) :
              \E i \in SlotPositions(names, mb.params) : SlotAt(names, mb.params, i) = s
<1> DEFINE at == SlotPositions(names, mb.params)
           split == SplitParams(names, mb)
           n == Cardinality(at)
<1>1. mb.params \in Seq(ParamType)
  BY DEF MemberType
<1>2. /\ at \subseteq DOMAIN mb.params /\ n \in Nat
      /\ \A i \in at : SlotAt(names, mb.params, i) \in 1..n
      /\ \A i, j \in at : SlotAt(names, mb.params, i) = SlotAt(names, mb.params, j) => i = j
      /\ \A s \in 1..n : \E i \in at : SlotAt(names, mb.params, i) = s
  BY <1>1, SlotNumbers
<1>3. DOMAIN split = 1..n /\ \A s \in 1..n :
        split[s] = mb.params[CHOOSE i \in at : SlotAt(names, mb.params, i) = s]
  BY DEF SplitParams
<1> HIDE DEF at, split, n
<1>4. ASSUME NEW i \in at PROVE split[SlotAt(names, mb.params, i)] = mb.params[i]
  <2> DEFINE j == CHOOSE k \in at : SlotAt(names, mb.params, k) = SlotAt(names, mb.params, i)
  <2>1. j \in at /\ SlotAt(names, mb.params, j) = SlotAt(names, mb.params, i)
    OBVIOUS
  <2>2. j = i
    BY <1>2, <2>1
  <2> QED BY <1>2, <1>3, <2>2
<1>5. ASSUME NEW s \in 1..n PROVE split[s] \in ParamType
  <2>1. PICK i \in at : SlotAt(names, mb.params, i) = s
    BY <1>2
  <2>2. mb.params[i] \in ParamType
    BY <1>1, <1>2, <2>1, LenProperties, ElementOfSeq
  <2> QED BY <1>4, <2>1, <2>2
<1>6. split \in Seq(ParamType)
  <2>1. split = [s \in 1..n |-> split[s]]
    BY <1>3 DEF split, SplitParams, n, at
  <2>2. [s \in 1..n |-> split[s]] \in Seq(ParamType)
    BY <1>2, <1>5, IsASeq
  <2> QED BY <2>1, <2>2
<1> QED BY <1>2, <1>3, <1>4, <1>6 DEF at, split
-----------------------------------------------------------------------------
(* Names and positions. *)

Distinct(params) == \A i, j \in DOMAIN params : params[i].name = params[j].name => i = j

LEMMA NamesAre ==
  ASSUME NEW params, NEW n
  PROVE  n \in NamesOf(params) <=> \E i \in DOMAIN params : params[i].name = n
BY DEF NamesOf, ToSet

LEMMA Positions ==
  ASSUME NEW params, Distinct(params), NEW i \in DOMAIN params
  PROVE  PositionOf(params, params[i].name) = i /\ ParamNamed(params, params[i].name) = params[i]
<1>1. \A j \in DOMAIN params : params[j].name = params[i].name => j = i
  BY DEF Distinct
<1>2. \A p \in ToSet(params) : p.name = params[i].name => p = params[i]
  BY <1>1 DEF ToSet
<1>3. params[i] \in ToSet(params)
  BY DEF ToSet
<1> QED BY <1>1, <1>2, <1>3 DEF PositionOf, ParamNamed

\* What the assumption on the groups says of one member.
LEMMA GroupFacts ==
  ASSUME NEW g \in Groups
  PROVE  /\ g \in GroupType /\ 1 \in DOMAIN g.members
         /\ \A m \in DOMAIN g.members :
              /\ g.members[m] \in MemberType /\ g.members[m] \in ToSet(g.members)
              /\ g.members[m].params \in Seq(ParamType)
              /\ Distinct(g.members[m].params)
              /\ g.members[m].calls \subseteq AllCalls(g)
              /\ \A c \in g.members[m].calls :
                   /\ c.callee \in DOMAIN g.members
                   /\ DOMAIN c.args = DOMAIN g.members[c.callee].params
                   /\ \A i \in DOMAIN c.args :
                        Typed(g.members[m], c.args[i], g.members[c.callee].params[i])
                   /\ \A i, j \in DOMAIN c.args :
                        /\ i # j /\ g.members[c.callee].params[i].ref = "mut"
                        /\ c.args[i].form # "other" /\ c.args[j].form # "other"
                        => Disjoint(c.args[i], c.args[j])
<1>1. g \in GroupType /\ Len(g.members) > 0 /\ Valid(g)
  BY GroupsAssumption
<1>2. g.members \in Seq(MemberType)
  BY <1>1 DEF GroupType
<1>3. 1 \in DOMAIN g.members /\ \A m \in DOMAIN g.members : g.members[m] \in MemberType
  BY <1>1, <1>2, LenProperties, ElementOfSeq
<1>4. ASSUME NEW m \in DOMAIN g.members
      PROVE  /\ g.members[m] \in ToSet(g.members) /\ g.members[m].params \in Seq(ParamType)
             /\ g.members[m].calls \subseteq AllCalls(g)
  <2>1. g.members[m] \in ToSet(g.members)
    BY DEF ToSet
  <2>2. g.members[m].params \in Seq(ParamType)
    BY <1>3 DEF MemberType
  <2> QED BY <2>1, <2>2 DEF AllCalls
<1>5. \A m \in DOMAIN g.members : Distinct(g.members[m].params)
  BY <1>1 DEF Valid, Distinct
<1>6. \A m \in DOMAIN g.members : \A c \in g.members[m].calls :
        /\ c.callee \in DOMAIN g.members
        /\ DOMAIN c.args = DOMAIN g.members[c.callee].params
        /\ \A i \in DOMAIN c.args : Typed(g.members[m], c.args[i], g.members[c.callee].params[i])
        /\ \A i, j \in DOMAIN c.args :
             /\ i # j /\ g.members[c.callee].params[i].ref = "mut"
             /\ c.args[i].form # "other" /\ c.args[j].form # "other"
             => Disjoint(c.args[i], c.args[j])
  BY <1>1 DEF Valid
<1> QED BY <1>1, <1>3, <1>4, <1>5, <1>6

\* A promoted name is the same shared reference in every member, not bound again, and
\* passed on as itself.
LEMMA PromotedEverywhere ==
  ASSUME NEW g \in Groups, NEW n \in Promoted(g), NEW m \in DOMAIN g.members
  PROVE  /\ n \notin g.members[m].binds
         /\ \A i \in DOMAIN g.members[m].params : g.members[m].params[i].name = n =>
              /\ g.members[m].params[i].ref = "shared"
              /\ \A c \in AllCalls(g) : c.callee = m => c.args[i] = [form |-> "name", of |-> n]
         /\ n \in NamesOf(g.members[m].params)
<1>1. PICK p \in ToSet(g.members[1].params) : p.name = n /\ Invariant(g, p)
  BY DEF Promoted
<1>2. p.ref = "shared" /\ p \in ToSet(g.members[m].params) /\ n \notin g.members[m].binds
  BY <1>1, GroupFacts DEF Invariant
<1>3. PICK j \in DOMAIN g.members[m].params : p = g.members[m].params[j]
  BY <1>2 DEF ToSet
<1>4. Distinct(g.members[m].params)
  BY GroupFacts
<1>5. \A i \in DOMAIN g.members[m].params : g.members[m].params[i].name = n => i = j
  BY <1>1, <1>3, <1>4 DEF Distinct
<1>6. PositionOf(g.members[m].params, n) = j
  BY <1>1, <1>3, <1>4, Positions
<1>7. \A c \in AllCalls(g) : c.callee = m => c.args[j] = [form |-> "name", of |-> n]
  BY <1>1, <1>6 DEF Invariant
<1> QED BY <1>1, <1>2, <1>3, <1>5, <1>7, NamesAre

\* A slot is a `&mut` parameter or of a promoted name, never both.
LEMMA SlotKind ==
  ASSUME NEW g \in Groups, NEW m \in DOMAIN g.members, NEW i \in DOMAIN g.members[m].params
  PROVE  /\ g.members[m].params[i].ref = "mut" => g.members[m].params[i].name \notin Promoted(g)
         /\ IsSlot(Promoted(g), g.members[m].params[i]) <=>
              g.members[m].params[i].ref = "mut" \/ g.members[m].params[i].name \in Promoted(g)
BY PromotedEverywhere DEF IsSlot

\* A slot of a member is one of its parameters, and such a parameter is a slot.
LEMMA SlotOrigin ==
  ASSUME NEW g \in Groups, NEW m \in DOMAIN g.members,
         NEW s \in DOMAIN SplitParams(Promoted(g), g.members[m])
  PROVE  \E i \in DOMAIN g.members[m].params :
           /\ IsSlot(Promoted(g), g.members[m].params[i])
           /\ SplitParams(Promoted(g), g.members[m])[s] = g.members[m].params[i]
           /\ SlotAt(Promoted(g), g.members[m].params, i) = s
<1> DEFINE mb == g.members[m]
           P == Promoted(g)
<1>1. mb \in MemberType
  BY GroupFacts
<1> HIDE DEF mb, P
<1>2. PICK i \in SlotPositions(P, mb.params) : SlotAt(P, mb.params, i) = s
  BY <1>1, SlotsOfMember DEF mb, P
<1>3. SplitParams(P, mb)[s] = mb.params[i]
  BY <1>1, <1>2, SlotsOfMember
<1> QED BY <1>2, <1>3 DEF SlotPositions, mb, P

LEMMA SlotOfParam ==
  ASSUME NEW g \in Groups, NEW m \in DOMAIN g.members,
         NEW i \in DOMAIN g.members[m].params, IsSlot(Promoted(g), g.members[m].params[i])
  PROVE  g.members[m].params[i].name \in NamesOf(SplitParams(Promoted(g), g.members[m]))
<1> DEFINE mb == g.members[m]
           P == Promoted(g)
<1>1. mb \in MemberType /\ i \in SlotPositions(P, mb.params)
  BY GroupFacts DEF SlotPositions
<1> HIDE DEF mb, P
<1>2. /\ SlotAt(P, mb.params, i) \in DOMAIN SplitParams(P, mb)
      /\ SplitParams(P, mb)[SlotAt(P, mb.params, i)] = mb.params[i]
  BY <1>1, SlotsOfMember
<1> QED BY <1>2, NamesAre DEF mb, P

LEMMA NamedSlot ==
  ASSUME NEW g \in Groups, NEW m \in DOMAIN g.members,
         NEW n \in NamesOf(SplitParams(Promoted(g), g.members[m]))
  PROVE  \E i \in DOMAIN g.members[m].params :
           g.members[m].params[i].name = n /\ IsSlot(Promoted(g), g.members[m].params[i])
<1>1. PICK s \in DOMAIN SplitParams(Promoted(g), g.members[m]) :
        SplitParams(Promoted(g), g.members[m])[s].name = n
  BY NamesAre
<1> QED BY <1>1, SlotOrigin

LEMMA SlotsDistinct ==
  ASSUME NEW g \in Groups, NEW m \in DOMAIN g.members
  PROVE  Distinct(SplitParams(Promoted(g), g.members[m]))
<1> DEFINE own == SplitParams(Promoted(g), g.members[m])
<1> SUFFICES ASSUME NEW s \in DOMAIN own, NEW t \in DOMAIN own, own[s].name = own[t].name
             PROVE  s = t
  BY DEF Distinct
<1>1. PICK i \in DOMAIN g.members[m].params :
        own[s] = g.members[m].params[i] /\ SlotAt(Promoted(g), g.members[m].params, i) = s
  BY SlotOrigin
<1>2. PICK j \in DOMAIN g.members[m].params :
        own[t] = g.members[m].params[j] /\ SlotAt(Promoted(g), g.members[m].params, j) = t
  BY SlotOrigin
<1>3. Distinct(g.members[m].params)
  BY GroupFacts
<1> QED BY <1>1, <1>2, <1>3 DEF Distinct
-----------------------------------------------------------------------------
(* The calls of a straight group. *)

Accepted(g) == ~Refused(g, Promoted(g)) /\ ~Unresolved(g, Promoted(g))
Context(g) == SplitParams(Promoted(g), g.members[1])

\* The argument that goes to slot `s`: that of the parameter the slot is named after.
At(g, c, s) == PositionOf(g.members[c.callee].params, Context(g)[s].name)
ArgFor(g, c, s) == c.args[At(g, c, s)]

LEMMA SameSlots ==
  ASSUME NEW g \in Groups, Accepted(g), NEW m \in DOMAIN g.members
  PROVE  /\ DOMAIN SplitParams(Promoted(g), g.members[m]) = DOMAIN Context(g)
         /\ NamesOf(SplitParams(Promoted(g), g.members[m])) = NamesOf(Context(g))
<1>1. g.members[m] \in ToSet(g.members)
  BY GroupFacts
<1>2. SlotKeys(Promoted(g), g.members[m]) = SlotKeys(Promoted(g), g.members[1])
  BY <1>1 DEF Accepted, Refused
<1>3. \A mb : DOMAIN SlotKeys(Promoted(g), mb) = DOMAIN SplitParams(Promoted(g), mb)
  BY DEF SlotKeys
<1>4. NamesOf(SplitParams(Promoted(g), g.members[m])) = NamesOf(Context(g))
  BY <1>1 DEF Accepted, Unresolved, Context
<1> QED BY <1>2, <1>3, <1>4 DEF Context

LEMMA ContextNames ==
  ASSUME NEW g \in Groups
  PROVE  /\ Context(g) \in Seq(ParamType) /\ Distinct(Context(g))
         /\ \A s \in DOMAIN Context(g) : PositionOf(Context(g), Context(g)[s].name) = s
         /\ \A s \in DOMAIN Context(g) : Context(g)[s].ref = "mut" <=> Context(g)[s].name \notin Promoted(g)
<1>1. 1 \in DOMAIN g.members /\ g.members[1] \in MemberType
  BY GroupFacts
<1>2. Context(g) \in Seq(ParamType)
  BY <1>1, SlotsOfMember DEF Context
<1>3. Distinct(Context(g))
  BY <1>1, SlotsDistinct DEF Context
<1>4. ASSUME NEW s \in DOMAIN Context(g)
      PROVE  Context(g)[s].ref = "mut" <=> Context(g)[s].name \notin Promoted(g)
  <2>1. PICK i \in DOMAIN g.members[1].params :
          IsSlot(Promoted(g), g.members[1].params[i]) /\ Context(g)[s] = g.members[1].params[i]
    BY <1>1, SlotOrigin DEF Context
  <2> QED BY <1>1, <2>1, SlotKind
<1> QED BY <1>2, <1>3, <1>4, Positions

\* What a call passes for a slot of its callee: a binding that is a slot itself.
LEMMA SlotArgument ==
  ASSUME NEW g \in Groups, Accepted(g),
         NEW m \in DOMAIN g.members, NEW c \in g.members[m].calls,
         NEW i \in DOMAIN g.members[c.callee].params,
         IsSlot(Promoted(g), g.members[c.callee].params[i])
  PROVE  /\ c.args[i].form # "other" /\ c.args[i].of \in NamesOf(Context(g))
         /\ c.args[i].of \in NamesOf(g.members[m].params)
         /\ ParamNamed(g.members[m].params, c.args[i].of).ref = g.members[c.callee].params[i].ref
         /\ SlotAt(Promoted(g), g.members[c.callee].params, i) \in DOMAIN Context(g)
<1> DEFINE P == Promoted(g)
           callee == g.members[c.callee]
<1>1. /\ c \in AllCalls(g) /\ c.callee \in DOMAIN g.members /\ i \in DOMAIN c.args
      /\ Typed(g.members[m], c.args[i], callee.params[i])
  BY GroupFacts
<1>2. SlotArgs(g, P, c, "unsupported") = {}
  BY <1>1 DEF Accepted, Refused
<1>3. ClassifyCtxArg(NamesOf(Context(g)), c.args[i]) # "unsupported"
  BY <1>2 DEF SlotArgs, Context
<1>4. c.args[i].form # "other" /\ c.args[i].of \in NamesOf(Context(g))
  BY <1>3 DEF ClassifyCtxArg
<1>5. /\ c.args[i].of \in NamesOf(g.members[m].params)
      /\ ParamNamed(g.members[m].params, c.args[i].of).ref = callee.params[i].ref
  BY <1>1, <1>4 DEF Typed
<1>6. SlotAt(P, callee.params, i) \in DOMAIN Context(g)
  <2>1. callee \in MemberType
    BY <1>1, GroupFacts
  <2>2. i \in SlotPositions(P, callee.params)
    BY DEF SlotPositions
  <2>3. SlotAt(P, callee.params, i) \in DOMAIN SplitParams(P, callee)
    BY <2>1, <2>2, SlotsOfMember
  <2> QED BY <1>1, <2>3, SameSlots
<1> QED BY <1>4, <1>5, <1>6

\* A call of a straight group passes, for each slot, a place inside a slot or the slot itself,
\* to the parameter the slot is named after; and only such a place displaces the slot.
LEMMA StraightCall ==
  ASSUME NEW g \in Groups, Accepted(g), Straight(g),
         NEW m \in DOMAIN g.members, NEW c \in g.members[m].calls, NEW s \in DOMAIN Context(g)
  PROVE  /\ At(g, c, s) \in DOMAIN g.members[c.callee].params
         /\ g.members[c.callee].params[At(g, c, s)].name = Context(g)[s].name
         /\ IsSlot(Promoted(g), g.members[c.callee].params[At(g, c, s)])
         /\ ArgFor(g, c, s).of \notin g.members[m].binds
         /\ ArgFor(g, c, s).form \notin Parts => ArgFor(g, c, s).of = Context(g)[s].name
         /\ ArgFor(g, c, s).form \in Parts => SlotAt(Promoted(g), g.members[c.callee].params, At(g, c, s)) = s
         /\ \A i \in DOMAIN g.members[c.callee].params :
              /\ IsSlot(Promoted(g), g.members[c.callee].params[i])
              /\ c.args[i].form \in Parts
              /\ SlotAt(Promoted(g), g.members[c.callee].params, i) = s
              => i = At(g, c, s)
<1> DEFINE P == Promoted(g)
           own == Context(g)
           params == g.members[c.callee].params
           number(i) == SlotAt(P, params, i)
<1>1. /\ c \in AllCalls(g) /\ c.callee \in DOMAIN g.members /\ Distinct(params)
      /\ 1 \in DOMAIN g.members /\ g.members[m] \in ToSet(g.members)
  BY GroupFacts
<1>2. Distinct(own)
  BY ContextNames
<1>3. own[s].name \in NamesOf(SplitParams(P, g.members[c.callee]))
  <2>1. own[s].name \in NamesOf(own)
    BY NamesAre
  <2> QED BY <1>1, <2>1, SameSlots
<1>4. PICK i \in DOMAIN params : params[i].name = own[s].name /\ IsSlot(P, params[i])
  <2> DEFINE k == c.callee
             n == own[s].name
  <2>1. k \in DOMAIN g.members /\ n \in NamesOf(SplitParams(Promoted(g), g.members[k]))
    BY <1>1, <1>3
  <2> HIDE DEF k, n
  <2>2. \E i \in DOMAIN g.members[k].params :
          g.members[k].params[i].name = n /\ IsSlot(Promoted(g), g.members[k].params[i])
    BY <2>1, NamedSlot
  <2> QED BY <2>2 DEF k, n
<1>5. At(g, c, s) = i
  BY <1>1, <1>4, Positions DEF At
<1>6. \A j \in DOMAIN params : params[j].name = own[s].name => j = i
  BY <1>1, <1>4 DEF Distinct
<1>7. ASSUME NEW j \in DOMAIN params, IsSlot(P, params[j]), params[j].ref = "mut"
      PROVE  /\ c.args[j].form \notin Parts => c.args[j].of = params[j].name
             /\ c.args[j].form \in Parts => own[number(j)].name = params[j].name
             /\ c.args[j].of \notin g.members[m].binds
  <2>1. c.args[j].form # "other" /\ number(j) \in DOMAIN own
    BY <1>7, SlotArgument
  <2>2. /\ c.args[j].form \in {"name", "reborrow"} => c.args[j].of = params[j].name
        /\ c.args[j].form \in Parts => own[number(j)].name = params[j].name
        /\ c.args[j].form # "other" => c.args[j].of \notin g.members[m].binds
    BY <1>1, <1>7, <2>1 DEF Straight, Context
  <2>3. c.args[j].form \in Forms
    <3>1. g.members[m].calls \subseteq CallType
      BY GroupFacts DEF MemberType
    <3>2. c.args \in Seq(ArgType) /\ j \in DOMAIN c.args
      BY <3>1, GroupFacts DEF CallType
    <3>3. c.args[j] \in ArgType
      BY <3>2, LenProperties, ElementOfSeq
    <3> QED BY <3>3 DEF ArgType
  <2> QED BY <2>1, <2>2, <2>3, PartsAssumption DEF Forms
<1>8. ASSUME NEW j \in DOMAIN params, IsSlot(P, params[j]), params[j].ref # "mut"
      PROVE  /\ c.args[j].form = "name" /\ c.args[j].of = params[j].name
             /\ params[j].name \notin g.members[m].binds
  <2>1. params[j].name \in P
    BY <1>8 DEF IsSlot
  <2>2. c.args[j] = [form |-> "name", of |-> params[j].name]
    BY <1>1, <2>1, PromotedEverywhere
  <2>3. params[j].name \notin g.members[m].binds
    BY <2>1, PromotedEverywhere
  <2> QED BY <2>2, <2>3
<1>9. c.args[i].of \notin g.members[m].binds /\ (c.args[i].form \notin Parts => c.args[i].of = own[s].name)
  BY <1>4, <1>7, <1>8
<1>10. ASSUME NEW j \in DOMAIN params, IsSlot(P, params[j]), c.args[j].form \in Parts
       PROVE  number(j) \in DOMAIN own /\ own[number(j)].name = params[j].name
  <2>1. params[j].ref = "mut"
    BY <1>8, <1>10, PartsAssumption
  <2> QED BY <1>7, <1>10, <2>1, SlotArgument
<1>11. c.args[i].form \in Parts => number(i) = s
  <2> SUFFICES ASSUME c.args[i].form \in Parts PROVE number(i) = s
    OBVIOUS
  <2>1. number(i) \in DOMAIN own /\ own[number(i)].name = own[s].name
    BY <1>4, <1>10
  <2> QED BY <1>2, <2>1 DEF Distinct
<1>12. \A j \in DOMAIN params :
         IsSlot(P, params[j]) /\ c.args[j].form \in Parts /\ number(j) = s => j = i
  BY <1>6, <1>10
<1> QED BY <1>4, <1>5, <1>9, <1>11, <1>12 DEF ArgFor
-----------------------------------------------------------------------------
(* Types. *)

Places == {"outer", "local"} \union Parts \union Names \union Nat
Bindings == UNION {[D -> Seq(Places)] : D \in SUBSET Names}
Frame ==
  [member : DOMAIN group.members, entered : BOOLEAN, native : Bindings, payload : Bindings,
   saved : SUBSET (Nat \X Seq(Places))]

\* A frame binds the parameters of its member, in the slots or in its payload.
Binds(frame) ==
  /\ DOMAIN frame.native = NamesOf(group.members[frame.member].params)
  /\ DOMAIN frame.payload = DOMAIN frame.native \ NamesOf(context)

Analysed ==
  /\ Accepted(group)
  /\ promoted = Promoted(group) /\ context = Context(group) /\ raw = RawSlots(group, promoted)

TypeInv ==
  /\ TypeOK
  /\ group \in Groups
  /\ status \in {"written", "refused"} => promoted = {} /\ context = <<>> /\ raw = {}
  /\ status \in {"ready", "running", "ended"} => Analysed
  /\ status # "running" => slots = <<>> /\ stack = <<>>
  /\ status = "running" =>
       /\ slots \in [DOMAIN context -> Seq(Places)]
       /\ stack \in Seq(Frame)
       /\ \A k \in DOMAIN stack : Binds(stack[k])

LEMMA PlaceTypes ==
  ASSUME NEW n \in Names, Len(stack) \in Nat
  PROVE  /\ Outer(n) \in Seq(Places) /\ Local(n) \in Seq(Places)
         /\ \A p \in Seq(Places), part \in Parts : Inside(p, part) \in Seq(Places)
<1>1. /\ "outer" \in Places /\ "local" \in Places /\ Parts \subseteq Places /\ n \in Places /\ Len(stack) \in Places
  BY DEF Places
<1> QED BY <1>1, AppendProperties DEF Outer, Local, Inside

\* The running activation.
LEMMA AtTop ==
  ASSUME TypeInv, status = "running"
  PROVE  /\ Analysed /\ group \in Groups
         /\ Len(stack) \in Nat \ {0} /\ DOMAIN stack = 1..Len(stack)
         /\ Top \in Frame /\ Binds(Top) /\ Top.saved = {}
         /\ Top.member \in DOMAIN group.members /\ Running = group.members[Top.member]
<1>1. stack \in Seq(Frame) /\ stack # <<>> /\ Analysed /\ group \in Groups
  BY DEF TypeInv, TypeOK
<1>2. Len(stack) \in Nat \ {0} /\ DOMAIN stack = 1..Len(stack)
  BY <1>1, EmptySeq, LenProperties
<1>3. Top \in Frame /\ Binds(Top) /\ Top.saved = {}
  BY <1>1, <1>2, ElementOfSeq DEF Top, TypeInv, TypeOK
<1> QED BY <1>1, <1>2, <1>3 DEF Frame, Running

\* The slots are named after parameters, and a name of a slot has its position.
LEMMA SlotOfName ==
  ASSUME TypeInv, Analysed, NEW n \in NamesOf(context)
  PROVE  SlotNamed(n) \in DOMAIN context /\ context[SlotNamed(n)].name = n
BY NamesAre DEF SlotNamed, PositionOf

\* What a name of a parameter refers to is a place.
LEMMA Referred ==
  ASSUME TypeInv, status = "running", NEW n \in NamesOf(Running.params)
  PROVE  n \in Names /\ Sees(n) \in Seq(Places) /\ Native(n) \in Seq(Places)
<1>1. /\ Top \in Frame /\ Binds(Top) /\ Running = group.members[Top.member] /\ Len(stack) \in Nat
      /\ Top.member \in DOMAIN group.members /\ group \in Groups /\ Analysed
  BY AtTop
<1>2. n \in Names
  <2>1. Running.params \in Seq(ParamType)
    BY <1>1, GroupFacts
  <2>2. PICK i \in DOMAIN Running.params : Running.params[i].name = n
    BY NamesAre
  <2>3. Running.params[i] \in ParamType
    BY <2>1, <2>2, LenProperties, ElementOfSeq
  <2> QED BY <2>2, <2>3 DEF ParamType
<1>3. Top.native \in Bindings /\ Top.payload \in Bindings
  BY <1>1 DEF Frame
<1>4. Top.native[n] \in Seq(Places) /\ (n \notin NamesOf(context) => Top.payload[n] \in Seq(Places))
  BY <1>1, <1>3 DEF Binds, Bindings
<1>5. IsContext(n) => slots[SlotNamed(n)] \in Seq(Places)
  BY <1>1, SlotOfName DEF IsContext, TypeInv
<1>6. Local(n) \in Seq(Places)
  BY <1>1, <1>2, PlaceTypes
<1> QED BY <1>2, <1>4, <1>5, <1>6 DEF Sees, Native, IsContext

\* So is what an argument refers to.
LEMMA ArgumentPlace ==
  ASSUME TypeInv, status = "running", NEW c \in Running.calls, NEW i \in DOMAIN c.args
  PROVE  /\ Value(c.args[i], Sees(c.args[i].of)) \in Seq(Places)
         /\ Value(c.args[i], Native(c.args[i].of)) \in Seq(Places)
         /\ c.args[i].form # "other" => c.args[i].of \in NamesOf(Running.params)
<1>1. /\ Top.member \in DOMAIN group.members /\ group \in Groups /\ Len(stack) \in Nat
      /\ Running = group.members[Top.member]
  BY AtTop
<1>2. Typed(Running, c.args[i], group.members[c.callee].params[i]) /\ Running \in MemberType
  BY <1>1, GroupFacts
<1>3. c.args[i].of \in Names
  <2>1. c.args \in Seq(ArgType)
    BY <1>2 DEF MemberType, CallType
  <2>2. c.args[i] \in ArgType
    BY <2>1, LenProperties, ElementOfSeq
  <2> QED BY <2>2 DEF ArgType
<1>4. c.args[i].form # "other" => c.args[i].of \in NamesOf(Running.params)
  BY <1>2 DEF Typed
<1> QED BY <1>1, <1>3, <1>4, Referred, PlaceTypes DEF Value

\* A call only displaces slots that hold a pointer, by places.
LEMMA SwapTypes ==
  ASSUME TypeInv, status = "running", NEW c \in Running.calls
  PROVE  /\ SwappedSlots(c) \subseteq raw /\ raw \subseteq DOMAIN context
         /\ Swapped(c) \in [DOMAIN context -> Seq(Places)]
<1>1. /\ Top.member \in DOMAIN group.members /\ group \in Groups /\ Analysed
      /\ Running = group.members[Top.member]
  BY AtTop
<1>2. c \in AllCalls(group) /\ c.callee \in DOMAIN group.members
      /\ DOMAIN c.args = DOMAIN group.members[c.callee].params
  BY <1>1, GroupFacts
<1>3. raw = UNION {{SlotAt(promoted, group.members[d.callee].params, i) : i \in SlotArgs(group, promoted, d, "derived")} :
                     d \in AllCalls(group)}
  BY <1>1 DEF Analysed, RawSlots
<1>4. SwappedSlots(c) \subseteq raw
  BY <1>2, <1>3 DEF SwappedSlots, Swaps
<1>5. raw \subseteq DOMAIN context
  BY DEF TypeInv, TypeOK
<1>6. DOMAIN slots = DOMAIN context /\ \A s \in DOMAIN context : slots[s] \in Seq(Places)
  BY DEF TypeInv
<1>7. ASSUME NEW s \in SwappedSlots(c)
      PROVE  Value(c.args[SwapFor(c, s)], Sees(c.args[SwapFor(c, s)].of)) \in Seq(Places)
  <2>1. SwapFor(c, s) \in Swaps(c)
    BY DEF SwappedSlots, SwapFor
  <2>2. SwapFor(c, s) \in DOMAIN c.args
    BY <1>2, <2>1 DEF Swaps, SlotArgs
  <2> QED BY <2>2, ArgumentPlace
<1>8. Swapped(c) \in [DOMAIN context -> Seq(Places)]
  BY <1>6, <1>7 DEF Swapped
<1> QED BY <1>4, <1>5, <1>8

\* A callee's frame.
LEMMA EnteredType ==
  ASSUME TypeInv, status = "running", NEW c \in Running.calls
  PROVE  /\ Entered(c) \in Frame /\ Binds(Entered(c))
         /\ Entered(c).saved = {} /\ Entered(c).member = c.callee
<1> DEFINE params == group.members[c.callee].params
           given(n) == c.args[PositionOf(params, n)]
<1>1. /\ Top.member \in DOMAIN group.members /\ group \in Groups
      /\ Running = group.members[Top.member]
  BY AtTop
<1>2. /\ c.callee \in DOMAIN group.members /\ params \in Seq(ParamType)
      /\ DOMAIN c.args = DOMAIN params
  BY <1>1, GroupFacts
<1>3. NamesOf(params) \subseteq Names
  <2> SUFFICES ASSUME NEW n \in NamesOf(params) PROVE n \in Names
    OBVIOUS
  <2>1. PICK i \in DOMAIN params : params[i].name = n
    BY NamesAre
  <2>2. params[i] \in ParamType
    BY <1>2, <2>1, LenProperties, ElementOfSeq
  <2> QED BY <2>1, <2>2 DEF ParamType
<1>4. ASSUME NEW n \in NamesOf(params)
      PROVE  /\ Value(given(n), Native(given(n).of)) \in Seq(Places)
             /\ Value(given(n), Sees(given(n).of)) \in Seq(Places)
  <2>1. PositionOf(params, n) \in DOMAIN c.args
    BY <1>2, NamesAre DEF PositionOf
  <2> QED BY <2>1, ArgumentPlace
<1> HIDE DEF params, given
<1>5. [n \in NamesOf(params) |-> Value(given(n), Native(given(n).of))] \in Bindings
  BY <1>3, <1>4 DEF Bindings
<1>6. [n \in NamesOf(params) \ NamesOf(context) |-> Value(given(n), Sees(given(n).of))] \in Bindings
  <2> DEFINE D == NamesOf(params) \ NamesOf(context)
  <2>1. D \in SUBSET Names /\ \A n \in D : Value(given(n), Sees(given(n).of)) \in Seq(Places)
    BY <1>3, <1>4
  <2> HIDE DEF D
  <2>2. [n \in D |-> Value(given(n), Sees(given(n).of))] \in [D -> Seq(Places)]
    BY <2>1
  <2>3. [n \in D |-> Value(given(n), Sees(given(n).of))] \in Bindings
    BY <2>1, <2>2 DEF Bindings
  <2> QED BY <2>3 DEF D
<1>7. Entered(c) = [member  |-> c.callee, entered |-> TRUE,
                    native  |-> [n \in NamesOf(params) |-> Value(given(n), Native(given(n).of))],
                    payload |-> [n \in NamesOf(params) \ NamesOf(context) |->
                                   Value(given(n), Sees(given(n).of))],
                    saved   |-> {}]
  BY DEF Entered, params, given
<1> QED BY <1>2, <1>5, <1>6, <1>7 DEF Frame, Binds, params

LEMMA AnalyseTypes == TypeInv /\ Analyse => TypeInv'
<1> SUFFICES ASSUME TypeInv, Analyse PROVE TypeInv'
  OBVIOUS
<1>1. group \in Groups /\ group' = group /\ status = "written" /\ slots = <<>> /\ stack = <<>>
      /\ slots' = slots /\ stack' = stack
  BY DEF TypeInv, Analyse
<1>2. CASE status' = "refused" /\ UNCHANGED <<promoted, context, raw>>
  BY <1>1, <1>2 DEF TypeInv, TypeOK
<1>3. CASE /\ Accepted(group) /\ status' = "ready" /\ promoted' = Promoted(group)
           /\ context' = Context(group) /\ raw' = RawSlots(group, Promoted(group))
  <2>1. context' \in Seq(ParamType)
    BY <1>1, <1>3, ContextNames
  <2>2. promoted' \subseteq Names
    <3> SUFFICES ASSUME NEW n \in Promoted(group) PROVE n \in Names
      BY <1>3
    <3>1. 1 \in DOMAIN group.members /\ group.members[1].params \in Seq(ParamType)
      BY <1>1, GroupFacts
    <3>2. PICK i \in DOMAIN group.members[1].params : group.members[1].params[i].name = n
      BY DEF Promoted, ToSet
    <3>3. group.members[1].params[i] \in ParamType
      BY <3>1, <3>2, LenProperties, ElementOfSeq
    <3> QED BY <3>2, <3>3 DEF ParamType
  <2>3. raw' \subseteq DOMAIN context'
    <3> SUFFICES ASSUME NEW c \in AllCalls(group), NEW i \in SlotArgs(group, Promoted(group), c, "derived")
                 PROVE  SlotAt(Promoted(group), group.members[c.callee].params, i) \in DOMAIN Context(group)
      BY <1>3 DEF RawSlots
    <3>1. PICK m \in DOMAIN group.members : c \in group.members[m].calls
      BY DEF AllCalls, ToSet
    <3>2. i \in DOMAIN group.members[c.callee].params /\ IsSlot(Promoted(group), group.members[c.callee].params[i])
      BY DEF SlotArgs
    <3> QED BY <1>1, <1>3, <3>1, <3>2, SlotArgument
  <2> QED BY <1>1, <1>3, <2>1, <2>2, <2>3 DEF TypeInv, TypeOK, Analysed, Accepted, Context
<1>4. \/ status' = "refused" /\ UNCHANGED <<promoted, context, raw>>
      \/ /\ Accepted(group) /\ status' = "ready" /\ promoted' = Promoted(group)
         /\ context' = Context(group) /\ raw' = RawSlots(group, Promoted(group))
  BY DEF Analyse, Accepted, Context
<1> QED BY <1>2, <1>3, <1>4

LEMMA StartTypes == TypeInv /\ (\E m \in DOMAIN group.members : Start(m)) => TypeInv'
<1> SUFFICES ASSUME TypeInv, NEW m \in DOMAIN group.members, Start(m) PROVE TypeInv'
  OBVIOUS
<1> DEFINE names == NamesOf(group.members[m].params)
           outer(S) == [n \in S |-> Outer(n)]
           frame == [member |-> m, entered |-> TRUE, native |-> outer(names),
                     payload |-> outer(names \ NamesOf(context)), saved |-> {}]
<1>1. /\ status = "ready" /\ status' = "running" /\ stack' = <<frame>>
      /\ slots' = [s \in DOMAIN context |-> Outer(context[s].name)]
      /\ group' = group /\ promoted' = promoted /\ context' = context /\ raw' = raw
  BY DEF Start
<1>2. group \in Groups /\ Analysed /\ context \in Seq(ParamType)
  BY <1>1 DEF TypeInv, TypeOK
<1>3. \A n \in Names : Outer(n) \in Seq(Places)
  <2>1. "outer" \in Places /\ \A n \in Names : n \in Places
    BY DEF Places
  <2> QED BY <2>1 DEF Outer
<1>4. names \subseteq Names
  <2> SUFFICES ASSUME NEW n \in names PROVE n \in Names
    OBVIOUS
  <2>1. group.members[m].params \in Seq(ParamType)
    BY <1>2, GroupFacts
  <2>2. PICK i \in DOMAIN group.members[m].params : group.members[m].params[i].name = n
    BY NamesAre
  <2>3. group.members[m].params[i] \in ParamType
    BY <2>1, <2>2, LenProperties, ElementOfSeq
  <2> QED BY <2>2, <2>3 DEF ParamType
<1>5. \A S \in SUBSET Names : outer(S) \in Bindings
  BY <1>3 DEF Bindings
<1>6. frame \in Frame /\ Binds(frame)
  <2>1. outer(names) \in Bindings /\ outer(names \ NamesOf(context)) \in Bindings
    BY <1>4, <1>5
  <2> QED BY <2>1 DEF Frame, Binds
<1>7. \A s \in DOMAIN context : Outer(context[s].name) \in Seq(Places)
  <2>1. \A s \in DOMAIN context : context[s].name \in Names
    <3> SUFFICES ASSUME NEW s \in DOMAIN context PROVE context[s].name \in Names
      OBVIOUS
    <3>1. context[s] \in ParamType
      BY <1>2, LenProperties, ElementOfSeq
    <3> QED BY <3>1 DEF ParamType
  <2> QED BY <1>3, <2>1
<1>8. frame.member = m /\ frame.saved = {}
  OBVIOUS
<1> HIDE DEF frame
<1>9. /\ stack' \in Seq(Frame) /\ stack' # <<>> /\ DOMAIN stack' = {1} /\ Len(stack') = 1
      /\ stack'[1] = frame
  BY <1>1, <1>6
<1>10. TypeOK'
  BY <1>1, <1>7, <1>8, <1>9 DEF TypeInv, TypeOK
<1>11. slots' \in [DOMAIN context -> Seq(Places)]
  BY <1>1, <1>7
<1>12. Frame' = Frame
  BY <1>1 DEF Frame
<1>14. \A k \in DOMAIN stack' : Binds(stack[k])'
  BY <1>1, <1>6, <1>9 DEF Binds
<1>15. Analysed'
  BY <1>1, <1>2 DEF Analysed
<1> QED BY <1>1, <1>2, <1>9, <1>10, <1>11, <1>12, <1>14, <1>15 DEF TypeInv

\* What the calls leave of the stack.
LEMMA StackOfCall ==
  ASSUME TypeInv, status = "running", NEW c \in Running.calls, Call(c)
  PROVE  /\ Len(stack') = Len(stack) + 1 /\ stack' \in Seq(Frame)
         /\ DOMAIN stack' = 1..(Len(stack) + 1)
         /\ \A k \in 1..(Len(stack) - 1) : stack'[k] = stack[k]
         /\ stack'[Len(stack)] = [Top EXCEPT !.saved = {<<s, slots[s]>> : s \in SwappedSlots(c)},
                                             !.entered = FALSE]
         /\ stack'[Len(stack) + 1] = Entered(c)
<1> DEFINE n == Len(stack)
           saved == {<<s, slots[s]>> : s \in SwappedSlots(c)}
           parked == [stack EXCEPT ![n].saved = saved, ![n].entered = FALSE]
           frame == [Top EXCEPT !.saved = saved, !.entered = FALSE]
<1>1. n \in Nat \ {0} /\ DOMAIN stack = 1..n /\ Top = stack[n] /\ Top \in Frame /\ stack \in Seq(Frame)
  BY AtTop DEF Top, TypeInv
<1>2. stack' = Append(parked, Entered(c))
  BY DEF Call
<1>3. saved \in SUBSET (Nat \X Seq(Places))
  <2>1. \A s \in SwappedSlots(c) : s \in DOMAIN context
    BY SwapTypes
  <2>2. DOMAIN context \subseteq Nat
    BY LenProperties DEF TypeInv, TypeOK
  <2> QED BY <2>1, <2>2 DEF TypeInv
<1> HIDE DEF saved
<1>4. frame \in Frame
  BY <1>1, <1>3 DEF Frame
<1>5. parked = [stack EXCEPT ![n] = frame]
  BY <1>1
<1> HIDE DEF parked, frame
<1>6. parked \in Seq(Frame) /\ Len(parked) = n /\ parked[n] = frame
      /\ \A k \in 1..(n - 1) : parked[k] = stack[k]
  BY <1>1, <1>4, <1>5, ExceptSeq
<1>7. Entered(c) \in Frame
  BY EnteredType
<1>8. /\ stack' \in Seq(Frame) /\ Len(stack') = n + 1 /\ stack'[n + 1] = Entered(c)
      /\ \A k \in 1..n : stack'[k] = parked[k]
  BY <1>2, <1>6, <1>7, AppendProperties
<1>9. DOMAIN stack' = 1..(n + 1)
  BY <1>8, LenProperties
<1> QED BY <1>1, <1>6, <1>8, <1>9 DEF frame, saved

\* The analysis is kept by every step of the run.
LEMMA RunKeeps ==
  ASSUME TypeInv, status = "running", UNCHANGED <<group, promoted, context, raw>>
  PROVE  /\ Analysed' /\ Frame' = Frame /\ group \in Groups /\ context \in Seq(ParamType)
         /\ group \in GroupType /\ promoted \subseteq Names /\ raw \subseteq DOMAIN context
BY DEF TypeInv, TypeOK, Analysed, Frame

LEMMA CallTypes == TypeInv /\ status = "running" /\ (\E c \in Running.calls : Call(c)) => TypeInv'
<1> SUFFICES ASSUME TypeInv, status = "running", NEW c \in Running.calls, Call(c) PROVE TypeInv'
  OBVIOUS
<1> DEFINE n == Len(stack)
           top == [Top EXCEPT !.saved = {<<s, slots[s]>> : s \in SwappedSlots(c)}, !.entered = FALSE]
<1>1. /\ n \in Nat \ {0} /\ DOMAIN stack = 1..n /\ Top = stack[n] /\ Top \in Frame /\ Binds(Top)
      /\ \A k \in 1..n : stack[k] \in Frame /\ Binds(stack[k]) /\ \A v \in stack[k].saved : v[1] \in raw
  <2>1. n \in Nat \ {0} /\ DOMAIN stack = 1..n /\ Top = stack[n] /\ Top \in Frame /\ Binds(Top)
    BY AtTop DEF Top
  <2>2. stack \in Seq(Frame)
    BY DEF TypeInv
  <2> QED BY <2>1, <2>2, ElementOfSeq DEF TypeInv, TypeOK
<1>2. /\ Len(stack') = n + 1 /\ stack' \in Seq(Frame) /\ DOMAIN stack' = 1..(n + 1)
      /\ \A k \in 1..(n - 1) : stack'[k] = stack[k]
      /\ stack'[n] = top /\ stack'[n + 1] = Entered(c)
  BY StackOfCall
<1>3. UNCHANGED <<group, status, promoted, context, raw>> /\ slots' = Swapped(c)
  BY DEF Call
<1>4. SwappedSlots(c) \subseteq raw /\ Swapped(c) \in [DOMAIN context -> Seq(Places)]
  BY SwapTypes
<1>5. Entered(c) \in Frame /\ Binds(Entered(c)) /\ Entered(c).saved = {}
  BY EnteredType
<1>6. /\ top.saved = {<<s, slots[s]>> : s \in SwappedSlots(c)}
      /\ top.member = Top.member /\ top.native = Top.native /\ top.payload = Top.payload
  BY <1>1 DEF Frame
<1>7. Binds(top) /\ \A v \in top.saved : v[1] \in raw
  BY <1>1, <1>4, <1>6 DEF Binds
<1> HIDE DEF top
<1>8. ASSUME NEW k \in 1..(n + 1)
      PROVE  /\ stack'[k] \in Frame /\ Binds(stack'[k])
             /\ \A v \in stack'[k].saved : v[1] \in raw
             /\ k = n + 1 => stack'[k].saved = {}
  <2>1. stack'[k] \in Frame
    BY <1>1, <1>2, ElementOfSeq
  <2>2. CASE k \in 1..(n - 1)
    <3>1. stack'[k] = stack[k] /\ k \in 1..n /\ k # n + 1
      BY <1>1, <1>2, <2>2
    <3> QED BY <1>1, <2>1, <3>1
  <2>3. CASE k = n
    <3>1. stack'[k] = top
      BY <1>2, <2>3, Zenon
    <3>2. n \in Nat
      BY AtTop
    <3>3. n # n + 1
      BY <3>2
    <3> QED BY <1>7, <2>1, <2>3, <3>1, <3>3
  <2>4. CASE k = n + 1
    BY <1>2, <1>5, <2>1, <2>4
  <2> QED BY <1>1, <2>2, <2>3, <2>4
<1>9. \A k \in DOMAIN stack' : stack'[k].member \in DOMAIN group.members
  BY <1>2, <1>8 DEF Frame
<1>10. /\ Analysed' /\ Frame' = Frame /\ group \in Groups /\ context \in Seq(ParamType)
       /\ group \in GroupType /\ promoted \subseteq Names /\ raw \subseteq DOMAIN context
  BY <1>3, RunKeeps
<1>11. stack' # <<>>
  BY <1>1, <1>2, EmptySeq
<1>12. TypeOK'
  BY <1>2, <1>3, <1>4, <1>8, <1>9, <1>10, <1>11 DEF TypeOK
<1>13. \A k \in DOMAIN stack' : Binds(stack[k])'
  BY <1>2, <1>3, <1>8 DEF Binds
<1> QED BY <1>2, <1>3, <1>4, <1>10, <1>12, <1>13 DEF TypeInv

\* What a step of the run must leave behind.
LEMMA RunTypes ==
  ASSUME TypeInv, status = "running", UNCHANGED <<group, status, promoted, context, raw>>,
         slots' \in [DOMAIN context -> Seq(Places)], stack' \in Seq(Frame), stack' # <<>>,
         \A k \in 1..Len(stack') : /\ Binds(stack'[k])
                                   /\ \A v \in stack'[k].saved : v[1] \in raw
                                   /\ k = Len(stack') => stack'[k].saved = {}
  PROVE  TypeInv'
<1>1. /\ Analysed' /\ Frame' = Frame /\ group \in Groups /\ context \in Seq(ParamType)
      /\ group \in GroupType /\ promoted \subseteq Names /\ raw \subseteq DOMAIN context
  BY RunKeeps
<1>2. DOMAIN stack' = 1..Len(stack') /\ \A k \in 1..Len(stack') : stack'[k] \in Frame
  BY LenProperties, ElementOfSeq
<1>3. \A k \in DOMAIN stack' : stack'[k].member \in DOMAIN group.members
  BY <1>2 DEF Frame
<1>4. TypeOK'
  BY <1>1, <1>2, <1>3 DEF TypeOK
<1>5. \A k \in DOMAIN stack' : Binds(stack[k])'
  BY <1>2 DEF Binds
<1> QED BY <1>1, <1>4, <1>5 DEF TypeInv

\* The frames there are.
LEMMA Frames ==
  ASSUME TypeInv, status = "running"
  PROVE  \A k \in 1..Len(stack) :
           stack[k] \in Frame /\ Binds(stack[k]) /\ \A v \in stack[k].saved : v[1] \in raw
<1>1. stack \in Seq(Frame) /\ DOMAIN stack = 1..Len(stack)
  BY AtTop DEF TypeInv
<1> QED BY <1>1, ElementOfSeq DEF TypeInv, TypeOK

LEMMA StackOfTailCall ==
  ASSUME TypeInv, status = "running", NEW c \in Running.calls, TailCall(c)
  PROVE  /\ Len(stack') = Len(stack) /\ stack' \in Seq(Frame)
         /\ \A k \in 1..Len(stack) : stack'[k] = IF k = Len(stack) THEN Entered(c) ELSE stack[k]
<1>1. Len(stack) \in 1..Len(stack) /\ stack \in Seq(Frame)
  BY AtTop DEF TypeInv
<1>2. stack' = [stack EXCEPT ![Len(stack)] = Entered(c)] /\ Entered(c) \in Frame
  BY EnteredType DEF TailCall
<1> QED BY <1>1, <1>2, ExceptSeq

LEMMA TailCallTypes == TypeInv /\ status = "running" /\ (\E c \in Running.calls : TailCall(c)) => TypeInv'
<1> SUFFICES ASSUME TypeInv, status = "running", NEW c \in Running.calls, TailCall(c) PROVE TypeInv'
  OBVIOUS
<1> DEFINE n == Len(stack)
<1>1. n \in Nat \ {0}
  BY AtTop
<1>2. /\ Len(stack') = n /\ stack' \in Seq(Frame)
      /\ \A k \in 1..n : stack'[k] = IF k = n THEN Entered(c) ELSE stack[k]
  BY StackOfTailCall
<1>3. UNCHANGED <<group, status, promoted, context, raw>> /\ slots' = Swapped(c)
  BY DEF TailCall
<1>4. Swapped(c) \in [DOMAIN context -> Seq(Places)]
  BY SwapTypes
<1>5. Entered(c) \in Frame /\ Binds(Entered(c)) /\ Entered(c).saved = {}
  BY EnteredType
<1>6. stack' # <<>>
  BY <1>1, <1>2, EmptySeq
<1>7. \A k \in 1..n : /\ Binds(stack'[k])
                      /\ \A v \in stack'[k].saved : v[1] \in raw
                      /\ k = n => stack'[k].saved = {}
  BY <1>2, <1>5, Frames
<1> QED BY <1>2, <1>3, <1>4, <1>6, <1>7, RunTypes

LEMMA StackOfReturn ==
  ASSUME TypeInv, status = "running", Len(stack) # 1, Return
  PROVE  /\ Len(stack) - 1 \in Nat \ {0} /\ Len(stack') = Len(stack) - 1 /\ stack' \in Seq(Frame)
         /\ \A k \in 1..(Len(stack) - 2) : stack'[k] = stack[k]
         /\ stack'[Len(stack) - 1] = [stack[Len(stack) - 1] EXCEPT !.saved = {}]
<1> DEFINE n == Len(stack) - 1
           front == Front(stack)
           frame == [stack[n] EXCEPT !.saved = {}]
<1>1. /\ n \in Nat \ {0} /\ Len(stack) \in Nat /\ n < Len(stack) /\ stack \in Seq(Frame)
      /\ \A k \in 1..n : stack[k] \in Frame
  <2>1. Len(stack) \in Nat \ {0} /\ stack \in Seq(Frame)
    BY AtTop DEF TypeInv
  <2>2. n \in Nat \ {0} /\ n < Len(stack)
    BY <2>1
  <2> QED BY <2>1, <2>2, Frames
<1>2. stack' = [front EXCEPT ![n].saved = {}]
  BY DEF Return
<1> HIDE DEF n
<1>3. /\ front \in Seq(Frame) /\ Len(front) = n
      /\ \A k \in 1..n : front[k] = stack[k]
  <2>1. front = SubSeq(stack, 1, n)
    BY DEF Front, n
  <2>2. /\ SubSeq(stack, 1, n) \in Seq(Frame)
        /\ Len(SubSeq(stack, 1, n)) = IF 1 <= n THEN n - 1 + 1 ELSE 0
        /\ \A k \in 1..(n - 1 + 1) : SubSeq(stack, 1, n)[k] = stack[1 + k - 1]
    BY <1>1, SubSeqProperties
  <2> QED BY <1>1, <2>1, <2>2
<1> HIDE DEF front
<1>4. stack[n] \in Frame /\ frame \in Frame /\ n \in 1..n
  <2>1. n \in 1..n
    BY <1>1
  <2>2. stack[n] \in Frame
    BY <1>1, <2>1
  <2>3. {} \in SUBSET (Nat \X Seq(Places))
    OBVIOUS
  <2>4. frame \in Frame
    BY <2>2, <2>3 DEF Frame
  <2> QED BY <2>1, <2>2, <2>4
<1>5. stack' = [front EXCEPT ![n] = frame]
  BY <1>2, <1>3, <1>4
<1> HIDE DEF frame
<1>6. /\ stack' \in Seq(Frame) /\ Len(stack') = n
      /\ \A k \in 1..n : stack'[k] = IF k = n THEN frame ELSE front[k]
  BY <1>3, <1>4, <1>5, ExceptSeq
<1>7. \A k \in 1..(n - 1) : stack'[k] = stack[k]
  BY <1>1, <1>3, <1>6
<1>8. n - 1 = Len(stack) - 2
  BY <1>1 DEF n
<1> QED BY <1>1, <1>4, <1>6, <1>7, <1>8 DEF n, frame

\* What a frame saved is put back.
LEMMA RestoredType ==
  ASSUME TypeInv, status = "running", NEW frame \in Frame
  PROVE  Restored(frame) \in [DOMAIN context -> Seq(Places)]
<1>1. slots \in [DOMAIN context -> Seq(Places)] /\ DOMAIN slots = DOMAIN context
  BY DEF TypeInv
<1>2. frame.saved \in SUBSET (Nat \X Seq(Places))
  BY DEF Frame
<1>3. ASSUME NEW s \in DOMAIN context, \E v \in frame.saved : v[1] = s
      PROVE  (CHOOSE v \in frame.saved : v[1] = s)[2] \in Seq(Places)
  <2>1. (CHOOSE v \in frame.saved : v[1] = s) \in frame.saved
    BY <1>3
  <2> QED BY <1>2, <2>1
<1> QED BY <1>1, <1>3 DEF Restored

LEMMA ReturnTypes == TypeInv /\ Return => TypeInv'
<1> SUFFICES ASSUME TypeInv, Return PROVE TypeInv'
  OBVIOUS
<1> DEFINE n == Len(stack) - 1
<1>1. status = "running" /\ UNCHANGED <<group, promoted, context, raw>>
  BY DEF Return
<1>2. /\ Analysed' /\ Frame' = Frame /\ group \in Groups /\ context \in Seq(ParamType)
      /\ group \in GroupType /\ promoted \subseteq Names /\ raw \subseteq DOMAIN context
  BY <1>1, RunKeeps
<1>3. CASE Len(stack) = 1
  <2>1. status' = "ended" /\ stack' = <<>> /\ slots' = <<>>
    BY <1>3 DEF Return
  <2>2. DOMAIN stack' = {}
    BY <2>1
  <2>3. TypeOK'
    BY <1>1, <1>2, <2>1, <2>2 DEF TypeOK
  <2> QED BY <1>1, <1>2, <2>1, <2>3 DEF TypeInv
<1>4. CASE Len(stack) # 1
  <2>1. /\ n \in Nat \ {0} /\ Len(stack') = n /\ stack' \in Seq(Frame)
        /\ \A k \in 1..(n - 1) : stack'[k] = stack[k]
        /\ stack'[n] = [stack[n] EXCEPT !.saved = {}]
    <3>1. n - 1 = Len(stack) - 2
      BY AtTop, <1>1
    <3> QED BY <1>1, <1>4, <3>1, StackOfReturn
  <2>2. status' = status /\ slots' = Restored(stack[n])
    BY <1>4 DEF Return
  <2>3. \A k \in 1..n : stack[k] \in Frame /\ Binds(stack[k]) /\ \A v \in stack[k].saved : v[1] \in raw
    BY <1>1, <2>1, AtTop, Frames
  <2> HIDE DEF n
  <2>4. n \in 1..n
    BY <2>1
  <2>5. slots' \in [DOMAIN context -> Seq(Places)]
    BY <1>1, <2>2, <2>3, <2>4, RestoredType
  <2>6. stack' # <<>>
    BY <2>1, EmptySeq
  <2>7. stack'[n].saved = {} /\ Binds(stack'[n])
    <3>1. stack[n] \in Frame /\ Binds(stack[n])
      BY <2>3, <2>4
    <3> QED BY <2>1, <3>1 DEF Frame, Binds
  <2>8. \A k \in 1..n : /\ Binds(stack'[k])
                        /\ \A v \in stack'[k].saved : v[1] \in raw
                        /\ k = n => stack'[k].saved = {}
    <3> SUFFICES ASSUME NEW k \in 1..n
                 PROVE  /\ Binds(stack'[k]) /\ \A v \in stack'[k].saved : v[1] \in raw
                        /\ k = n => stack'[k].saved = {}
      OBVIOUS
    <3>1. CASE k = n
      BY <2>7, <3>1
    <3>2. CASE k # n
      <4>1. k \in 1..(n - 1)
        BY <2>1, <3>2
      <4> QED BY <2>1, <2>3, <3>2, <4>1
    <3> QED BY <3>1, <3>2
  <2> QED BY <1>1, <2>1, <2>2, <2>5, <2>6, <2>8, RunTypes
<1> QED BY <1>3, <1>4

LEMMA InitTypes == Init => TypeInv
BY GroupsAssumption DEF Init, TypeInv, TypeOK

LEMMA NextTypes == TypeInv /\ [Next]_vars => TypeInv'
<1> SUFFICES ASSUME TypeInv, [Next]_vars PROVE TypeInv'
  OBVIOUS
<1>1. CASE UNCHANGED vars
  BY <1>1 DEF vars, TypeInv, TypeOK, Analysed, Frame, Binds
<1>2. CASE Analyse
  BY <1>2, AnalyseTypes
<1>3. CASE \E m \in DOMAIN group.members : Start(m)
  BY <1>3, StartTypes
<1>4. CASE status = "running" /\ \E c \in Running.calls : Call(c) \/ TailCall(c)
  BY <1>4, CallTypes, TailCallTypes
<1>5. CASE Return
  BY <1>5, ReturnTypes
<1> QED BY <1>1, <1>2, <1>3, <1>4, <1>5 DEF Next

\* The analysis and the run keep their types, for every group that rustc accepts.
THEOREM ContextsTypeOK == Spec => []TypeOK
<1>1. TypeInv => TypeOK
  BY DEF TypeInv
<1> QED BY <1>1, InitTypes, NextTypes, PTL DEF Spec
-----------------------------------------------------------------------------
(* Places that do not reach each other. *)

Unrelated(p, q) == ~IsPrefix(p, q) /\ ~IsPrefix(q, p)

LEMMA PrefixIs ==
  ASSUME NEW p \in Seq(Places), NEW q \in Seq(Places)
  PROVE  IsPrefix(p, q) <=> Len(p) <= Len(q) /\ \A i \in 1..Len(p) : p[i] = q[i]
<1>1. Len(p) \in Nat /\ Len(q) \in Nat
  BY LenProperties
<1>2. ASSUME Len(p) <= Len(q)
      PROVE  SubSeq(p, 1, Len(p)) = SubSeq(q, 1, Len(p)) <=> \A i \in 1..Len(p) : p[i] = q[i]
  <2> DEFINE P == SubSeq(p, 1, Len(p))
             Q == SubSeq(q, 1, Len(p))
  <2>1. /\ P \in Seq(Places) /\ Len(P) = Len(p) /\ \A i \in 1..Len(p) : P[i] = p[i]
        /\ Q \in Seq(Places) /\ Len(Q) = Len(p) /\ \A i \in 1..Len(p) : Q[i] = q[i]
    BY <1>1, <1>2
  <2> HIDE DEF P, Q
  <2>2. P = Q <=> \A i \in 1..Len(p) : P[i] = Q[i]
    BY <2>1, SeqEqual
  <2> QED BY <2>1, <2>2 DEF P, Q
<1> QED BY <1>1, <1>2 DEF IsPrefix

\* Nor do places inside them.
LEMMA UnrelatedInside ==
  ASSUME NEW p \in Seq(Places), NEW q \in Seq(Places), Unrelated(p, q),
         NEW a \in Parts, NEW b \in Parts,
         NEW pp \in {p, Inside(p, a)}, NEW qq \in {q, Inside(q, b)}
  PROVE  ~IsPrefix(pp, qq)
<1>1. a \in Places /\ b \in Places
  BY DEF Places
<1>2. Len(p) \in Nat /\ Len(q) \in Nat
  BY LenProperties
<1>3. /\ pp \in Seq(Places) /\ Len(pp) \in {Len(p), Len(p) + 1}
      /\ \A i \in 1..Len(p) : pp[i] = p[i]
  <2>1. /\ Inside(p, a) \in Seq(Places) /\ Len(Inside(p, a)) = Len(p) + 1
        /\ \A i \in 1..Len(p) : Inside(p, a)[i] = p[i]
    BY <1>1, <1>2, AppendProperties DEF Inside
  <2> QED BY <2>1
<1>4. /\ qq \in Seq(Places) /\ Len(qq) \in {Len(q), Len(q) + 1}
      /\ \A i \in 1..Len(q) : qq[i] = q[i]
  <2>1. /\ Inside(q, b) \in Seq(Places) /\ Len(Inside(q, b)) = Len(q) + 1
        /\ \A i \in 1..Len(q) : Inside(q, b)[i] = q[i]
    BY <1>1, <1>2, AppendProperties DEF Inside
  <2> QED BY <2>1
<1> SUFFICES ASSUME IsPrefix(pp, qq) PROVE FALSE
  OBVIOUS
<1>5. Len(pp) <= Len(qq) /\ \A i \in 1..Len(pp) : pp[i] = qq[i]
  BY <1>3, <1>4, PrefixIs
<1>6. CASE Len(p) <= Len(q)
  <2>1. \A i \in 1..Len(p) : p[i] = q[i]
    BY <1>2, <1>3, <1>4, <1>5, <1>6
  <2> QED BY <1>6, <2>1, PrefixIs DEF Unrelated
<1>7. CASE Len(q) <= Len(p)
  <2>1. \A i \in 1..Len(q) : q[i] = p[i]
    BY <1>2, <1>3, <1>4, <1>5, <1>7
  <2> QED BY <1>7, <2>1, PrefixIs DEF Unrelated
<1> QED BY <1>2, <1>6, <1>7

\* Different parts of one place do not reach each other.
LEMMA PartsUnrelated ==
  ASSUME NEW p \in Seq(Places), NEW a \in Parts, NEW b \in Parts, a # b
  PROVE  Unrelated(Inside(p, a), Inside(p, b))
<1>1. a \in Places /\ b \in Places /\ Len(p) \in Nat
  BY LenProperties DEF Places
<1>2. /\ Inside(p, a) \in Seq(Places) /\ Len(Inside(p, a)) = Len(p) + 1 /\ Inside(p, a)[Len(p) + 1] = a
      /\ Inside(p, b) \in Seq(Places) /\ Len(Inside(p, b)) = Len(p) + 1 /\ Inside(p, b)[Len(p) + 1] = b
  BY <1>1, AppendProperties DEF Inside
<1>3. Len(p) + 1 \in 1..(Len(p) + 1)
  BY <1>1
<1> QED BY <1>2, <1>3, PrefixIs DEF Unrelated

LEMMA OuterUnrelated ==
  ASSUME NEW a \in Names, NEW b \in Names, a # b
  PROVE  Unrelated(Outer(a), Outer(b))
<1>1. "outer" \in Places /\ a \in Places /\ b \in Places
  BY DEF Places
<1>2. /\ Outer(a) \in Seq(Places) /\ Len(Outer(a)) = 2 /\ Outer(a)[2] = a
      /\ Outer(b) \in Seq(Places) /\ Len(Outer(b)) = 2 /\ Outer(b)[2] = b
  BY <1>1 DEF Outer
<1> QED BY <1>2, PrefixIs DEF Unrelated
-----------------------------------------------------------------------------
(* What the activations see. *)

Apart(view) ==
  \A s, t \in DOMAIN context : s # t /\ context[s].ref = "mut" => Unrelated(view[s], view[t])

\* A frame and the slots as it finds them hold what native recursion gives its parameters.
Faithful(frame, view) ==
  \A n \in NamesOf(group.members[frame.member].params) :
    IF n \in NamesOf(context) THEN view[SlotNamed(n)] = frame.native[n]
    ELSE frame.payload[n] = frame.native[n]

\* The slots with what a frame saved put back.
Back(view, saved) ==
  [s \in DOMAIN context |-> IF \E v \in saved : v[1] = s THEN (CHOOSE v \in saved : v[1] = s)[2]
                            ELSE view[s]]

Views(views) ==
  /\ views \in [1..Len(stack) -> [DOMAIN context -> Seq(Places)]]
  /\ views[Len(stack)] = slots
  /\ \A k \in 1..(Len(stack) - 1) : views[k] = Back(views[k + 1], stack[k].saved)
  /\ \A k \in 1..Len(stack) : Apart(views[k]) /\ Faithful(stack[k], views[k])

ViewInv == status = "running" => \E views : Views(views)

\* The slots a call leaves: each is what the parameter it is named after is passed, a slot
\* itself or a place inside one.
LEMMA SlotPassed ==
  ASSUME TypeInv, status = "running", Straight(group),
         NEW c \in Running.calls, NEW s \in DOMAIN context
  PROVE  /\ ArgFor(group, c, s).form # "other"
         /\ ArgFor(group, c, s).of \in NamesOf(context) \ Running.binds
         /\ ArgFor(group, c, s).of \in NamesOf(Running.params)
         /\ Swapped(c)[s] = Value(ArgFor(group, c, s), slots[SlotNamed(ArgFor(group, c, s).of)])
<1> DEFINE m == Top.member
           i == At(group, c, s)
           arg == ArgFor(group, c, s)
           params == group.members[c.callee].params
<1>1. /\ group \in Groups /\ Accepted(group) /\ promoted = Promoted(group) /\ context = Context(group)
      /\ m \in DOMAIN group.members /\ Running = group.members[m]
  BY AtTop DEF Analysed
<1>2. c \in group.members[m].calls /\ arg = c.args[i]
  BY <1>1 DEF ArgFor
<1> HIDE DEF m
<1>3. /\ i \in DOMAIN params
      /\ IsSlot(Promoted(group), params[i])
      /\ arg.of \notin group.members[m].binds
      /\ arg.form \notin Parts => arg.of = Context(group)[s].name
      /\ arg.form \in Parts => SlotAt(Promoted(group), params, i) = s
      /\ \A j \in DOMAIN params :
           /\ IsSlot(Promoted(group), params[j])
           /\ c.args[j].form \in Parts
           /\ SlotAt(Promoted(group), params, j) = s
           => j = i
  BY <1>1, <1>2, StraightCall
<1>4. c.args[i].form # "other" /\ c.args[i].of \in NamesOf(Context(group))
      /\ c.args[i].of \in NamesOf(group.members[m].params)
  BY <1>1, <1>2, <1>3, SlotArgument
<1>5. Sees(arg.of) = slots[SlotNamed(arg.of)]
  BY <1>1, <1>2, <1>3, <1>4 DEF Sees, IsContext
<1>6. \A j : j \in Swaps(c) /\ SlotAt(promoted, params, j) = s => j = i /\ arg.form \in Parts
  BY <1>1, <1>2, <1>3 DEF Swaps, SlotArgs, ClassifyCtxArg
<1>7. arg.form \in Parts => i \in Swaps(c) /\ SlotAt(promoted, params, i) = s
  BY <1>1, <1>2, <1>3, <1>4 DEF Swaps, SlotArgs, ClassifyCtxArg, Context
<1>8. DOMAIN slots = DOMAIN context
  BY DEF TypeInv
<1> HIDE DEF i, arg, params
<1>9. CASE arg.form \in Parts
  <2>1. s \in SwappedSlots(c)
    BY <1>7, <1>9 DEF SwappedSlots, params
  <2>2. SwapFor(c, s) = i
    BY <1>6, <1>7, <1>9 DEF SwapFor, params
  <2>3. Swapped(c)[s] = Value(c.args[i], Sees(c.args[i].of))
    BY <1>8, <2>1, <2>2 DEF Swapped
  <2> QED BY <1>1, <1>2, <1>3, <1>4, <1>5, <2>3 DEF arg
<1>10. CASE arg.form \notin Parts
  <2>1. s \notin SwappedSlots(c)
    BY <1>6, <1>10 DEF SwappedSlots, params
  <2>2. Swapped(c)[s] = slots[s]
    BY <1>8, <2>1 DEF Swapped
  <2>3. SlotNamed(arg.of) = s
    BY <1>1, <1>3, <1>10, ContextNames DEF SlotNamed
  <2>4. Value(arg, slots[SlotNamed(arg.of)]) = slots[s]
    BY <1>2, <1>4, <1>10, <2>3 DEF Value
  <2> QED BY <1>1, <1>2, <1>3, <1>4, <2>2, <2>4 DEF arg
<1> QED BY <1>9, <1>10

\* A call passes different slots what is different slots of the caller or different parts of
\* one, a `&mut` one what is, or lies in, a `&mut` one.
LEMMA RootsDiffer ==
  ASSUME TypeInv, status = "running", Straight(group), NEW c \in Running.calls,
         NEW s \in DOMAIN context, NEW t \in DOMAIN context, s # t, context[s].ref = "mut"
  PROVE  LET r == SlotNamed(ArgFor(group, c, s).of)
             u == SlotNamed(ArgFor(group, c, t).of)
         IN /\ r \in DOMAIN context /\ u \in DOMAIN context /\ context[r].ref = "mut"
            /\ \/ r # u
               \/ /\ ArgFor(group, c, s).form \in Parts /\ ArgFor(group, c, t).form \in Parts
                  /\ ArgFor(group, c, s).form # ArgFor(group, c, t).form
<1> DEFINE m == Top.member
           k == c.callee
           i == At(group, c, s)
           j == At(group, c, t)
           params == group.members[k].params
           a == ArgFor(group, c, s)
           b == ArgFor(group, c, t)
<1>1. /\ group \in Groups /\ Accepted(group) /\ context = Context(group) /\ Analysed
      /\ m \in DOMAIN group.members /\ Running = group.members[m]
  BY AtTop DEF Analysed
<1>2. /\ c \in group.members[m].calls /\ k \in DOMAIN group.members
      /\ a = c.args[i] /\ b = c.args[j]
  BY <1>1, GroupFacts DEF ArgFor
<1>3. /\ a.form # "other" /\ a.of \in NamesOf(context) /\ a.of \in NamesOf(Running.params)
      /\ b.form # "other" /\ b.of \in NamesOf(context)
  BY SlotPassed
<1>4. /\ i \in DOMAIN params /\ params[i].name = context[s].name /\ IsSlot(Promoted(group), params[i])
  BY <1>1, <1>2, StraightCall
<1>5. /\ j \in DOMAIN params /\ params[j].name = context[t].name
  BY <1>1, <1>2, StraightCall
<1>6. i # j
  <2>1. context[s].name # context[t].name
    BY <1>1, ContextNames DEF Distinct
  <2> QED BY <1>4, <1>5, <2>1
<1>7. params[i].ref = "mut"
  <2>1. context[s].name \notin Promoted(group)
    BY <1>1, ContextNames
  <2> QED BY <1>4, <2>1 DEF IsSlot
<1>8. a.of # b.of \/ (a.form \in Parts /\ b.form \in Parts /\ a.form # b.form)
  <2>1. \A x, y \in DOMAIN c.args :
          /\ x # y /\ params[x].ref = "mut" /\ c.args[x].form # "other" /\ c.args[y].form # "other"
          => Disjoint(c.args[x], c.args[y])
    BY <1>1, <1>2, GroupFacts
  <2>2. i \in DOMAIN c.args /\ j \in DOMAIN c.args
    BY <1>1, <1>2, <1>4, <1>5, GroupFacts
  <2>3. Disjoint(a, b)
    BY <1>2, <1>3, <1>6, <1>7, <2>1, <2>2
  <2> QED BY <2>3 DEF Disjoint
<1>9. ParamNamed(group.members[m].params, a.of).ref = "mut"
  <2>1. ParamNamed(group.members[m].params, c.args[i].of).ref = group.members[c.callee].params[i].ref
    BY <1>1, <1>2, <1>4, SlotArgument
  <2> QED BY <1>2, <1>7, <2>1
<1> HIDE DEF a, b, m
<1>10. a.of \notin Promoted(group)
  <2>1. PICK x \in DOMAIN group.members[m].params : group.members[m].params[x].name = a.of
    BY <1>1, <1>3, NamesAre
  <2>2. ParamNamed(group.members[m].params, a.of) = group.members[m].params[x]
    BY <1>1, <2>1, GroupFacts, Positions
  <2>3. group.members[m].params[x].ref = "mut"
    BY <1>9, <2>2
  <2> QED BY <1>1, <2>1, <2>3, SlotKind
<1>11. /\ SlotNamed(a.of) \in DOMAIN context /\ context[SlotNamed(a.of)].name = a.of
       /\ SlotNamed(b.of) \in DOMAIN context /\ context[SlotNamed(b.of)].name = b.of
  BY <1>1, <1>3, SlotOfName
<1>12. context[SlotNamed(a.of)].ref = "mut"
  BY <1>1, <1>10, <1>11, ContextNames
<1> QED BY <1>8, <1>11, <1>12 DEF a, b

\* So it leaves slots that do not reach one place.
LEMMA CallApart ==
  ASSUME TypeInv, status = "running", Straight(group), NEW c \in Running.calls, Apart(slots)
  PROVE  Apart(Swapped(c))
<1> SUFFICES ASSUME NEW s \in DOMAIN context, NEW t \in DOMAIN context, s # t, context[s].ref = "mut"
             PROVE  Unrelated(Swapped(c)[s], Swapped(c)[t])
  BY DEF Apart
<1> DEFINE a == ArgFor(group, c, s)
           b == ArgFor(group, c, t)
           r == SlotNamed(a.of)
           u == SlotNamed(b.of)
<1>1. /\ r \in DOMAIN context /\ u \in DOMAIN context /\ context[r].ref = "mut"
      /\ r # u \/ (a.form \in Parts /\ b.form \in Parts /\ a.form # b.form)
  BY RootsDiffer
<1>2. /\ a.form # "other" /\ Swapped(c)[s] = Value(a, slots[r])
      /\ b.form # "other" /\ Swapped(c)[t] = Value(b, slots[u])
  BY SlotPassed
<1> HIDE DEF a, b, r, u
<1>3. /\ Swapped(c)[s] = IF a.form \in Parts THEN Inside(slots[r], a.form) ELSE slots[r]
      /\ Swapped(c)[t] = IF b.form \in Parts THEN Inside(slots[u], b.form) ELSE slots[u]
  BY <1>2 DEF Value
<1>4. slots[r] \in Seq(Places) /\ slots[u] \in Seq(Places)
  BY <1>1 DEF TypeInv
<1>5. CASE r # u
  <2>1. Unrelated(slots[r], slots[u]) /\ Unrelated(slots[u], slots[r])
    BY <1>1, <1>5 DEF Apart, Unrelated
  <2>2. CASE a.form \in Parts /\ b.form \in Parts
    BY <1>3, <1>4, <2>1, <2>2, UnrelatedInside DEF Unrelated
  <2>3. CASE a.form \in Parts /\ b.form \notin Parts
    BY <1>3, <1>4, <2>1, <2>3, UnrelatedInside DEF Unrelated
  <2>4. CASE a.form \notin Parts /\ b.form \in Parts
    BY <1>3, <1>4, <2>1, <2>4, UnrelatedInside DEF Unrelated
  <2>5. CASE a.form \notin Parts /\ b.form \notin Parts
    BY <1>3, <2>1, <2>5
  <2> QED BY <2>2, <2>3, <2>4, <2>5
<1>6. CASE r = u
  BY <1>1, <1>3, <1>4, <1>6, PartsUnrelated
<1> QED BY <1>5, <1>6

\* What a name in an argument refers to is the same as natively, unless the slots differ.
LEMMA SeenNatively ==
  ASSUME TypeInv, status = "running", Faithful(Top, slots), NEW n \in NamesOf(Running.params),
         n \in NamesOf(context) => n \notin Running.binds
  PROVE  Sees(n) = Native(n)
BY AtTop DEF Sees, Native, IsContext, Faithful

\* And a callee what native recursion passes it.
LEMMA CallFaithful ==
  ASSUME TypeInv, status = "running", Straight(group), NEW c \in Running.calls, Faithful(Top, slots)
  PROVE  Faithful(Entered(c), Swapped(c))
<1> DEFINE m == Top.member
           k == c.callee
           params == group.members[k].params
           given(n) == c.args[PositionOf(params, n)]
<1>1. /\ group \in Groups /\ Accepted(group) /\ context = Context(group) /\ promoted = Promoted(group)
      /\ Analysed /\ m \in DOMAIN group.members /\ Running = group.members[m]
  BY AtTop DEF Analysed
<1>2. /\ c \in group.members[m].calls /\ k \in DOMAIN group.members /\ DOMAIN c.args = DOMAIN params
      /\ Distinct(params)
  BY <1>1, GroupFacts
<1>3. /\ Entered(c).member = k
      /\ \A n \in NamesOf(params) : Entered(c).native[n] = Value(given(n), Native(given(n).of))
      /\ \A n \in NamesOf(params) \ NamesOf(context) :
           Entered(c).payload[n] = Value(given(n), Sees(given(n).of))
  BY DEF Entered
<1>4. ASSUME NEW n \in NamesOf(params), n \in NamesOf(context)
      PROVE  Swapped(c)[SlotNamed(n)] = Entered(c).native[n]
  <2> DEFINE s == SlotNamed(n)
  <2>1. s \in DOMAIN context /\ context[s].name = n
    BY <1>1, <1>4, SlotOfName
  <2>2. ArgFor(group, c, s) = given(n)
    BY <1>1, <2>1 DEF ArgFor, At
  <2> HIDE DEF s, given
  <2>3. /\ given(n).of \in NamesOf(context) \ Running.binds /\ given(n).of \in NamesOf(Running.params)
        /\ Swapped(c)[s] = Value(given(n), slots[SlotNamed(given(n).of)])
    BY <2>1, <2>2, SlotPassed
  <2>4. Native(given(n).of) = slots[SlotNamed(given(n).of)]
    BY <1>1, <2>3 DEF Native, Faithful
  <2> QED BY <1>3, <1>4, <2>3, <2>4 DEF s
<1>5. ASSUME NEW n \in NamesOf(params), n \notin NamesOf(context)
      PROVE  Entered(c).payload[n] = Entered(c).native[n]
  <2>1. PICK i \in DOMAIN params : params[i].name = n
    BY NamesAre
  <2>2. PositionOf(params, n) = i /\ given(n) = c.args[i]
    BY <1>2, <2>1, Positions
  <2> DEFINE arg == c.args[i]
  <2>3. Entered(c).payload[n] = Value(arg, Sees(arg.of)) /\ Entered(c).native[n] = Value(arg, Native(arg.of))
    BY <1>3, <1>5, <2>2
  <2>4. CASE arg.form = "other"
    BY <2>3, <2>4 DEF Value
  <2>5. CASE arg.form # "other"
    <3>1. /\ arg.of \in NamesOf(Running.params)
          /\ ParamNamed(Running.params, arg.of).ref = params[i].ref
      BY <1>1, <1>2, <2>1, <2>5, GroupFacts DEF Typed
    <3>2. params[i].ref # "mut"
      <4>1. params[i].ref = "mut" => n \in NamesOf(context)
        <5> SUFFICES ASSUME params[i].ref = "mut" PROVE n \in NamesOf(context)
          OBVIOUS
        <5>1. IsSlot(Promoted(group), group.members[k].params[i])
          BY DEF IsSlot
        <5> HIDE DEF k
        <5>2. group.members[k].params[i].name \in NamesOf(SplitParams(Promoted(group), group.members[k]))
          BY <1>1, <1>2, <5>1, SlotOfParam
        <5> QED BY <1>1, <1>2, <2>1, <5>2, SameSlots
      <4> QED BY <1>5, <4>1
    <3>3. arg.of \in NamesOf(context) => arg.of \notin Running.binds
      <4> SUFFICES ASSUME arg.of \in NamesOf(context) PROVE arg.of \notin Running.binds
        OBVIOUS
      <4> HIDE DEF m, arg
      <4>1. arg.of \in NamesOf(SplitParams(Promoted(group), group.members[m]))
        BY <1>1, SameSlots
      <4>2. PICK x \in DOMAIN group.members[m].params :
              group.members[m].params[x].name = arg.of /\ IsSlot(Promoted(group), group.members[m].params[x])
        BY <1>1, <4>1, NamedSlot
      <4>3. Distinct(group.members[m].params)
        BY <1>1, GroupFacts
      <4>4. ParamNamed(group.members[m].params, arg.of) = group.members[m].params[x]
        BY <4>2, <4>3, Positions
      <4>5. group.members[m].params[x].ref # "mut"
        BY <1>1, <3>1, <3>2, <4>4
      <4>6. arg.of \in Promoted(group)
        BY <4>2, <4>5 DEF IsSlot
      <4> QED BY <1>1, <4>6, PromotedEverywhere
    <3>4. Sees(arg.of) = Native(arg.of)
      BY <3>1, <3>3, SeenNatively
    <3> QED BY <2>3, <3>4
  <2> QED BY <2>4, <2>5
<1> HIDE DEF k, given
<1> QED BY <1>3, <1>4, <1>5 DEF Faithful
-----------------------------------------------------------------------------
(* Views, step by step. *)

\* What depends on the group alone stays.
LEMMA ViewsKeep ==
  ASSUME UNCHANGED <<group, context>>
  PROVE  /\ \A v : Apart(v)' <=> Apart(v)
         /\ \A f, v : Faithful(f, v)' <=> Faithful(f, v)
         /\ \A v, saved : Back(v, saved)' = Back(v, saved)
BY DEF Apart, Faithful, Back, SlotNamed

\* What views of the next state must be.
LEMMA NextViews ==
  ASSUME UNCHANGED <<group, context>>, NEW views,
         views \in [1..Len(stack') -> [DOMAIN context -> Seq(Places)]],
         views[Len(stack')] = slots',
         \A k \in 1..(Len(stack') - 1) : views[k] = Back(views[k + 1], stack'[k].saved),
         \A k \in 1..Len(stack') : Apart(views[k]) /\ Faithful(stack'[k], views[k])
  PROVE  ViewInv'
<1>1. \A v : Apart(v)' <=> Apart(v)
  BY ViewsKeep
<1>2. \A f, v : Faithful(f, v)' <=> Faithful(f, v)
  BY ViewsKeep
<1>3. \A v, saved : Back(v, saved)' = Back(v, saved)
  BY ViewsKeep
<1>4. Views(views)'
  BY <1>1, <1>2, <1>3 DEF Views
<1> QED BY <1>4 DEF ViewInv

LEMMA StartViews ==
  ASSUME TypeInv, TypeInv', NEW m \in DOMAIN group.members, Start(m)
  PROVE  ViewInv'
<1> DEFINE names == NamesOf(group.members[m].params)
           outer(S) == [n \in S |-> Outer(n)]
           frame == [member |-> m, entered |-> TRUE, native |-> outer(names),
                     payload |-> outer(names \ NamesOf(context)), saved |-> {}]
<1>1. /\ status' = "running" /\ stack' = <<frame>> /\ status = "ready"
      /\ slots' = [s \in DOMAIN context |-> Outer(context[s].name)]
      /\ group' = group /\ context' = context
  BY DEF Start
<1>2. group \in Groups /\ Analysed /\ context = Context(group) /\ context \in Seq(ParamType)
  BY <1>1 DEF TypeInv, TypeOK, Analysed
<1>3. slots' \in [DOMAIN context -> Seq(Places)]
  BY <1>1 DEF TypeInv
<1>4. Len(stack') = 1 /\ stack'[1] = frame
  BY <1>1
<1>5. Apart(slots')
  <2> SUFFICES ASSUME NEW s \in DOMAIN context, NEW t \in DOMAIN context, s # t
               PROVE  Unrelated(slots'[s], slots'[t])
    BY DEF Apart
  <2>1. context[s].name # context[t].name
    BY <1>2, ContextNames DEF Distinct
  <2>2. context[s].name \in Names /\ context[t].name \in Names
    <3>1. context[s] \in ParamType /\ context[t] \in ParamType
      BY <1>2, LenProperties, ElementOfSeq
    <3> QED BY <3>1 DEF ParamType
  <2> QED BY <1>1, <2>1, <2>2, OuterUnrelated
<1>6. Faithful(frame, slots')
  <2> SUFFICES ASSUME NEW n \in names
               PROVE  IF n \in NamesOf(context) THEN slots'[SlotNamed(n)] = frame.native[n]
                      ELSE frame.payload[n] = frame.native[n]
    BY DEF Faithful
  <2>1. CASE n \in NamesOf(context)
    <3>1. SlotNamed(n) \in DOMAIN context /\ context[SlotNamed(n)].name = n
      BY <1>2, <2>1, SlotOfName
    <3> QED BY <1>1, <2>1, <3>1
  <2>2. CASE n \notin NamesOf(context)
    BY <2>2
  <2> QED BY <2>1, <2>2
<1> HIDE DEF frame
<1>7. PICK views : views = [k \in 1..1 |-> slots']
  OBVIOUS
<1>8. views \in [1..Len(stack') -> [DOMAIN context -> Seq(Places)]] /\ views[Len(stack')] = slots'
  BY <1>3, <1>4, <1>7
<1>9. \A k \in 1..Len(stack') : Apart(views[k]) /\ Faithful(stack'[k], views[k])
  BY <1>4, <1>5, <1>6, <1>7
<1>10. 1..(Len(stack') - 1) = {}
  BY <1>4
<1> QED BY <1>1, <1>8, <1>9, <1>10, NextViews

LEMMA CallViews ==
  ASSUME TypeInv, status = "running", Straight(group), ViewInv, NEW c \in Running.calls, Call(c)
  PROVE  ViewInv'
<1> DEFINE n == Len(stack)
           top == [Top EXCEPT !.saved = {<<s, slots[s]>> : s \in SwappedSlots(c)}, !.entered = FALSE]
<1>1. n \in Nat \ {0} /\ Top = stack[n] /\ Top \in Frame
  BY AtTop DEF Top
<1>2. PICK views : Views(views)
  BY DEF ViewInv
<1>3. /\ views \in [1..n -> [DOMAIN context -> Seq(Places)]] /\ views[n] = slots
      /\ \A k \in 1..(n - 1) : views[k] = Back(views[k + 1], stack[k].saved)
      /\ \A k \in 1..n : Apart(views[k]) /\ Faithful(stack[k], views[k])
  BY <1>2 DEF Views
<1>4. /\ Len(stack') = n + 1
      /\ \A k \in 1..(n - 1) : stack'[k] = stack[k]
      /\ stack'[n] = top /\ stack'[n + 1] = Entered(c)
  BY StackOfCall
<1>5. UNCHANGED <<group, context>> /\ slots' = Swapped(c)
  BY DEF Call
<1>6. Swapped(c) \in [DOMAIN context -> Seq(Places)] /\ SwappedSlots(c) \subseteq DOMAIN context
  BY SwapTypes
<1>7. Apart(slots) /\ Faithful(Top, slots)
  BY <1>1, <1>3
<1>8. Apart(Swapped(c)) /\ Faithful(Entered(c), Swapped(c))
  BY <1>7, CallApart, CallFaithful
<1>9. Faithful(top, slots)
  <2>1. top.member = Top.member /\ top.native = Top.native /\ top.payload = Top.payload
    BY <1>1 DEF Frame
  <2> QED BY <1>7, <2>1 DEF Faithful
<1>10. slots = Back(Swapped(c), top.saved)
  <2>1. top.saved = {<<s, slots[s]>> : s \in SwappedSlots(c)}
    BY <1>1 DEF Frame
  <2> HIDE DEF top
  <2>2. slots \in [DOMAIN context -> Seq(Places)]
    BY DEF TypeInv
  <2>3. ASSUME NEW s \in DOMAIN context PROVE Back(Swapped(c), top.saved)[s] = slots[s]
    <3>1. CASE s \in SwappedSlots(c)
      <4>1. <<s, slots[s]>> \in top.saved /\ \A v \in top.saved : v[1] = s => v = <<s, slots[s]>>
        BY <2>1, <3>1
      <4>2. (CHOOSE v \in top.saved : v[1] = s) = <<s, slots[s]>>
        BY <4>1
      <4> QED BY <4>1, <4>2 DEF Back
    <3>2. CASE s \notin SwappedSlots(c)
      <4>1. ~\E v \in top.saved : v[1] = s
        BY <2>1, <3>2
      <4>2. Swapped(c)[s] = slots[s]
        BY <2>2, <3>2 DEF Swapped
      <4> QED BY <4>1, <4>2 DEF Back
    <3> QED BY <3>1, <3>2
  <2>4. Back(Swapped(c), top.saved) = [s \in DOMAIN context |-> Back(Swapped(c), top.saved)[s]]
    BY DEF Back
  <2>5. slots = [s \in DOMAIN context |-> slots[s]]
    BY <2>2
  <2> HIDE DEF Back
  <2> QED BY <2>3, <2>4, <2>5
<1> HIDE DEF top, n
<1>11. PICK next : next = [k \in 1..(n + 1) |-> IF k = n + 1 THEN Swapped(c) ELSE views[k]]
  OBVIOUS
<1>12. /\ next[n + 1] = Swapped(c) /\ \A k \in 1..n : next[k] = views[k]
       /\ next \in [1..(n + 1) -> [DOMAIN context -> Seq(Places)]]
  <2>1. \A k \in 1..n : k \in 1..(n + 1) /\ k # n + 1
    BY <1>1
  <2>2. n + 1 \in 1..(n + 1) /\ \A k \in 1..(n + 1) : k = n + 1 \/ k \in 1..n
    BY <1>1
  <2> QED BY <1>3, <1>6, <1>11, <2>1, <2>2
<1>13. ASSUME NEW k \in 1..n PROVE next[k] = Back(next[k + 1], stack'[k].saved)
  <2>1. CASE k = n
    <3>1. n \in 1..n
      BY <1>1
    <3>2. next[k] = slots /\ next[k + 1] = Swapped(c) /\ stack'[k].saved = top.saved
      BY <1>3, <1>4, <1>12, <2>1, <3>1
    <3> QED BY <1>10, <3>2
  <2>2. CASE k \in 1..(n - 1)
    <3>1. k + 1 \in 1..n
      BY <1>1, <2>2
    <3>2. next[k] = views[k] /\ next[k + 1] = views[k + 1] /\ stack'[k].saved = stack[k].saved
      BY <1>4, <1>12, <2>2, <3>1
    <3> QED BY <1>3, <2>2, <3>2
  <2> QED BY <1>1, <2>1, <2>2
<1>14. ASSUME NEW k \in 1..(n + 1) PROVE Apart(next[k]) /\ Faithful(stack'[k], next[k])
  <2>1. CASE k = n + 1
    BY <1>4, <1>8, <1>12, <2>1
  <2>2. CASE k = n
    <3>1. n \in 1..n
      BY <1>1
    <3>2. next[k] = slots /\ stack'[k] = top
      BY <1>3, <1>4, <1>12, <2>2, <3>1
    <3> QED BY <1>7, <1>9, <3>2
  <2>3. CASE k \in 1..(n - 1)
    <3>1. k \in 1..n
      BY <1>1, <2>3
    <3>2. next[k] = views[k] /\ stack'[k] = stack[k]
      BY <1>4, <1>12, <2>3, <3>1
    <3> QED BY <1>3, <3>1, <3>2
  <2> QED BY <1>1, <2>1, <2>2, <2>3
<1>15. Len(stack') - 1 = n
  BY <1>1, <1>4
<1> QED BY <1>4, <1>5, <1>12, <1>13, <1>14, <1>15, NextViews

LEMMA TailCallViews ==
  ASSUME TypeInv, status = "running", Straight(group), ViewInv, NEW c \in Running.calls, TailCall(c)
  PROVE  ViewInv'
<1> DEFINE n == Len(stack)
<1>1. n \in Nat \ {0} /\ Top = stack[n]
  BY AtTop DEF Top
<1>2. PICK views : Views(views)
  BY DEF ViewInv
<1>3. /\ views \in [1..n -> [DOMAIN context -> Seq(Places)]] /\ views[n] = slots
      /\ \A k \in 1..(n - 1) : views[k] = Back(views[k + 1], stack[k].saved)
      /\ \A k \in 1..n : Apart(views[k]) /\ Faithful(stack[k], views[k])
  BY <1>2 DEF Views
<1>4. Len(stack') = n /\ \A k \in 1..n : stack'[k] = IF k = n THEN Entered(c) ELSE stack[k]
  BY StackOfTailCall
<1>5. UNCHANGED <<group, context>> /\ slots' = slots /\ Swapped(c) = slots
  <2>1. SwappedSlots(c) = {} /\ slots' = Swapped(c) /\ UNCHANGED <<group, context>>
    BY DEF TailCall
  <2>2. Swapped(c) = [s \in DOMAIN slots |-> slots[s]]
    BY <2>1 DEF Swapped
  <2>3. slots = [s \in DOMAIN slots |-> slots[s]]
    BY DEF TypeInv
  <2> QED BY <2>1, <2>2, <2>3
<1>6. Faithful(Entered(c), slots)
  <2>1. Faithful(Top, slots)
    BY <1>1, <1>3
  <2> QED BY <1>5, <2>1, CallFaithful
<1> HIDE DEF n
<1>7. \A k \in 1..n : Apart(views[k]) /\ Faithful(stack'[k], views[k])
  BY <1>3, <1>4, <1>6
<1>8. \A k \in 1..(n - 1) : views[k] = Back(views[k + 1], stack'[k].saved)
  <2>1. \A k \in 1..(n - 1) : k \in 1..n /\ k # n
    BY <1>1
  <2> QED BY <1>3, <1>4, <2>1
<1> QED BY <1>3, <1>4, <1>5, <1>7, <1>8, NextViews

LEMMA ReturnViews ==
  ASSUME TypeInv, ViewInv, Return
  PROVE  ViewInv'
<1>1. status = "running" /\ UNCHANGED <<group, context>>
  BY DEF Return
<1>2. CASE Len(stack) = 1
  BY <1>2 DEF Return, ViewInv
<1>3. CASE Len(stack) # 1
  <2> DEFINE n == Len(stack) - 1
  <2>1. PICK views : Views(views)
    BY <1>1 DEF ViewInv
  <2>2. Len(stack) \in Nat
    BY <1>1, AtTop
  <2>3. /\ n \in Nat \ {0} /\ Len(stack') = n
        /\ \A k \in 1..(n - 1) : stack'[k] = stack[k]
        /\ stack'[n] = [stack[n] EXCEPT !.saved = {}]
    <3>1. n - 1 = Len(stack) - 2
      BY <2>2
    <3> QED BY <1>1, <1>3, <3>1, StackOfReturn
  <2>4. n + 1 = Len(stack)
    BY <2>2
  <2>5. slots' = Restored(stack[n])
    BY <1>3 DEF Return
  <2>6. slots' = Back(slots, stack[n].saved)
    <3>1. DOMAIN slots = DOMAIN context
      BY <1>1 DEF TypeInv
    <3> HIDE DEF n
    <3> QED BY <2>5, <3>1 DEF Restored, Back
  <2> HIDE DEF n
  <2>7. /\ views \in [1..(n + 1) -> [DOMAIN context -> Seq(Places)]] /\ views[n + 1] = slots
        /\ \A k \in 1..n : views[k] = Back(views[k + 1], stack[k].saved)
        /\ \A k \in 1..(n + 1) : Apart(views[k]) /\ Faithful(stack[k], views[k])
    <3>1. n = Len(stack) - 1
      BY <2>2, <2>3, <2>4
    <3> QED BY <2>1, <2>4, <3>1 DEF Views
  <2>8. PICK next : next = [k \in 1..n |-> views[k]]
    OBVIOUS
  <2>9. \A k \in 1..n : k \in 1..(n + 1)
    BY <2>3
  <2>10. next \in [1..n -> [DOMAIN context -> Seq(Places)]] /\ \A k \in 1..n : next[k] = views[k]
    BY <2>7, <2>8, <2>9
  <2>11. n \in 1..n
    BY <2>3
  <2>12. next[n] = slots'
    BY <2>6, <2>7, <2>10, <2>11
  <2>13. Faithful(stack'[n], views[n])
    <3>1. stack[n] \in Frame
      BY <1>1, <2>4, <2>9, <2>11, Frames
    <3>2. /\ stack'[n].member = stack[n].member /\ stack'[n].native = stack[n].native
          /\ stack'[n].payload = stack[n].payload
      BY <2>3, <3>1 DEF Frame
    <3>3. Faithful(stack[n], views[n])
      BY <2>7, <2>9, <2>11
    <3> QED BY <3>2, <3>3 DEF Faithful
  <2>14. ASSUME NEW k \in 1..n PROVE Apart(next[k]) /\ Faithful(stack'[k], next[k])
    <3>1. CASE k = n
      BY <2>7, <2>9, <2>10, <2>13, <3>1
    <3>2. CASE k # n
      <4>1. k \in 1..(n - 1)
        BY <2>3, <3>2
      <4> QED BY <2>3, <2>7, <2>9, <2>10, <4>1
    <3> QED BY <3>1, <3>2
  <2>15. ASSUME NEW k \in 1..(n - 1) PROVE next[k] = Back(next[k + 1], stack'[k].saved)
    <3>1. k \in 1..n /\ k + 1 \in 1..n
      BY <2>3
    <3> QED BY <2>3, <2>7, <2>10, <3>1
  <2> QED BY <1>1, <2>3, <2>10, <2>12, <2>14, <2>15, NextViews
<1> QED BY <1>2, <1>3
-----------------------------------------------------------------------------
(* Straight groups. *)

StraightInv == TypeInv /\ ViewInv

LEMMA InitViews == Init => StraightInv
BY InitTypes DEF Init, ViewInv, StraightInv

LEMMA NextViewsKept ==
  ASSUME \A g \in Groups : Accepted(g) => Straight(g)
  PROVE  StraightInv /\ [Next]_vars => StraightInv'
<1> SUFFICES ASSUME StraightInv, [Next]_vars PROVE StraightInv'
  OBVIOUS
<1>1. TypeInv /\ ViewInv /\ TypeInv'
  BY NextTypes DEF StraightInv
<1>7. status = "running" => Straight(group)
  BY <1>1 DEF TypeInv, Analysed
<1>2. CASE UNCHANGED vars
  <2>1. /\ status' = status /\ stack' = stack /\ slots' = slots
        /\ context' = context /\ promoted' = promoted /\ group' = group
    BY <1>2 DEF vars
  <2>2. ViewInv'
    <3>1. CASE status # "running"
      BY <2>1, <3>1 DEF ViewInv
    <3>2. CASE status = "running"
      <4>1. PICK views : Views(views)
        BY <1>1, <3>2 DEF ViewInv
      <4> QED BY <2>1, <4>1, NextViews DEF Views
    <3> QED BY <3>1, <3>2
  <2> QED BY <1>1, <2>2 DEF StraightInv
<1>3. CASE Analyse
  <2>1. status' # "running"
    BY <1>3 DEF Analyse
  <2> QED BY <1>1, <2>1 DEF ViewInv, StraightInv
<1>4. CASE \E m \in DOMAIN group.members : Start(m)
  BY <1>1, <1>4, StartViews DEF StraightInv
<1>5. CASE status = "running" /\ \E c \in Running.calls : Call(c) \/ TailCall(c)
  BY <1>1, <1>5, <1>7, CallViews, TailCallViews DEF StraightInv
<1>6. CASE Return
  BY <1>1, <1>6, ReturnViews DEF StraightInv
<1> QED BY <1>2, <1>3, <1>4, <1>5, <1>6 DEF Next

\* What the running activation's view says of the slots.
LEMMA RunningView ==
  ASSUME StraightInv, status = "running"
  PROVE  Apart(slots) /\ Faithful(Top, slots)
<1>1. PICK views : Views(views)
  BY DEF StraightInv, ViewInv
<1>2. Len(stack) \in 1..Len(stack) /\ Top = stack[Len(stack)]
  BY AtTop DEF StraightInv, Top
<1> QED BY <1>1, <1>2 DEF Views

\* In a group that is straight or refused no two slots ever reach one place while either may
\* write it: the places a call lends lie in slots of its caller, in different ones or in
\* different parts of one.
THEOREM ContextsNoAliasing ==
  ASSUME \A g \in Groups : Accepted(g) => Straight(g)
  PROVE  Spec => []NoAliasing
<1>1. StraightInv => NoAliasing
  <2> SUFFICES ASSUME StraightInv PROVE NoAliasing
    OBVIOUS
  <2>1. CASE status # "running"
    <3>1. slots = <<>>
      BY <2>1 DEF StraightInv, TypeInv
    <3>2. DOMAIN slots = {}
      BY <3>1
    <3> QED BY <3>2 DEF NoAliasing
  <2>2. CASE status = "running"
    <3>1. DOMAIN slots = DOMAIN context
      BY <2>2 DEF StraightInv, TypeInv
    <3> QED BY <2>2, <3>1, RunningView DEF NoAliasing, Apart, Unrelated
  <2> QED BY <2>1, <2>2
<1> QED BY <1>1, InitViews, NextViewsKept, PTL DEF Spec

\* And the running body of such a group finds in its parameters what native recursion
\* would have given them, after any calls, tail calls and returns.
THEOREM ContextsParametersKept ==
  ASSUME \A g \in Groups : Accepted(g) => Straight(g)
  PROVE  Spec => []ParametersKept
<1>1. StraightInv => ParametersKept
  <2> SUFFICES ASSUME StraightInv, status = "running",
                      NEW n \in NamesOf(Running.params) \ Running.binds
               PROVE  Sees(n) = Top.native[n]
    BY DEF ParametersKept
  <2>1. Faithful(Top, slots) /\ TypeInv
    BY RunningView DEF StraightInv
  <2>2. Sees(n) = Native(n)
    BY <2>1, SeenNatively
  <2> QED BY <2>2 DEF Native
<1> QED BY <1>1, InitViews, NextViewsKept, PTL DEF Spec
=============================================================================
