------------------------------ MODULE CallGraph ------------------------------
(***************************************************************************)
(* What `#[stack_safe]` rewrites of a scope (src/stack_safe/scope.rs and   *)
(* `expand_roots` in scan.rs): the definitions in it, the call graph, its  *)
(* cycles, and each cycle moved out of the bodies that declare its members *)
(* and written back as one driver; under which options, and what is        *)
(* emitted beside it (src/stack_safe/group.rs).                            *)
(*                                                                         *)
(* A scope is what `collect` and `mentioned` read off the source: the      *)
(* definitions in collection order, each with its root, its path of        *)
(* ordinals below that root and its name, and the calls each body makes.   *)
(* A body is the slots below it: a slot holds a function, the placeholder  *)
(* `take` leaves, or the driver of a cycle.  Modules and impl blocks       *)
(* inside the scope are scopes of their own, expanded by the same code:    *)
(* how that went is given.                                                 *)
(***************************************************************************)
EXTENDS Options

CONSTANTS Scopes,  \* the scopes considered
          Names    \* the names of functions

Written == {"bare", "inThisModule", "onAValue", "inAMacro"}
Mentions == [name : Names, written : Written, rewritable : BOOLEAN]
\* A nested function may be declared in a block of the body rather than in the body itself.
DefType ==
  [owner : Nat \ {0}, path : Seq(Nat), name : Names, inBlock : BOOLEAN, marks : Marks]
\* A module or impl block: in the body of a definition, or (`under` 0) an item of the module;
\* and what its own expansion reports.
ContainerType ==
  [under : Nat, marks : Marks, outcome : {"rewritten", "unchanged", "error"}]
ScopeType ==
  [defs       : Seq(DefType),
   mentions   : Seq(SUBSET Mentions),
   assoc      : BOOLEAN,  \* the roots are impl items
   trait      : BOOLEAN,  \* of a trait impl
   annotated  : BOOLEAN,  \* it carries the attribute being expanded
   given      : Opts,     \* what that attribute, or the enclosing scope, asks for
   marks      : Marks,    \* the markers of the module or impl block itself
   containers : Seq(ContainerType)]

Defs(s) == 1..Len(s.defs)
Path(s, i) == s.defs[i].path
IsRoot(s, i) == Path(s, i) = <<>>

\* `j` is declared in the body of `i`, at any depth.
Under(s, j, i) ==
  /\ s.defs[i].owner = s.defs[j].owner
  /\ IsStrictPrefix(Path(s, i), Path(s, j))

\* The body of `i` declares `j`, not deeper.
Declares(s, i, j) == Under(s, j, i) /\ Front(Path(s, j)) = Path(s, i)

\* `collect`: a definition is addressed by its root and its path, and comes after the
\* shallower ones.
Collected(s) ==
  /\ Len(s.mentions) = Len(s.defs)
  /\ \A i, j \in Defs(s) : i < j => Len(Path(s, i)) <= Len(Path(s, j))
  /\ \A i, j \in Defs(s) :
       s.defs[i].owner = s.defs[j].owner /\ Path(s, i) = Path(s, j) => i = j
  /\ \A i \in Defs(s) : ~IsRoot(s, i) => \E j \in 1..(i - 1) : Declares(s, j, i)
  /\ \A k \in DOMAIN s.containers : s.containers[k].under \in {0} \union Defs(s)

ASSUME ScopesAssumption == \A s \in Scopes : s \in ScopeType /\ Collected(s)
-----------------------------------------------------------------------------
\* Which options are in force where.

Own(s, i) == TakeFrom(s.defs[i].marks)
Bodies(s) == {k \in DOMAIN s.containers : s.containers[k].under # 0}
Items(s) == DOMAIN s.containers \ Bodies(s)

\* A marker that cannot be read, or a container of a body that cannot be expanded.
Unreadable(s) ==
  \/ TakeFrom(s.marks) = Bad
  \/ \E i \in Defs(s) : Own(s, i) = Bad
  \/ \E k \in Bodies(s) : TakeFrom(s.containers[k].marks) = Bad \/ s.containers[k].outcome = "error"

\* A marker on the container shadows what it was given.
ScopeOpts(s) == OwnOr(TakeFrom(s.marks), s.given)

(* A nested definition without a marker has the scope's options. *)
InForceMutant(s) == [i \in Defs(s) |-> OwnOr(Own(s, i), ScopeOpts(s))]

\* Its own marker replaces what the body around it hands on, all of it.
InForce(s) ==
  LET opts[i \in Defs(s)] ==
        OwnOr(Own(s, i), IF IsRoot(s, i) THEN ScopeOpts(s)
                         ELSE opts[CHOOSE j \in 1..(i - 1) : Declares(s, j, i)])
  IN  opts

\* The options a container of this scope is expanded with.
PassedOn(s, k) == OwnOr(TakeFrom(s.containers[k].marks), ScopeOpts(s))
-----------------------------------------------------------------------------
\* The call graph.

InScope(s, from, j) ==
  IsRoot(s, j) \/ /\ s.defs[j].owner = s.defs[from].owner
                  /\ IsPrefix(Front(Path(s, j)), Path(s, from))

Nameable(s, mn, j) ==
  \/ mn.written = "bare" /\ (~IsRoot(s, j) \/ ~s.assoc)
  \/ mn.written = "inThisModule" /\ IsRoot(s, j) /\ ~s.assoc
  \/ mn.written = "onAValue" /\ IsRoot(s, j) /\ s.assoc
  \/ mn.written = "inAMacro"

\* What a mention may resolve to; more than one is an error.
Resolve(s, from, mn) ==
  LET candidates == {j \in Defs(s) : /\ s.defs[j].name = mn.name
                                     /\ Nameable(s, mn, j)
                                     /\ InScope(s, from, j)}
  IN {j \in candidates : \A c \in candidates : Len(Path(s, c)) <= Len(Path(s, j))}

CallsOf(s, i, rewritable) ==
  UNION {Resolve(s, i, mn) : mn \in {m \in s.mentions[i] : m.rewritable = rewritable}}

Edges(s) == [i \in Defs(s) |-> CallsOf(s, i, TRUE)]
Blocked(s) == [i \in Defs(s) |-> CallsOf(s, i, FALSE)]

Ambiguous(s) ==
  \E i \in Defs(s) : \E mn \in s.mentions[i] : Cardinality(Resolve(s, i, mn)) > 1

(* The row and the column are swapped. *)
ThroughMutant(rows, k) ==
  [i \in DOMAIN rows |-> IF i \in rows[k] THEN rows[i] \union rows[k] ELSE rows[i]]

\* One round of `closure`: whatever reaches `k` reaches what `k` reaches.
Through(rows, k) ==
  [i \in DOMAIN rows |-> IF k \in rows[i] THEN rows[i] \union rows[k] ELSE rows[i]]

Together(rows, i, j) == j \in rows[i] /\ i \in rows[j]

\* The first member of each cycle in collection order, so an outermost one.
Hosts(rows) ==
  {i \in DOMAIN rows : Together(rows, i, i) /\ \A j \in 1..(i - 1) : ~Together(rows, i, j)}

Members(rows, h) == {j \in DOMAIN rows : Together(rows, h, j)}

(* Cycles are rewritten in the order they are found. *)
NextHostMutant(hosts) == Min(hosts)

\* Deepest first, so that a body is moved after what it holds.
NextHost(hosts) == Max(hosts)

(* A body is taken before what it holds. *)
NextMemberMutant(group) == Min(group)
NextMember(group) == Max(group)
-----------------------------------------------------------------------------
\* What is an error.

(* Each blocked call is judged by the graph without the others. *)
UnresolvableMutant(calls, rows, all) ==
  \E i \in DOMAIN calls : \E j \in calls[i] : i \in rows[j] /\ j \notin rows[i]

\* A call that closes a cycle is written in a way the rewriter cannot follow.
Unresolvable(calls, rows, all) ==
  \E i \in DOMAIN calls : \E j \in calls[i] : i \in all[j] /\ j \notin rows[i]

\* A marker covers no recursion.
NoEffect(s, rows) == \E i \in Defs(s) : Own(s, i) # None /\ i \notin rows[i]

\* What else a member's body declares, which is moved out to enclose those of all members:
\* what stands in a block of it stays there.
HoistedFrom(s, group, i) ==
  {j \in Defs(s) \ group : Declares(s, i, j) /\ ~s.defs[j].inBlock}
Hoisted(s, group) == UNION {HoistedFrom(s, group, i) : i \in group}

\* One driver, one rewriting.
Disagree(s, group, host) ==
  \E i \in group : ~SameRewrite(InForce(s)[i], InForce(s)[host])

SameName(s, i, j) == i # j /\ s.defs[i].name = s.defs[j].name

(* Two members may have one name. *)
RejectedMutant(s, rows, group, host) ==
  \/ s.trait /\ IsRoot(s, host)
  \/ Disagree(s, group, host)

\* The members of a cycle cannot share a driver.
Rejected(s, rows, group, host) ==
  \/ s.trait /\ IsRoot(s, host)
  \/ Disagree(s, group, host)
  \/ \E i, j \in group : SameName(s, i, j)
  \/ \E i, j \in group :
       /\ i # j
       /\ \E x \in HoistedFrom(s, group, i), y \in HoistedFrom(s, group, j) :
            SameName(s, x, y) /\ x \notin rows[x] /\ y \notin rows[y]
  \/ \E i, j \in group : \E mn \in s.mentions[i] :
       mn.written = "inAMacro" /\ mn.name = s.defs[j].name

\* The member a call in a member's body is rewritten into a step to: by name.
RecCall(s, group, mn) ==
  {j \in group : /\ mn.rewritable /\ s.defs[j].name = mn.name
                 /\ \/ mn.written \in {"bare", "onAValue"}
                    \/ mn.written = "inThisModule" /\ ~s.assoc}

\* What a call in the body of member `i` means where the body has been moved to.
Becomes(s, group, i, mn) ==
  LET captured == {j \in Hoisted(s, group) : mn.written = "bare" /\ s.defs[j].name = mn.name}
  IN CASE RecCall(s, group, mn) # {}                      -> RecCall(s, group, mn)
       [] RecCall(s, group, mn) = {} /\ captured # {}     -> captured
       [] RecCall(s, group, mn) = {} /\ captured = {}     -> Resolve(s, i, mn)
-----------------------------------------------------------------------------
VARIABLES scope,      \* the scope being expanded
          edges,      \* the calls the rewriter follows
          blocked,    \* the calls it does not
          phase,      \* closing, checking, expanding, or how it ended
          round,      \* the next round of `closure`
          reaches,    \* the closure of the rewritable calls, so far
          optimistic, \* the closure of all calls, so far
          todo,       \* the cycles still to be rewritten, by their hosts
          members,    \* the members of the first of them still to be taken out
          slot,       \* what stands where each definition was declared
          held,       \* the slots below each member when it was taken out
          changed     \* the roots with a cycle or a container written back into their bodies

vars == <<scope, edges, blocked, phase, round, reaches, optimistic, todo, members, slot, held, changed>>
input == <<scope, edges, blocked>>
optimisticEdges == [i \in DOMAIN edges |-> edges[i] \union blocked[i]]

Slots == {"fn", "empty", "driver"}
Roots == {i \in Defs(scope) : IsRoot(scope, i)}
NotTaken == <<>>
Taken(i) == held[i] # NotTaken

MembersToTake(rows, hosts) == IF hosts = {} THEN {} ELSE Members(rows, NextHost(hosts))

Init ==
  /\ scope \in Scopes
  /\ edges = Edges(scope)
  /\ blocked = Blocked(scope)
  /\ phase = IF Unreadable(scope) \/ Ambiguous(scope) THEN "error" ELSE "closing"
  /\ round = 1
  /\ reaches = edges
  /\ optimistic = optimisticEdges
  /\ todo = {}
  /\ members = {}
  /\ slot = [i \in Defs(scope) |-> "fn"]
  /\ held = [i \in Defs(scope) |-> NotTaken]
  /\ changed = {scope.defs[scope.containers[k].under].owner : k \in Bodies(scope)}

(* The rounds run one past the last definition. *)
CloseMutant ==
  /\ phase = "closing"
  /\ IF round <= Len(scope.defs) + 1
     THEN round' = round + 1 /\ UNCHANGED phase
     ELSE phase' = "checking" /\ UNCHANGED round
  /\ UNCHANGED <<input, reaches, optimistic, todo, members, slot, held, changed>>

\* A round of the two calls of `closure`.
Close ==
  /\ phase = "closing"
  /\ IF round \in Defs(scope)
     THEN /\ reaches' = Through(reaches, round)
          /\ optimistic' = Through(optimistic, round)
          /\ round' = round + 1
          /\ UNCHANGED phase
     ELSE phase' = "checking" /\ UNCHANGED <<reaches, optimistic, round>>
  /\ UNCHANGED <<input, todo, members, slot, held, changed>>

Check ==
  /\ phase = "checking"
  /\ IF Unresolvable(blocked, reaches, optimistic) \/ NoEffect(scope, reaches)
     THEN phase' = "error" /\ UNCHANGED <<todo, members>>
     ELSE /\ phase' = "expanding"
          /\ todo' = Hosts(reaches)
          /\ members' = MembersToTake(reaches, todo')
  /\ UNCHANGED <<input, round, reaches, optimistic, slot, held, changed>>

\* `with_item_mut` finds a definition through the functions that hold it.
Addressable(i) == \A a \in Defs(scope) : Under(scope, i, a) => slot[a] = "fn"

\* The last member in collection order is taken out of the body that declares it;
\* a root is copied.
Take ==
  /\ phase = "expanding" /\ members # {}
  /\ LET i == NextMember(members)
     IN /\ IF IsRoot(scope, i)
           THEN held' = [held EXCEPT ![i] = slot] /\ UNCHANGED <<slot, phase>>
           ELSE IF slot[i] = "fn" /\ Addressable(i)
           THEN /\ held' = [held EXCEPT ![i] = slot]
                /\ slot' = [slot EXCEPT ![i] = "empty"]
                /\ UNCHANGED phase
           ELSE phase' = "panicked" /\ UNCHANGED <<held, slot>>
        /\ members' = members \ {i}
  /\ UNCHANGED <<input, round, reaches, optimistic, todo, changed>>

(* The root the driver was written back into is not noted. *)
WriteBackMutant(group, host) ==
  IF (\A i \in group : scope.defs[i].owner = scope.defs[host].owner) /\ Addressable(host)
  THEN slot' = [slot EXCEPT ![host] = "driver"] /\ UNCHANGED <<changed, phase>>
  ELSE phase' = "panicked" /\ UNCHANGED <<slot, changed>>

\* The driver of a cycle with no root among its members goes where its host was.
WriteBack(group, host) ==
  LET owner == scope.defs[host].owner
  IN IF (\A i \in group : scope.defs[i].owner = owner) /\ Addressable(host)
     THEN /\ slot' = [slot EXCEPT ![host] = "driver"]
          /\ changed' = changed \union {owner}
          /\ UNCHANGED phase
     ELSE phase' = "panicked" /\ UNCHANGED <<slot, changed>>

\* Every member is out: the cycle is rewritten.
Expand ==
  /\ phase = "expanding" /\ members = {} /\ todo # {}
  /\ LET host == NextHost(todo)
         group == Members(reaches, host)
     IN IF Rejected(scope, reaches, group, host)
        THEN phase' = "error" /\ UNCHANGED <<slot, changed, todo, members>>
        ELSE /\ IF IsRoot(scope, host) THEN UNCHANGED <<slot, changed, phase>>
                ELSE WriteBack(group, host)
             /\ todo' = todo \ {host}
             /\ members' = MembersToTake(reaches, todo')
  /\ UNCHANGED <<input, round, reaches, optimistic, held>>

\* The roots that are replaced, in a cycle or with something in their bodies.
Rewritten == {r \in Roots : Taken(r) \/ scope.defs[r].owner \in changed}

(* What was rewritten in the containers of the module is not counted. *)
TransformedMutant == Rewritten # {}

Transformed ==
  Rewritten # {} \/ \E k \in Items(scope) : scope.containers[k].outcome = "rewritten"

\* The container is put together again, its own containers expanded; an annotated one
\* that comes out as it was is an error.
Emit ==
  /\ phase = "expanding" /\ members = {} /\ todo = {}
  /\ LET failed == \E k \in Items(scope) :
                     TakeFrom(scope.containers[k].marks) = Bad \/ scope.containers[k].outcome = "error"
     IN \/ failed /\ phase' = "error"
        \/ ~failed /\ scope.annotated /\ ~Transformed /\ phase' = "no effect"
        \/ ~failed /\ (scope.annotated => Transformed) /\ phase' = "done"
  /\ UNCHANGED <<input, round, reaches, optimistic, todo, members, slot, held, changed>>

\* The expansion ended, with tokens or with an error.
Ended == phase \in {"done", "error", "no effect"} /\ UNCHANGED vars

Next == Close \/ Check \/ Take \/ Expand \/ Emit \/ Ended

Spec == Init /\ [][Next]_vars
-----------------------------------------------------------------------------
\* The emitted program: the text of every root and of every member, each with the
\* slots it was emitted with.
Texts ==
  {[of |-> i, slots |-> held[i]] : i \in {m \in Defs(scope) : Taken(m)}} \union
  {[of |-> r, slots |-> IF scope.defs[r].owner \in changed THEN slot
                        ELSE [i \in Defs(scope) |-> "fn"]] : r \in {m \in Roots : ~Taken(m)}}

\* The texts in which what stands at the slot of `i` is `what`.
Holding(i, what) ==
  {t \in Texts : /\ Under(scope, i, t.of)
                 /\ t.slots[i] = what
                 /\ \A a \in Defs(scope) :
                      Under(scope, i, a) /\ Under(scope, a, t.of) => t.slots[a] = "fn"}

Recursive(i) == i \in reaches[i]

\* The roots a cycle touches, at any depth: each is also emitted as written, under another
\* name, unless the scope is a trait impl (`wants_check`, `originals`).
Copied ==
  IF scope.trait THEN {}
  ELSE {r \in Roots : \E i \in Defs(scope) : Taken(i) /\ scope.defs[i].owner = scope.defs[r].owner}

(* A name is a copy's whatever else has it. *)
RenamedMutant(mn) ==
  /\ mn.rewritable /\ mn.written # "inAMacro"
  /\ \E r \in Copied : scope.defs[r].name = mn.name

\* A call in a copy that is made to the copy of what it names: by the name, if nothing else
\* in the scope has it.
Renamed(mn) ==
  /\ mn.rewritable /\ mn.written # "inAMacro"
  /\ \E r \in Copied : scope.defs[r].name = mn.name /\ \A i \in Defs(scope) : ~SameName(scope, r, i)
-----------------------------------------------------------------------------
TypeOK ==
  /\ scope \in ScopeType
  /\ phase \in {"closing", "checking", "expanding", "done", "no effect", "error", "panicked"}
  /\ round \in 1..(Len(scope.defs) + 1)
  /\ edges \in [Defs(scope) -> SUBSET Defs(scope)]
  /\ blocked \in [Defs(scope) -> SUBSET Defs(scope)]
  /\ reaches \in [Defs(scope) -> SUBSET Defs(scope)]
  /\ optimistic \in [Defs(scope) -> SUBSET Defs(scope)]
  /\ todo \subseteq Defs(scope)
  /\ members \subseteq Defs(scope)
  /\ slot \in [Defs(scope) -> Slots]
  /\ held \in [Defs(scope) -> {NotTaken} \union [Defs(scope) -> Slots]]
  /\ changed \subseteq {scope.defs[i].owner : i \in Defs(scope)}

\* A set of definitions that holds what `i` calls and what they call.
ClosedFrom(graph, i, S) == graph[i] \subseteq S /\ \A j \in S : graph[j] \subseteq S

Least(graph, rows) ==
  \A i \in DOMAIN rows :
    /\ ClosedFrom(graph, i, rows[i])
    /\ \A S \in SUBSET DOMAIN rows : ClosedFrom(graph, i, S) => rows[i] \subseteq S

\* The in-place closure is reachability: what it says `i` reaches is the least set of
\* definitions that holds the callees of `i` and the callees of its own members.
ReachesRight ==
  phase \in {"checking", "expanding", "done"} =>
    Least(edges, reaches) /\ Least(optimisticEdges, optimistic)

\* A function is never moved into a driver with a recursion left unwritten in its body:
\* the copies and the moved text are cut off from what is written back later.
InnerFirst ==
  \A i, j \in Defs(scope) :
    Taken(i) /\ Under(scope, j, i) /\ Recursive(j) => Taken(j) /\ held[i][j] # "fn"

\* The lookups that `expect` to find a function at its path find one, and a cycle with no
\* root among its members lies inside one root.
NeverPanics == phase # "panicked"

\* Every definition is in the emitted program once: a recursive one in the driver of its
\* cycle, whose text is in no other place, and one that does not recurse as written.
OutputComplete ==
  phase = "done" =>
    \A i \in Defs(scope) :
      IF Recursive(i)
      THEN /\ Taken(i)
           /\ Holding(i, "fn") = {}
           /\ IF IsRoot(scope, i) \/ i \notin Hosts(reaches) THEN Holding(i, "driver") = {}
              ELSE Cardinality(Holding(i, "driver")) = 1
      ELSE ~Taken(i) /\ (~IsRoot(scope, i) => Cardinality(Holding(i, "fn")) = 1)

\* A call the rewriter cannot follow is only let through when it stays out of every cycle
\* or its two ends already share a driver.
NoCycleLost ==
  phase \in {"expanding", "done"} =>
    \A i \in Defs(scope) : \A j \in blocked[i] :
      (\A S \in SUBSET Defs(scope) : ClosedFrom(optimisticEdges, j, S) => i \in S)
        => Together(reaches, i, j)

\* Every call that makes a cycle what it is becomes a step of its driver, to the member
\* it names in the source.
MembersFollowed ==
  phase = "done" =>
    \A i \in Defs(scope) : \A mn \in scope.mentions[i] : \A j \in Resolve(scope, i, mn) :
      mn.rewritable /\ Together(reaches, i, j)
        => RecCall(scope, Members(reaches, i), mn) = {j}

\* A call in a rewritten body means what it meant in the source.
CallsKeepTheirMeaning ==
  phase = "done" =>
    \A i \in Defs(scope) : Recursive(i) =>
      \A mn \in scope.mentions[i] :
        Becomes(scope, Members(reaches, i), i, mn) = Resolve(scope, i, mn)

\* The marked functions around `i`, itself included; an item of the module has none.
Around(s, i) ==
  {j \in Defs(s) : /\ i # 0 /\ (j = i \/ Under(s, i, j))
                   /\ s.defs[j].marks # <<>>}

\* What is asked for where nothing in the scope is marked.
Outside(s) == IF s.marks # <<>> THEN Asked(s.marks) ELSE s.given

\* What the innermost marker asks for.
Wanted(s, i) ==
  IF Around(s, i) = {} THEN Outside(s)
  ELSE Asked(s.defs[CHOOSE j \in Around(s, i) :
         \A k \in Around(s, i) : Len(Path(s, k)) <= Len(Path(s, j))].marks)

\* A cycle is rewritten as the innermost marker around each of its members asks, a marker
\* on the function itself before those on the bodies around it, on the container, and in
\* the attribute; and what such a marker leaves out is not taken from the others.  The same
\* holds for what a container is expanded with, if it is an item of the module, has a marker
\* of its own, or stands in a body that no marker inside the scope covers.  It does not for
\* the others: `expand_roots` expands the containers in bodies before it reads the markers
\* of the functions around them, with the options of the scope (scan.rs 447).
InnermostWins ==
  phase = "done" =>
    /\ \A i \in Defs(scope) : InForce(scope)[i] = Wanted(scope, i)
    /\ \A i, j \in Defs(scope) :
         Together(reaches, i, j) => Wanted(scope, i).flags = Wanted(scope, j).flags
    /\ \A k \in DOMAIN scope.containers :
         LET it == scope.containers[k] IN
         it.marks # <<>> \/ Around(scope, it.under) = {} =>
           PassedOn(scope, k) = IF it.marks # <<>> THEN Asked(it.marks) ELSE Wanted(scope, it.under)

\* The copies are a program of their own: a call in one that the rewriter follows goes to a
\* copy exactly if what it names has one, unless the name is another function's as well;
\* and only functions that were rewritten are copied.
CopiesApart ==
  phase = "done" =>
    /\ Copied \subseteq Rewritten
    /\ \A i \in Defs(scope) : \A mn \in scope.mentions[i] : \A j \in Resolve(scope, i, mn) :
         mn.rewritable /\ mn.written # "inAMacro" =>
           (Renamed(mn) <=> j \in Copied /\ \A k \in Defs(scope) : ~SameName(scope, j, k))

\* Something the attribute covers was rewritten.
RewroteSomething ==
  \/ \E i \in Defs(scope) : Recursive(i)
  \/ \E k \in DOMAIN scope.containers : scope.containers[k].outcome = "rewritten"

\* A container in a body came out as it was.
UnchangedInBody == \E k \in Bodies(scope) : scope.containers[k].outcome = "unchanged"

\* An attribute without effect is reported: the error is given where nothing was rewritten,
\* at any depth; a marker of a function is accepted only on one that recurses; and the
\* attribute being expanded only if something was rewritten, or if a body holds a container
\* that was not: `expand_nested_containers` answers whether it found one (scan.rs 385), and
\* for `expand_roots` the root it is in has then been rewritten.
EffectReported ==
  /\ phase = "no effect" => scope.annotated /\ ~RewroteSomething
  /\ phase = "done" =>
       /\ \A i \in Defs(scope) : scope.defs[i].marks # <<>> => Recursive(i)
       /\ scope.annotated => RewroteSomething \/ UnchangedInBody
=============================================================================
