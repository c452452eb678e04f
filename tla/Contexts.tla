------------------------------- MODULE Contexts -------------------------------
(***************************************************************************)
(* Context slots: the references a driver owns and lends out for one step  *)
(* at a time instead of carrying them in its frames (src/stack_safe/       *)
(* context.rs and the analysis in emit.rs and analyze.rs).  A group of     *)
(* mutually recursive functions shares one tuple of slots, named after the *)
(* parameters of its first member.                                         *)
(*                                                                         *)
(* The group is analysed and, unless it is refused, run: every activation  *)
(* keeps beside its frame the references native recursion would have given *)
(* its parameters.  Whether a body recurses again, or returns, is open.    *)
(***************************************************************************)
EXTENDS Integers, Sequences, FiniteSets, SequencesExt

CONSTANTS Groups,   \* the groups considered
          Names,    \* of parameters
          Types,    \* of what they refer to
          Parts,    \* places inside a value that do not overlap: `.left`, `.kids[i]`
          MaxDepth  \* how deep activations nest

Refs == {"mut", "shared"}
\* The binding itself, a reborrow `&mut *x` of it, a place inside it, or anything else.
Forms == {"name", "reborrow", "other"} \union Parts
ASSUME PartsAssumption == Parts \intersect {"name", "reborrow", "other"} = {}
ParamType == [name : Names, ref : Refs, type : Types]
ArgType == [form : Forms, of : Names]
CallType == [callee : Nat \ {0}, args : Seq(ArgType)]
MemberType ==
  [params : Seq(ParamType),       \* the reference parameters
   binds  : SUBSET Names,         \* names its body binds again before it recurses
   calls  : SUBSET CallType]
GroupType == [members : Seq(MemberType), nonlinear : BOOLEAN]

NamesOf(params) == {p.name : p \in ToSet(params)}
ParamNamed(params, n) == CHOOSE p \in ToSet(params) : p.name = n
PositionOf(params, n) == CHOOSE i \in DOMAIN params : params[i].name = n

\* What rustc checks of an argument; a place may be of another type than what it lies in.  (A
\* shared reference into a `&mut` parameter is no slot, and not told from any other value.)
Typed(mb, arg, p) ==
  \/ arg.form = "other"
  \/ /\ arg.of \in NamesOf(mb.params)
     /\ ParamNamed(mb.params, arg.of).ref = p.ref
     /\ arg.form \in Parts \/ ParamNamed(mb.params, arg.of).type = p.type

\* Two arguments may be `&mut` at once: of different parameters, or of different parts of one.
Disjoint(x, y) == x.of # y.of \/ ({x.form, y.form} \subseteq Parts /\ x.form # y.form)

\* A group rustc accepts: distinct names, typed arguments, no place lent twice.
Valid(g) ==
  \A m \in DOMAIN g.members :
    LET mb == g.members[m] IN
    /\ \A i, j \in DOMAIN mb.params : mb.params[i].name = mb.params[j].name => i = j
    /\ \A c \in mb.calls :
         /\ c.callee \in DOMAIN g.members
         /\ DOMAIN c.args = DOMAIN g.members[c.callee].params
         /\ \A i \in DOMAIN c.args : Typed(mb, c.args[i], g.members[c.callee].params[i])
         /\ \A i, j \in DOMAIN c.args :
              /\ i # j /\ g.members[c.callee].params[i].ref = "mut"
              /\ c.args[i].form # "other" /\ c.args[j].form # "other"
              => Disjoint(c.args[i], c.args[j])

ASSUME GroupsAssumption ==
  \A g \in Groups : g \in GroupType /\ Len(g.members) > 0 /\ Valid(g)

VARIABLES group,
          status,    \* "written", then "refused" or "running"
          promoted,  \* the shared references every call passes on unchanged
          context,   \* the parameters the slots are named after
          raw,       \* the slots that hold a pointer
          slots,     \* what the slots refer to
          stack      \* activations, the running one last; `entered` until its first call

vars == <<group, status, promoted, context, raw, slots, stack>>
-----------------------------------------------------------------------------
\* The analysis.

AllCalls(g) == UNION {mb.calls : mb \in ToSet(g.members)}

(* A body may bind the name again. *)
InvariantMutant(g, p) ==
  /\ p.ref = "shared"
  /\ \A mb \in ToSet(g.members) : p \in ToSet(mb.params)
  /\ AllCalls(g) # {}
  /\ \A c \in AllCalls(g) :
       c.args[PositionOf(g.members[c.callee].params, p.name)] = [form |-> "name", of |-> p.name]

\* A shared reference of one name and type in all members, never bound again, and passed
\* as itself by every call of the group.
Invariant(g, p) ==
  /\ p.ref = "shared"
  /\ \A mb \in ToSet(g.members) : p \in ToSet(mb.params) /\ p.name \notin mb.binds
  /\ AllCalls(g) # {}
  /\ \A c \in AllCalls(g) :
       c.args[PositionOf(g.members[c.callee].params, p.name)] = [form |-> "name", of |-> p.name]

Promoted(g) == {p.name : p \in {q \in ToSet(g.members[1].params) : Invariant(g, q)}}

IsSlot(names, p) == p.ref = "mut" \/ p.name \in names
SlotPositions(names, params) == {i \in DOMAIN params : IsSlot(names, params[i])}

\* `context_at`: slots are numbered in the order of a member's parameters; 0 for payload.
SlotAt(names, params, i) ==
  IF IsSlot(names, params[i]) THEN Cardinality({j \in SlotPositions(names, params) : j <= i}) ELSE 0

\* The parameters that are slots, by their numbers.
SplitParams(names, mb) ==
  [s \in 1..Cardinality(SlotPositions(names, mb.params)) |->
     mb.params[CHOOSE i \in SlotPositions(names, mb.params) : SlotAt(names, mb.params, i) = s]]

SlotKeys(names, mb) ==
  LET split == SplitParams(names, mb) IN [i \in DOMAIN split |-> <<split[i].ref, split[i].type>>]

\* What a call passes for a context position; `bindings` are the names of all slots.
ClassifyCtxArg(bindings, arg) ==
  IF arg.form = "other" \/ arg.of \notin bindings THEN "unsupported"
  ELSE IF arg.form \in Parts THEN "derived" ELSE "same"

\* The positions of a call that go to slots, with what is passed there.
SlotArgs(g, names, c, class) ==
  LET params == g.members[c.callee].params
      bindings == NamesOf(SplitParams(names, g.members[1]))
  IN {i \in DOMAIN params : /\ IsSlot(names, params[i])
                            /\ ClassifyCtxArg(bindings, c.args[i]) = class}

Refused(g, names) ==
  \/ \E mb \in ToSet(g.members) : SlotKeys(names, mb) # SlotKeys(names, g.members[1])
  \/ \E c \in AllCalls(g) :
       \/ SlotArgs(g, names, c, "unsupported") # {}
       \/ SlotArgs(g, names, c, "derived") # {} /\ ~g.nonlinear

\* Every body sees the slots under the first member's names, so rustc rejects another name
\* where it is used: bodies are taken to use all their parameters.
Unresolved(g, names) ==
  \E mb \in ToSet(g.members) :
    NamesOf(SplitParams(names, mb)) # NamesOf(SplitParams(names, g.members[1]))

(* A slot is marked by the position of its parameter. *)
RawSlotsMutant(g, names) == UNION {SlotArgs(g, names, c, "derived") : c \in AllCalls(g)}

RawSlots(g, names) ==
  UNION {{SlotAt(names, g.members[c.callee].params, i) : i \in SlotArgs(g, names, c, "derived")} :
           c \in AllCalls(g)}
-----------------------------------------------------------------------------
\* The run.

Outer(n) == <<"outer", n>>  \* what the outer caller lends for `n`
Inside(place, part) == Append(place, part)
Local(n) == <<"local", n, Len(stack)>>

Top == stack[Len(stack)]
Running == group.members[Top.member]
SlotNamed(n) == PositionOf(context, n)
IsContext(n) == n \in NamesOf(context)

\* What a name refers to in the rewritten body: the prologue of an arm binds the slots'.
Sees(n) ==
  IF IsContext(n) /\ ~(n \in Running.binds /\ Top.entered) THEN slots[SlotNamed(n)]
  ELSE IF n \in Running.binds THEN Local(n) ELSE Top.payload[n]

\* What it refers to in the body as written.
Native(n) == IF n \in Running.binds THEN Local(n) ELSE Top.native[n]

\* What an argument refers to, where the name in it refers to `named`.
Value(arg, named) ==
  IF arg.form = "other" THEN Local(arg.of)
  ELSE IF arg.form \in Parts THEN Inside(named, arg.form) ELSE named

Swaps(c) == SlotArgs(group, promoted, c, "derived")
SwappedSlots(c) == {SlotAt(promoted, group.members[c.callee].params, i) : i \in Swaps(c)}
SwapFor(c, s) ==
  CHOOSE i \in Swaps(c) : SlotAt(promoted, group.members[c.callee].params, i) = s

(* A place is taken where an earlier swap has left its root. *)
SwappedMutant(c) ==
  LET root(s) == SlotNamed(c.args[SwapFor(c, s)].of)
      part(s) == c.args[SwapFor(c, s)].form
      one(s)  == Inside(slots[root(s)], part(s))
  IN [s \in DOMAIN slots |->
        IF s \notin SwappedSlots(c) THEN slots[s]
        ELSE IF root(s) < s /\ root(s) \in SwappedSlots(c) THEN Inside(one(root(s)), part(s))
        ELSE one(s)]

\* The slots as the callee finds them.
Swapped(c) ==
  [s \in DOMAIN slots |-> IF s \in SwappedSlots(c) THEN Value(c.args[SwapFor(c, s)], Sees(c.args[SwapFor(c, s)].of))
                          ELSE slots[s]]

Entered(c) ==
  LET params == group.members[c.callee].params
      given(n) == c.args[PositionOf(params, n)]
  IN [member  |-> c.callee,
      entered |-> TRUE,
      native  |-> [n \in NamesOf(params) |-> Value(given(n), Native(given(n).of))],
      payload |-> [n \in NamesOf(params) \ NamesOf(context) |-> Value(given(n), Sees(given(n).of))],
      saved   |-> {}]

Init ==
  /\ group \in Groups /\ status = "written"
  /\ promoted = {} /\ context = <<>> /\ raw = {} /\ slots = <<>> /\ stack = <<>>

Analyse ==
  /\ status = "written"
  /\ LET names == Promoted(group) IN
     IF Refused(group, names) \/ Unresolved(group, names)
     THEN status' = "refused" /\ UNCHANGED <<promoted, context, raw>>
     ELSE /\ status' = "ready"
          /\ promoted' = names
          /\ context' = SplitParams(names, group.members[1])
          /\ raw' = RawSlots(group, names)
  /\ UNCHANGED <<group, slots, stack>>

\* Any member may be called from outside; the slots start with its parameters, by name.
Start(m) ==
  /\ status = "ready"
  /\ status' = "running"
  /\ slots' = [s \in DOMAIN context |-> Outer(context[s].name)]
  /\ LET names == NamesOf(group.members[m].params)
         outer(S) == [n \in S |-> Outer(n)]
     IN stack' = <<[member |-> m, entered |-> TRUE, native |-> outer(names),
                    payload |-> outer(names \ NamesOf(context)), saved |-> {}]>>
  /\ UNCHANGED <<group, promoted, context, raw>>

\* Parks the frame with the pointers its swaps displace.
Call(c) ==
  /\ Len(stack) < MaxDepth
  /\ slots' = Swapped(c)
  /\ stack' = Append([stack EXCEPT ![Len(stack)].saved = {<<s, slots[s]>> : s \in SwappedSlots(c)},
                                   ![Len(stack)].entered = FALSE],
                     Entered(c))
  /\ UNCHANGED <<group, status, promoted, context, raw>>

\* Enters the callee in place of its caller, whose frame would only hand on the answer.
TailCall(c) ==
  /\ SwappedSlots(c) = {} /\ raw = {}
  /\ slots' = Swapped(c)
  /\ stack' = [stack EXCEPT ![Len(stack)] = Entered(c)]
  /\ UNCHANGED <<group, status, promoted, context, raw>>

Restored(frame) ==
  [s \in DOMAIN slots |-> IF \E v \in frame.saved : v[1] = s
                          THEN (CHOOSE v \in frame.saved : v[1] = s)[2]
                          ELSE slots[s]]

Return ==
  /\ status = "running"
  /\ IF Len(stack) = 1
     THEN status' = "ended" /\ stack' = <<>> /\ slots' = <<>>
     ELSE /\ slots' = Restored(stack[Len(stack) - 1])
          /\ stack' = [Front(stack) EXCEPT ![Len(stack) - 1].saved = {}]
          /\ UNCHANGED status
  /\ UNCHANGED <<group, promoted, context, raw>>

Next ==
  \/ Analyse
  \/ \E m \in DOMAIN group.members : Start(m)
  \/ /\ status = "running"
     /\ \E c \in Running.calls : Call(c) \/ TailCall(c)
  \/ Return

Spec == Init /\ [][Next]_vars
-----------------------------------------------------------------------------
\* A group whose calls keep every `&mut` parameter in its slot: a binding is only passed on
\* as the parameter of its own name, a place only to a slot named after the parameter it is
\* passed for, and neither is of a name the caller binds again.
Straight(g) ==
  LET names == Promoted(g)
      own   == SplitParams(names, g.members[1])
  IN \A mb \in ToSet(g.members) : \A c \in mb.calls :
       LET params == g.members[c.callee].params IN
       \A i \in DOMAIN params :
         LET at  == SlotAt(names, params, i)
             arg == c.args[i]
         IN params[i].ref = "mut" /\ at \in DOMAIN own =>
              /\ arg.form \in {"name", "reborrow"} => arg.of = params[i].name
              /\ arg.form \in Parts => own[at].name = params[i].name
              /\ arg.form # "other" => arg.of \notin mb.binds

\* The analysis and the run keep their types.
TypeOK ==
  /\ group \in GroupType
  /\ status \in {"written", "refused", "ready", "running", "ended"}
  /\ promoted \subseteq Names /\ raw \subseteq DOMAIN context
  /\ context \in Seq(ParamType)
  /\ slots # <<>> => DOMAIN slots = DOMAIN context
  /\ status = "running" <=> stack # <<>>
  /\ \A k \in DOMAIN stack :
       /\ stack[k].member \in DOMAIN group.members
       /\ \A v \in stack[k].saved : v[1] \in raw
       /\ k = Len(stack) => stack[k].saved = {}

\* No two slots reach one place while either of them may write it.
NoAliasing ==
  \A s, t \in DOMAIN slots :
    s # t /\ context[s].ref = "mut" =>
      ~IsPrefix(slots[s], slots[t]) /\ ~IsPrefix(slots[t], slots[s])

\* The running body finds in its parameters what native recursion would have given them,
\* after any calls, returns and tail calls: the slots it shares with every other
\* activation of the group are its own whenever it looks.
ParametersKept ==
  status = "running" =>
    \A n \in NamesOf(Running.params) \ Running.binds : Sees(n) = Top.native[n]
=============================================================================
