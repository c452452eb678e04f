------------------------------ MODULE Lending ------------------------------
(***************************************************************************)
(* What a group under `data_in_frame` and `use_nonlinear_mut` does with     *)
(* memory of its own (src/stack_safe/cps.rs, leaf.rs): values lent to a     *)
(* callee and collections a loop borrows are kept in the driver's stores    *)
(* (the stack `Pin` is proved to be), and the context slot a callee sees is *)
(* swapped for the time of the call.  The bodies are arbitrary: a step is   *)
(* one piece of the code the macro emits, between pieces of user code.      *)
(***************************************************************************)
EXTENDS Integers, Sequences, FiniteSets, SequencesExt

CONSTANTS Places,     \* what a raw context slot may point to
          Home,       \* the place the outer call passes
          Sites,      \* argument lists: what each lending argument is, in order
          Lapses,     \* ways of leaving a call or loop that a program may use (see below)
          MaxFrames,  \* bound of the model: frames parked at once
          MaxBorn,    \* bound of the model: values stored in a run
          MaxLoops,   \* bound of the model: borrowing loops nested in one body
          None

ASSUME PlacesAssumption == Home \in Places /\ None \notin Places
\* "whole": `&f(..)`, `&local` to a parameter written `&T`; "alias": the same to a parameter whose
\* type is an alias, which has a store of its own; "place": `&local.field`.
ASSUME SitesAssumption == Sites \subseteq Seq({"whole", "alias", "place"})
\* "return call": `return rec(..)` or `rec(..)?` inside a borrowing loop; "leave args": an argument
\* after a lending one is left with `?`, `return`, `break` or `continue`.
ASSUME LapsesAssumption == Lapses \subseteq {"return call", "leave args"}
ASSUME BoundsAssumption == {MaxFrames, MaxBorn, MaxLoops} \subseteq Nat

VARIABLES raw,     \* whether some call passes a derived place: context slots are raw pointers
          lapses,  \* the lapses the program uses
          mode,    \* "run", "args", "value", "resuming", "unwinding" or "over"
          cur,     \* the activation whose code runs
          site,    \* the call whose arguments are being evaluated, or that is resumed
          frames,  \* the parked frames
          shared,  \* the store every nameable type shares
          own,     \* the store of the alias-typed position
          slot,    \* the context slot
          back,    \* the locals the last resume took back, asked and given
          born     \* values stored so far

given == <<raw, lapses>>
vars == <<given, mode, cur, site, frames, shared, own, slot, back, born>>

Ids == 1..MaxBorn
Activation ==
  [ptrs  : SUBSET Ids,                                \* stored values its references point to
   loops : Seq([mark : 0..MaxBorn, held : Ids]),      \* borrowing loops it is in, outermost first
   place : Places]                                    \* what its context parameter points to
Call ==
  [lends : Sites, pushed : Seq(Ids), parked : Seq([id : Ids, at : Nat]),
   shared : 0..MaxBorn, own : 0..MaxBorn, saved : Places \union {None}, exits : BOOLEAN]

TypeOK ==
  /\ raw \in BOOLEAN /\ lapses \subseteq Lapses
  /\ mode \in {"run", "args", "value", "resuming", "unwinding", "over"}
  /\ cur \in Activation
  /\ site \in Call \union {None}
  /\ frames \in Seq([act : Activation, call : Call])
  /\ shared \in Seq(Ids) /\ own \in Seq(Ids)
  /\ slot \in Places
  /\ back \in [asked : Seq(Ids), got : Seq(Ids \union {None})]
  /\ born \in 0..MaxBorn

Start(ptrs) == [ptrs |-> ptrs, loops |-> <<>>, place |-> slot]
Held(act) == act.ptrs \union {act.loops[k].held : k \in DOMAIN act.loops}
Lends(what) == site.lends[Len(site.pushed) + 1] = what
HasMark(call) == \E k \in DOMAIN call.lends : call.lends[k] # "alias"
HasOwnMark(call) == \E k \in DOMAIN call.lends : call.lends[k] = "alias"

Truncated(store, mark) == IF mark < Len(store) THEN SubSeq(store, 1, mark) ELSE store

\* The loops' marks, outermost first.
TornDown(act) == IF act.loops = <<>> THEN shared ELSE Truncated(shared, act.loops[1].mark)

Init ==
  /\ raw \in BOOLEAN /\ lapses \in {{}, Lapses}
  /\ mode = "run"
  /\ slot = Home
  /\ cur = [ptrs |-> {}, loops |-> <<>>, place |-> Home]
  /\ site = None
  /\ frames = <<>> /\ shared = <<>> /\ own = <<>>
  /\ back = [asked |-> <<>>, got |-> <<>>]
  /\ born = 0
-----------------------------------------------------------------------------
\* A recursive call: the stores are marked before any argument is evaluated.
BeginCall(lends, exits) ==
  /\ mode = "run" /\ Len(frames) < MaxFrames
  /\ exits => cur.loops = <<>> \/ "return call" \in lapses
  /\ mode' = "args"
  /\ site' = [lends |-> lends, pushed |-> <<>>, parked |-> <<>>,
              shared |-> Len(shared), own |-> Len(own), saved |-> None, exits |-> exits]
  /\ UNCHANGED <<given, cur, frames, shared, own, slot, back, born>>

\* The next lending argument moves its value into a store.
LendWhole ==
  /\ mode = "args" /\ Len(site.pushed) < Len(site.lends) /\ born < MaxBorn
  /\ \/ Lends("whole") /\ shared' = Append(shared, born + 1) /\ own' = own
     \/ Lends("alias") /\ own' = Append(own, born + 1) /\ shared' = shared
  /\ site' = [site EXCEPT !.pushed = Append(@, born + 1)]
  /\ born' = born + 1
  /\ UNCHANGED <<given, mode, cur, frames, slot, back>>

\* A local is parked whole to lend a place inside it: its index is the number of values this
\* call has stored before it.
LendPlace ==
  /\ mode = "args" /\ Len(site.pushed) < Len(site.lends) /\ born < MaxBorn
  /\ Lends("place")
  /\ shared' = Append(shared, born + 1)
  /\ site' = [site EXCEPT !.pushed = Append(@, born + 1),
                          !.parked = Append(@, [id |-> born + 1, at |-> Len(site.pushed)])]
  /\ born' = born + 1
  /\ UNCHANGED <<given, mode, cur, frames, own, slot, back>>

\* A context argument that is a derived place is swapped in.
Swap(place) ==
  /\ mode = "args" /\ raw /\ site.saved = None
  /\ site' = [site EXCEPT !.saved = slot]
  /\ slot' = place
  /\ UNCHANGED <<given, mode, cur, frames, shared, own, back, born>>

(* The pending swap is not undone. *)
LeaveArgsMutant ==
  /\ mode = "args"
  /\ site.pushed # <<>> => "leave args" \in lapses
  /\ shared' = TornDown(cur)
  /\ mode' = "value" /\ site' = None /\ cur' = Start({})
  /\ UNCHANGED <<given, frames, own, slot, back, born>>

\* An argument leaves the body with `?` or `return`: a pending swap is undone and the loops'
\* collections are released.
LeaveArgs ==
  /\ mode = "args"
  /\ site.pushed # <<>> => "leave args" \in lapses
  /\ slot' = IF site.saved = None THEN slot ELSE site.saved
  /\ shared' = TornDown(cur)
  /\ mode' = "value" /\ site' = None /\ cur' = Start({})
  /\ UNCHANGED <<given, frames, own, back, born>>

\* An argument leaves a loop of the body with `break` or `continue`: a pending swap is undone and
\* the same body goes on, in the loop or behind it.
BreakArgs ==
  /\ mode = "args"
  /\ site.pushed # <<>> => "leave args" \in lapses
  /\ slot' = IF site.saved = None THEN slot ELSE site.saved
  /\ mode' = "run" /\ site' = None
  /\ \/ UNCHANGED <<shared, cur>>      \* `continue`, or a loop that borrows nothing
     \/ /\ cur.loops # <<>>            \* `break` out of the innermost borrowing loop
        /\ shared' = Truncated(shared, Last(cur.loops).mark)
        /\ cur' = [cur EXCEPT !.loops = Front(@)]
  /\ UNCHANGED <<given, frames, own, back, born>>

IsTail == site.lends = <<>> /\ site.exits /\ ~raw

\* The frame is parked and the callee entered, with references to anything the caller could
\* name and to what was lent.
Park ==
  /\ mode = "args" /\ Len(site.pushed) = Len(site.lends) /\ ~IsTail
  /\ frames' = Append(frames, [act |-> cur, call |-> site])
  /\ cur' = Start(Held(cur) \union ToSet(site.pushed))
  /\ mode' = "run" /\ site' = None
  /\ UNCHANGED <<given, shared, own, slot, back, born>>

(* The loops' collections are released before the callee is entered. *)
TailCallMutant ==
  /\ mode = "args" /\ IsTail
  /\ shared' = TornDown(cur)
  /\ cur' = Start(Held(cur))
  /\ mode' = "run" /\ site' = None
  /\ UNCHANGED <<given, frames, own, slot, back, born>>

\* The callee is entered in the place of the caller.
TailCall ==
  /\ mode = "args" /\ IsTail
  /\ cur' = Start(Held(cur))
  /\ mode' = "run" /\ site' = None
  /\ UNCHANGED <<given, frames, shared, own, slot, back, born>>
-----------------------------------------------------------------------------
\* `for x in &xs`: the collection moves into the store, under a mark of its own.
EnterLoop ==
  /\ mode = "run" /\ Len(cur.loops) < MaxLoops /\ born < MaxBorn
  /\ shared' = Append(shared, born + 1)
  /\ cur' = [cur EXCEPT !.loops = Append(@, [mark |-> Len(shared), held |-> born + 1])]
  /\ born' = born + 1
  /\ UNCHANGED <<given, mode, site, frames, own, slot, back>>

(* What leaving the loop releases is released by `continue` as well. *)
NextItemMutant ==
  /\ mode = "run" /\ cur.loops # <<>>
  /\ shared' = TornDown(cur)
  /\ UNCHANGED <<given, mode, cur, site, frames, own, slot, back, born>>

\* The next iteration, or `continue`: the loop's entry is taken again, its collection kept.
NextItem ==
  /\ mode = "run" /\ cur.loops # <<>>
  /\ UNCHANGED vars

\* Exhaustion, or `break`.
LeaveLoop ==
  /\ mode = "run" /\ cur.loops # <<>>
  /\ shared' = Truncated(shared, Last(cur.loops).mark)
  /\ cur' = [cur EXCEPT !.loops = Front(@)]
  /\ UNCHANGED <<given, mode, site, frames, own, slot, back, born>>

\* The end of the body, or `return` and `?` in code that does not recurse.
Finish ==
  /\ mode = "run"
  /\ shared' = TornDown(cur)
  /\ mode' = "value" /\ cur' = Start({})
  /\ UNCHANGED <<given, site, frames, own, slot, back, born>>
-----------------------------------------------------------------------------
Popped == Last(frames)

\* The frame's own code starts, with the callee's answer.
Resume ==
  /\ mode = "value" /\ frames # <<>>
  /\ mode' = "resuming" /\ site' = Popped.call
  /\ back' = [asked |-> [k \in DOMAIN Popped.call.parked |-> Popped.call.parked[k].id], got |-> <<>>]
  /\ UNCHANGED <<given, cur, frames, shared, own, slot, born>>

\* `take_at`: what is at the index, and the store is cut there.
TakeAt(at) ==
  LET found == IF at < Len(shared) THEN shared[at + 1] ELSE None IN
  /\ back' = [back EXCEPT !.got = <<found>> \o @]
  /\ shared' = Truncated(shared, at)

(* First to last: each take drops the locals parked after it. *)
TakeBackMutant ==
  /\ mode = "resuming" /\ site.parked # <<>>
  /\ TakeAt(site.shared + Head(site.parked).at)
  /\ site' = [site EXCEPT !.parked = Tail(@)]
  /\ UNCHANGED <<given, mode, cur, frames, own, slot, born>>

\* The parked locals are taken back, last first.
TakeBack ==
  /\ mode = "resuming" /\ site.parked # <<>>
  /\ TakeAt(site.shared + Last(site.parked).at)
  /\ site' = [site EXCEPT !.parked = Front(@)]
  /\ UNCHANGED <<given, mode, cur, frames, own, slot, born>>

(* What was lent is not dropped. *)
UnpinMutant(call) == UNCHANGED <<shared, own>>

\* What this call lent is dropped.
Unpin(call) ==
  /\ shared' = IF HasMark(call) THEN Truncated(shared, call.shared) ELSE shared
  /\ own' = IF HasOwnMark(call) THEN Truncated(own, call.own) ELSE own

(* The slot is restored whether or not the call swapped it. *)
RestoreMutant(call) == slot' = call.saved

\* The slot gets the parent's pointer back.
Restore(call) == slot' = IF call.saved = None THEN slot ELSE call.saved

\* The rest of the resume arm, up to the user's code.
Resumed ==
  /\ mode = "resuming" /\ site.parked = <<>>
  /\ Unpin(site)
  /\ Restore(site)
  /\ frames' = Front(frames) /\ site' = None
  /\ \/ ~site.exits /\ mode' = "run" /\ cur' = Popped.act
     \* `return rec(..)`, or `rec(..)?` with an error: straight on to the frame below.
     \/ site.exits /\ mode' = "value" /\ UNCHANGED cur
  /\ UNCHANGED <<given, back, born>>

\* The machine is left: its stores are dropped after its frames.
Return ==
  /\ mode = "value" /\ frames = <<>>
  /\ mode' = "over" /\ shared' = <<>> /\ own' = <<>>
  /\ UNCHANGED <<given, cur, site, frames, slot, back, born>>

\* User code panics.
Panic ==
  /\ mode \in {"run", "args"}
  /\ mode' = "unwinding" /\ site' = None /\ cur' = Start({})
  /\ UNCHANGED <<given, frames, shared, own, slot, back, born>>

DropFrame ==
  /\ mode = "unwinding" /\ frames # <<>>
  /\ frames' = Tail(frames)
  /\ UNCHANGED <<given, mode, cur, site, shared, own, slot, back, born>>

DropStores ==
  /\ mode = "unwinding" /\ frames = <<>>
  /\ mode' = "over" /\ shared' = <<>> /\ own' = <<>>
  /\ UNCHANGED <<given, cur, site, frames, slot, back, born>>

Next ==
  \/ \E lends \in Sites, exits \in BOOLEAN : BeginCall(lends, exits)
  \/ LendWhole \/ LendPlace \/ LeaveArgs \/ BreakArgs \/ Park \/ TailCall
  \/ \E place \in Places : Swap(place)
  \/ EnterLoop \/ NextItem \/ LeaveLoop \/ Finish
  \/ Resume \/ TakeBack \/ Resumed \/ Return \/ Panic \/ DropFrame \/ DropStores

Spec == Init /\ [][Next]_vars
-----------------------------------------------------------------------------
Stored == ToSet(shared) \union ToSet(own)

\* No reference outlives what it points to: not those of the running body, nor of one whose
\* arguments are half evaluated, nor those a frame carries, also while a panic drops the frames.
PointersLive ==
  /\ Held(cur) \subseteq Stored
  /\ \A k \in DOMAIN frames : Held(frames[k].act) \subseteq Stored

\* Each resume takes back exactly the locals its own call parked (`expect("parked by this
\* frame")`), wherever later lends of the callee's subtree went.
TakesBackOwn ==
  /\ Len(back.asked) = Len(back.got) + (IF mode = "resuming" THEN Len(site.parked) ELSE 0)
  /\ \A k \in DOMAIN back.got : back.got[k] = back.asked[Len(back.asked) - Len(back.got) + k]

\* Running code sees its own context place, whatever places calls and abandoned argument lists
\* below it swapped in.
SlotOwn == mode = "run" => slot = cur.place

\* The values accounted for by a body that waits or runs: what its call lent, its loops' collections.
OfFrame(f) == ToSet(f.call.pushed) \union {f.act.loops[k].held : k \in DOMAIN f.act.loops}

Accounted ==
  {cur.loops[k].held : k \in DOMAIN cur.loops}
    \union UNION {OfFrame(frames[k]) : k \in DOMAIN frames}

\* A stored value leaves the store when the call or the loop it was stored for is over: a body
\* that is resumed finds nothing of its callee's subtree in the stores, only what the frames
\* below it and its own loops put there.  This is asked of the programs that use none of the
\* lapses: the marks of calls and loops are cut on every other way out (the resume arm,
\* `released_k`, `Env::teardown` in LeafRewrite).
DroppedUnlessLapsed ==
  [][lapses = {} /\ mode = "resuming" /\ mode' = "run" => Stored' = Accounted']_vars
=============================================================================
