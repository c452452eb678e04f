------------------------------- MODULE Delegate -------------------------------
(***************************************************************************)
(* Trait delegation (src/delegate_trait.rs).  The attribute on a trait     *)
(* records its required methods in a helper macro; the attribute on an     *)
(* impl block invokes that macro with what the block wrote, and the        *)
(* expansion of the helper, one invocation at a time, has to end in        *)
(* exactly the methods the block leaves out, with the signatures the       *)
(* compiler expects of them.                                               *)
(*                                                                         *)
(* Code is a sequence of words.  A word has the place it stands in, since  *)
(* that decides whether a parameter's name in it is rewritten: "type",     *)
(* "expr" (a value), "lifetime", "segment" (of a longer path), "binding"   *)
(* (of an associated type), "macro" (inside a macro invocation).  The      *)
(* rewriting turns a word into "meta", a metavariable, and its expansion   *)
(* turns that into "fragment", the code that was matched.                  *)
(***************************************************************************)
EXTENDS Naturals, Sequences, FiniteSets

CONSTANTS Cases,  \* pairs of a trait and an impl block of it
          None    \* no default

Kinds == {"lifetime", "type", "const"}
Receivers == {"ref", "mut", "value", "typed", "none"}

\* A pair: the trait's generic parameters [kind, name, default], its methods
\* [name, required, receiver, gated, sig], and the block: the names of the methods it
\* writes and the generic arguments [kind, code] of its trait path.  A gated method
\* carries a #[cfg] that does not hold in this build.
Names(methods) == {methods[i].name : i \in DOMAIN methods}
Written(c) == {c.written[i] : i \in DOMAIN c.written}
Required(c) == {c.methods[i].name : i \in {j \in DOMAIN c.methods : c.methods[j].required}}
MethodNamed(c, n) == c.methods[CHOOSE i \in DOMAIN c.methods : c.methods[i].name = n]

\* Where a word of the source may stand.
Places == {"type", "expr", "lifetime", "segment", "binding", "macro"}
Source(code) == \A k \in DOMAIN code : code[k].place \in Places

\* rustc: no two methods of one name (twins under opposite `#[cfg]`s, which the macro would see
\* both of, are not modelled), nor two parameters unless one is a lifetime, and a block writes
\* methods of its trait, once each.
ASSUME CasesAssumption ==
  \A c \in Cases :
    /\ c.params \in Seq([kind : Kinds, name : {c.params[i].name : i \in DOMAIN c.params},
                         default : {c.params[i].default : i \in DOMAIN c.params}])
    /\ c.methods \in Seq([name : Names(c.methods), required : BOOLEAN, receiver : Receivers,
                          gated : BOOLEAN, sig : {c.methods[i].sig : i \in DOMAIN c.methods}])
    /\ c.written \in Seq(Names(c.methods))
    /\ \A i, j \in DOMAIN c.methods : c.methods[i].name = c.methods[j].name => i = j
    /\ \A i, j \in DOMAIN c.written : c.written[i] = c.written[j] => i = j
    /\ \A i, j \in DOMAIN c.params :
         /\ c.params[i].name = c.params[j].name
         /\ c.params[i].kind = "lifetime" <=> c.params[j].kind = "lifetime"
         => i = j
    /\ c.args \in Seq([kind : Kinds, code : {c.args[i].code : i \in DOMAIN c.args}])
    /\ \A i \in DOMAIN c.args : Source(c.args[i].code)
    /\ \A i \in DOMAIN c.params : c.params[i].default = None \/ Source(c.params[i].default)
    /\ \A i \in DOMAIN c.methods : Source(c.methods[i].sig)

VARIABLES case,    \* the pair being expanded
          phase,   \* "trait", "impl", "helper": what is expanded now
          calls,   \* the invocations of the helper macro still to be expanded
          items,   \* the forwarders emitted into the impl block
          errors   \* why compilation fails

vars == <<case, phase, calls, items, errors>>
-----------------------------------------------------------------------------
(* What the trait's attribute writes into the helper. *)

\* The trailing parameters with a default.
Defaults(ps) ==
  Cardinality({i \in DOMAIN ps : \A j \in i..Len(ps) : ps[j].default # None})

(* A type parameter is replaced in expressions too. *)
ReplacingMutant(ps, w) ==
  {i \in DOMAIN ps :
     /\ ps[i].name = w.name
     /\ \/ w.place \in {"type", "expr"} /\ ps[i].kind # "lifetime"
        \/ w.place = "lifetime" /\ ps[i].kind = "lifetime"}

\* The parameters whose metavariable replaces a word.
Replacing(ps, w) ==
  {i \in DOMAIN ps :
     /\ ps[i].name = w.name
     /\ \/ w.place = "type" /\ ps[i].kind # "lifetime"
        \/ w.place = "expr" /\ ps[i].kind = "const"
        \/ w.place = "lifetime" /\ ps[i].kind = "lifetime"}

Meta(i) == [place |-> "meta", name |-> i]
Fragment(code) == [place |-> "fragment", name |-> code]

\* rewrite_signature and rewrite_default.
Rewrite(ps, code) ==
  [k \in DOMAIN code |->
     LET by == Replacing(ps, code[k]) IN
     IF by = {} THEN code[k] ELSE Meta(CHOOSE i \in by : TRUE)]

\* An arm's expansion: the metavariables its matcher bound are replaced, no others.  A fragment
\* keeps the meaning it has at the block: a generic of the method's own does not capture it.
Transcribe(code, args) ==
  [k \in DOMAIN code |->
     IF code[k].place = "meta" /\ code[k].name \in DOMAIN args
       THEN Fragment(args[code[k].name].code) ELSE code[k]]

(* The arm for every default left out is forgotten. *)
ArityMutant(ps) ==
  (IF Defaults(ps) = 0 THEN Len(ps) ELSE Len(ps) - Defaults(ps) + 1)..Len(ps)

\* The fragments `$x:lifetime`, `$x:ty`, `$x:expr`; a metavariable nothing bound is none,
\* and a type where a const argument belongs is refused by the macro or by rustc.
Matches(ps, args) ==
  /\ Len(args) <= Len(ps)
  /\ \A i \in DOMAIN args :
       /\ ps[i].kind = args[i].kind
       /\ \A k \in DOMAIN args[i].code : args[i].code[k].place # "meta"
\* The arms there are: one for all of the parameters and one for each number of defaults.
Arity(ps) == (Len(ps) - Defaults(ps))..Len(ps)

\* The arguments an arm for omitted defaults passes on.
Filled(ps, args) ==
  [i \in DOMAIN ps |->
     IF i <= Len(args) THEN args[i]
     ELSE [kind |-> ps[i].kind, code |-> Transcribe(Rewrite(ps, ps[i].default), args)]]

\* The attribute's own argument: nothing, or the flag `local`.
FlagAccepted(c) == c.flag \in {"nothing", "local"}

\* How the forwarder reaches the field.
Through(receiver) ==
  CASE receiver = "ref" -> "&" [] receiver = "mut" -> "&mut" [] receiver = "value" -> "move"

Forwardable(m) == m.receiver \notin {"none", "typed"}

Forwarder(c, m, args) ==
  [method |-> m.name, gated |-> m.gated, through |-> Through(m.receiver),
   sig |-> Transcribe(Rewrite(c.params, m.sig), args)]

\* `self::<helper>!(...)` and `self::<helper>!(@maybe ...)`.
Invocation(args, skip) == [form |-> "open", method |-> None, skip |-> skip, args |-> args]
Maybe(n, args, skip) == [form |-> "maybe", method |-> n, skip |-> skip, args |-> args]
-----------------------------------------------------------------------------
Init ==
  /\ case \in Cases
  /\ phase = "trait"
  /\ calls = {}
  /\ items = <<>>
  /\ errors = {}

\* #[delegatable_trait].
ExpandTraitDef ==
  /\ phase = "trait"
  /\ IF FlagAccepted(case)
       THEN phase' = "impl" /\ UNCHANGED errors
       ELSE phase' = "helper" /\ errors' = {[why |-> "attribute", method |-> None]}
  /\ UNCHANGED <<case, calls, items>>

\* #[delegate_trait]: the target is a field, the block is a trait's, and the trait path
\* is not written with the `Fn(..)` sugar.
BlockAccepted(c) == c.target = "field" /\ c.block = "trait"

ExpandTraitImpl ==
  /\ phase = "impl"
  /\ phase' = "helper"
  /\ IF BlockAccepted(case)
       THEN calls' = {Invocation(case.args, case.written)} /\ UNCHANGED errors
       ELSE errors' = {[why |-> "attribute", method |-> None]} /\ UNCHANGED calls
  /\ UNCHANGED <<case, items>>

(* Methods with a default body are recorded as well. *)
OpenMutant(call) ==
  /\ call.form = "open"
  /\ Len(call.args) = Len(case.params)
  /\ Matches(case.params, call.args)
  /\ calls' = (calls \ {call}) \cup {Maybe(n, call.args, call.skip) : n \in Names(case.methods)}
  /\ UNCHANGED <<items, errors>>

\* The first arm: one `@maybe` for each required method.
Open(call) ==
  /\ call.form = "open"
  /\ Len(call.args) = Len(case.params)
  /\ Matches(case.params, call.args)
  /\ calls' = (calls \ {call}) \cup {Maybe(n, call.args, call.skip) : n \in Required(case)}
  /\ UNCHANGED <<items, errors>>

\* The method is at the head of the skip list: the block wrote it.
SkipWritten(call) ==
  /\ call.form = "maybe"
  /\ call.skip # <<>>
  /\ Head(call.skip) = call.method
  /\ calls' = calls \ {call}
  /\ UNCHANGED <<items, errors>>

(* The arm that pops comes before the one that skips. *)
PopMutant(call) ==
  /\ call.form = "maybe"
  /\ call.skip # <<>>
  /\ calls' = (calls \ {call}) \cup {Maybe(call.method, call.args, Tail(call.skip))}
  /\ UNCHANGED <<items, errors>>

\* It is not, and the next name is tried.
Pop(call) ==
  /\ call.form = "maybe"
  /\ call.skip # <<>>
  /\ Head(call.skip) # call.method
  /\ calls' = (calls \ {call}) \cup {Maybe(call.method, call.args, Tail(call.skip))}
  /\ UNCHANGED <<items, errors>>

\* The list is used up: the method is forwarded, or cannot be.
Forward(call) ==
  LET m == MethodNamed(case, call.method) IN
  /\ call.form = "maybe"
  /\ call.skip = <<>>
  /\ calls' = calls \ {call}
  /\ IF Forwardable(m)
       THEN items' = Append(items, Forwarder(case, m, call.args)) /\ UNCHANGED errors
       ELSE errors' = errors \cup {[why |-> "receiver", method |-> m.name]} /\ UNCHANGED items

\* Trailing arguments are left out and have defaults: the helper calls itself with them.
FillIn(call) ==
  /\ call.form = "open"
  /\ Len(call.args) \in Arity(case.params) \ {Len(case.params)}
  /\ Matches(case.params, call.args)
  /\ calls' = (calls \ {call}) \cup {Invocation(Filled(case.params, call.args), call.skip)}
  /\ UNCHANGED <<items, errors>>

\* No other arm matches.
Unmatched(call) ==
  /\ call.form = "open"
  /\ ~(Len(call.args) \in Arity(case.params) /\ Matches(case.params, call.args))
  /\ calls' = calls \ {call}
  /\ errors' = errors \cup {[why |-> "arguments", method |-> None]}
  /\ UNCHANGED items

Expand(call) ==
  \/ Open(call)
  \/ SkipWritten(call)
  \/ Pop(call)
  \/ Forward(call)
  \/ FillIn(call)
  \/ Unmatched(call)

ExpandHelper == phase = "helper" /\ (\E call \in calls : Expand(call)) /\ UNCHANGED <<case, phase>>

Finished == phase = "helper" /\ calls = {}

\* The compiler goes on without the macro.
Ended == Finished /\ UNCHANGED vars

Next == ExpandTraitDef \/ ExpandTraitImpl \/ ExpandHelper \/ Ended

Spec == Init /\ [][Next]_vars
-----------------------------------------------------------------------------
(* What rustc makes of a trait's generic arguments. *)

\* A const argument may be written as a type.
Spaces(place) ==
  {kind \in Kinds : \/ kind = "lifetime" /\ place = "lifetime"
                    \/ kind = "type" /\ place \in {"type", "segment", "macro"}
                    \/ kind = "const" /\ place \in {"type", "expr", "segment", "macro"}}

\* A word means a parameter.
Stands(p, w) == p.name = w.name /\ p.kind \in Spaces(w.place)

\* The code a signature stands for under the arguments given, by position.
Meaning(ps, given, code) ==
  [k \in DOMAIN code |->
     IF \E i \in DOMAIN given : Stands(ps[i], code[k])
       THEN Fragment(given[CHOOSE i \in DOMAIN given : Stands(ps[i], code[k])])
       ELSE code[k]]

\* Every argument, the omitted ones in order from their defaults.
Complement(ps, args) ==
  LET upTo[i \in 0..Len(ps)] ==
        IF i = 0 THEN <<>>
        ELSE Append(upTo[i - 1], IF i <= Len(args) THEN args[i].code
                                 ELSE Meaning(ps, upTo[i - 1], ps[i].default))
  IN  upTo[Len(ps)]

Agree(ps, args) ==
  /\ Len(args) <= Len(ps)
  /\ \A i \in DOMAIN ps : IF i <= Len(args) THEN ps[i].kind = args[i].kind
                                            ELSE ps[i].default # None

\* What compilation has to fail for: an attribute that cannot be read, generic arguments the
\* trait does not take, and each method this build requires that is not written and cannot be
\* forwarded.
Due(c) ==
  IF ~FlagAccepted(c) \/ ~BlockAccepted(c) THEN {[why |-> "attribute", method |-> None]}
  ELSE IF ~Agree(c.params, c.args) THEN {[why |-> "arguments", method |-> None]}
  ELSE {[why |-> "receiver", method |-> n] :
          n \in {r \in Required(c) \ Written(c) :
                   ~MethodNamed(c, r).gated /\ ~Forwardable(MethodNamed(c, r))}}

\* A method that is compiled out and not written could be forwarded.
CompiledOutForwardable(c) ==
  \A n \in Required(c) \ Written(c) :
    MethodNamed(c, n).gated => Forwardable(MethodNamed(c, n))

\* The defaults a block leaves to the helper mention parameters it passes, in places where
\* the mention is rewritten.
Supported(c) ==
  Agree(c.params, c.args) =>
    \A i \in (Len(c.args) + 1)..Len(c.params), j \in DOMAIN c.params :
      \A k \in DOMAIN c.params[i].default :
        LET w == c.params[i].default[k] IN
        Stands(c.params[j], w) => j <= Len(c.args) /\ w.place \notin {"segment", "macro"}
-----------------------------------------------------------------------------
TypeOK ==
  /\ phase \in {"trait", "impl", "helper"}
  /\ \A call \in calls :
       \/ call = Invocation(call.args, case.written)
       \/ /\ call = Maybe(call.method, call.args, call.skip)
          /\ call.method \in Required(case)
          /\ call.skip \in Seq(Written(case))
  /\ items \in Seq([method : Required(case), gated : BOOLEAN, through : {"&", "&mut", "move"},
                    sig : {items[i].sig : i \in DOMAIN items}])
  /\ errors \subseteq [why : {"attribute", "arguments", "receiver"},
                       method : {None} \cup Required(case)]

Provided(n) == {i \in DOMAIN items : items[i].method = n /\ ~items[i].gated}

\* Unless compilation fails, a block ends with every method its trait requires in this
\* build exactly once, the written ones from the block and the others from the helper,
\* and with none the trait does not have: the helper subtracts the written names from the
\* recorded ones, whatever the order of either.
Complete ==
  Finished /\ errors = {} =>
    \A i \in DOMAIN case.methods :
      LET m == case.methods[i] IN
      IF m.required /\ ~m.gated /\ m.name \notin Written(case)
        THEN \E k \in Provided(m.name) : Provided(m.name) = {k}
        ELSE Provided(m.name) = {}

\* A forwarder's signature is the trait's under the arguments of the impl block, those
\* left out included, and its receiver is passed on the way it is taken: otherwise the
\* impl block does not implement the trait.  A path into a parameter (`K::Id`) and a
\* macro in a signature are not rewritten, and signatures with one are not spoken of.
TrueSignatures ==
  \A k \in DOMAIN items :
    LET m == MethodNamed(case, items[k].method)
        given == Complement(case.params, case.args)
    IN  (\A w \in DOMAIN m.sig : m.sig[w].place \notin {"segment", "macro"}) =>
          /\ items[k].sig = Meaning(case.params, given, m.sig)
          /\ items[k].through = "move" <=> m.receiver = "value"
          /\ items[k].through = "&mut" <=> m.receiver = "mut"

\* Nothing that has to fail is expanded without an error; and expansion fails for what it has
\* to and for nothing else, with two exceptions, in which the helper refuses what its
\* documentation accepts: a default that is filled in while it mentions another one (not
\* `Supported`: the arms of delegate_trait.rs 438-446 pass on a metavariable nothing has
\* bound), and a method compiled out that could not be forwarded (not
\* `CompiledOutForwardable`: delegate_trait.rs 599-602 reports it without its #[cfg]).
FailsRightly ==
  Finished =>
    /\ Due(case) # {} => errors # {}
    /\ Supported(case) /\ CompiledOutForwardable(case) => errors = Due(case)
=============================================================================
