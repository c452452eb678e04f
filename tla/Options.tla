------------------------------- MODULE Options -------------------------------
(***************************************************************************)
(* What `#[stack_safe(..)]` asks for (src/stack_safe.rs): two flags and    *)
(* the suffix that names the copies kept as written.  A definition has its *)
(* markers in the order they are written; a marker is the list of its      *)
(* options, each a name with a value or `None`.                            *)
(***************************************************************************)
EXTENDS Integers, Sequences, FiniteSets, SequencesExt

CONSTANTS SuffixNames,  \* what a copy's name may end in
          None,      \* no value, no suffix, no marker
          Bad        \* a value that is no suffix; the result of reading a marker that is in error

Flags == {"use_nonlinear_mut", "data_in_frame"}
Metas == [name : Flags \union {"original_suffix", "unknown"}, value : SuffixNames \union {None, Bad}]
Marks == Seq(Seq(Metas))
Opts == [flags : SUBSET Flags, original_suffix : SuffixNames \union {None}]
Default == [flags |-> {}, original_suffix |-> None]

ASSUME OptionsAssumption ==
  {None, Bad} \intersect SuffixNames = {} /\ {None, Bad} \intersect Opts = {} /\ None # Bad

\* One option of a marker: a flag takes no value, the suffix takes one, and neither is
\* given twice.
With(opts, meta) ==
  IF meta.name \in Flags \ opts.flags /\ meta.value = None
  THEN [opts EXCEPT !.flags = @ \union {meta.name}]
  ELSE IF meta.name = "original_suffix" /\ meta.value \in SuffixNames /\ opts.original_suffix = None
  THEN [opts EXCEPT !.original_suffix = meta.value]
  ELSE Bad

Parse(metas) ==
  LET read[k \in 0..Len(metas)] ==
        IF k = 0 THEN Default
        ELSE IF read[k - 1] = Bad THEN Bad ELSE With(read[k - 1], metas[k])
  IN  read[Len(metas)]

Merge(prev, new) ==
  [flags |-> prev.flags \union new.flags,
   original_suffix |-> IF new.original_suffix = None THEN prev.original_suffix ELSE new.original_suffix]

\* The markers of one item, or `None` if it has none.
TakeFrom(marks) ==
  LET taken[k \in 0..Len(marks)] ==
        IF k = 0 THEN None
        ELSE LET new == Parse(marks[k]) IN
             IF taken[k - 1] = Bad \/ new = Bad THEN Bad
             ELSE IF taken[k - 1] = None THEN new ELSE Merge(taken[k - 1], new)
  IN  taken[Len(marks)]

\* The suffix only names a copy, so the members of a cycle may differ in it.
SameRewrite(opts, other) == opts.flags = other.flags

\* `own.unwrap_or(opts)`.
OwnOr(own, opts) == IF own = None THEN opts ELSE own
-----------------------------------------------------------------------------
(* What a reader takes the markers of an item to ask for. *)

Asked(marks) ==
  LET given == UNION {{marks[k][m] : m \in DOMAIN marks[k]} : k \in DOMAIN marks}
      named == {k \in DOMAIN marks : \E m \in DOMAIN marks[k] : marks[k][m].name = "original_suffix"}
      last  == marks[CHOOSE k \in named : \A j \in named : j <= k]
  IN  [flags |-> {f \in Flags : \E meta \in given : meta.name = f},
       original_suffix |->
         IF named = {} THEN None
         ELSE (CHOOSE meta \in ToSet(last) : meta.name = "original_suffix").value]
=============================================================================
