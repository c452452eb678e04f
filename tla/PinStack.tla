------------------------------ MODULE PinStack ------------------------------
(***************************************************************************)
(* What the store of `data_in_frame` promises the code the macro emits     *)
(* (the documentation of `Pin` in defs/src/lib.rs): a stack of values, each *)
(* at an address that stays its own until the value leaves, cut back to a  *)
(* mark, with one value taken out by its index.                            *)
(***************************************************************************)
EXTENDS Naturals, Sequences

CONSTANTS Values,     \* what may be lent
          Addresses,  \* where a value may live
          Indices,    \* the marks and indices a caller may name
          None        \* the answer of an operation that returns nothing

VARIABLES items,      \* the values held, oldest first, each with its address
          call,       \* the last operation called
          answer      \* what it returns

vars == <<items, call, answer>>

Used == {items[i].at : i \in DOMAIN items}

New ==
  /\ items = <<>>
  /\ call = <<"new">>
  /\ answer = None

Push(d) ==
  /\ call' = <<"push", d>>
  /\ \E a \in Addresses \ Used :
       /\ items' = Append(items, [val |-> d, at |-> a])
       /\ answer' = a

Truncate(mark) ==
  /\ call' = <<"truncate", mark>>
  /\ items' = IF mark < Len(items) THEN SubSeq(items, 1, mark) ELSE items
  /\ answer' = None

\* The value at index `at` (counted from 0) is handed back, what is above it dropped.
TakeAt(at) ==
  /\ call' = <<"take_at", at>>
  /\ \/ /\ at < Len(items)
        /\ items' = SubSeq(items, 1, at)
        /\ answer' = items[at + 1].val
     \/ /\ at >= Len(items)
        /\ answer' = None
        /\ UNCHANGED items

TakeLast ==
  /\ call' = <<"take_last">>
  /\ \/ /\ items # <<>>
        /\ items' = SubSeq(items, 1, Len(items) - 1)
        /\ answer' = items[Len(items)].val
     \/ /\ items = <<>>
        /\ answer' = None
        /\ UNCHANGED items

Renew ==
  /\ items' = <<>>
  /\ call' = <<"new">>
  /\ answer' = None

Next ==
  \/ \E d \in Values : Push(d)
  \/ \E n \in Indices : Truncate(n) \/ TakeAt(n)
  \/ TakeLast
  \/ Renew

Spec == New /\ [][Next]_vars
=============================================================================
