----------------------------- MODULE MCLending -----------------------------
(* Two frames and four stored values: two lends a call, lends of a callee's *)
(* callee, and a loop around a call.                                         *)
EXTENDS Lending

CONSTANTS p1, p2

\* No alias-typed position before a parked local.
MCSites ==
  {<<>>, <<"whole">>, <<"place", "whole">>, <<"whole", "place">>, <<"place", "place">>,
   <<"place", "alias">>}

\* An alias-typed position before a parked local.
AliasFirst == {<<"alias", "place">>}
=============================================================================
