------------------------------- MODULE MCPin -------------------------------
(* The store on chunks of two values and five values at most: three chunks, *)
(* full and partly filled, and an empty one left on top by `take_last`.     *)
EXTENDS Pin

CONSTANTS d1, d2, b1, b2, b3
=============================================================================
