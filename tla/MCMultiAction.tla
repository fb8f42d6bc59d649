---------------------------- MODULE MCMultiAction ----------------------------
(* Instances of MultiAction with five candidates, two of them related.                  *)
EXTENDS MultiAction, TLC

CONSTANTS x1, x2, x3, x4, x5

Symmetry == Permutations({x1, x2, x3}) \cup Permutations({x4, x5})
MCRelated == {{x4, x5}}
==============================================================================
