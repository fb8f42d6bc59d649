--------------------------- MODULE MCValidatorSet ---------------------------
(* Small instances of ValidatorSet.  The thresholds 4 and 9 of the code are *)
(* scaled down to the size of the instance.                                 *)
EXTENDS ValidatorSet, TLC

CONSTANTS a, b, c, d, e

MCGenesis == {a, b, c}

MCValidators == {a, b, c, d}

\* Everybody vouches for everybody else.
MCVouchers == [v \in MCValidators |-> MCValidators \ {v}]

\* A smaller instance for liveness: two seated validators and a stranger.
MCPair == {a, b}

MCTrio == {a, b, c}

MCTrioVouchers == [v \in MCTrio |-> MCTrio \ {v}]

MCSymmetry == Permutations({a, b, c})
=============================================================================
