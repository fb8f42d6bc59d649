-------------------------------- MODULE MCBatch --------------------------------
(* One payment by two of three, or two payments by two authorities.          *)
EXTENDS Batch, TLC

CONSTANTS a1, a2, a3, p1, p2

MCBatches ==
    {[list |-> <<[payee |-> p1, amount |-> 1]>>, by |-> {a1, a2, a3}],
     [list |-> <<[payee |-> p1, amount |-> 1], [payee |-> p2, amount |-> 1]>>,
      by |-> {a1, a2}]}
=============================================================================
