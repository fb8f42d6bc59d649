------------------------------ MODULE MCLedger ------------------------------
(* A small instance of Ledger: a slow validator, a founder to migrate, a    *)
(* community wallet that is also a billed safe, and an address without an   *)
(* account.                                                                 *)
EXTENDS Ledger, TLC

CONSTANTS val, founder, cw, fresh

MCAccounts == {val, founder, cw, fresh}

MCInitStatus ==
    (val :> "new") @@ (founder :> "v7") @@ (cw :> "cw_auth") @@ (fresh :> "none")

MCSafes == {cw}

MCCandidates == {val}

MCInitBalance == (val :> 2) @@ (founder :> 2) @@ (cw :> 2) @@ (fresh :> 0)
=============================================================================
