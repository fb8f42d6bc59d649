------------------------------- MODULE MCRestart -------------------------------
(* The two ways to bring a network up again.  A rescue of two nodes, with two  *)
(* archived epochs and what was published of the second; or a ceremony of two  *)
(* participants, with recovery files of two accounts and a wallet.  They share *)
(* no state: there is a rescue of a network, or a ceremony for a new one.      *)
EXTENDS Rescue, Ceremony, TLC

CONSTANTS n1, n2, u1, u2

\* Epochs nine and ten: their names are not in the order of their numbers.
MCEndVersion == (9 :> 2) @@ (10 :> 92)

\* state_epoch*9*2* finds state_epoch_10_ver_92 too.
MCAlike == (9 :> {10}) @@ (10 :> {})

\* The second chunk begins at the end of the tenth epoch.
MCTxFirst == {0, 92}

MCPublished ==
    {[kind |-> "epoch_ending", num |-> 9], [kind |-> "state_epoch", num |-> 9],
     [kind |-> "transaction", num |-> 0], [kind |-> "transaction", num |-> 92]}

MCHeight == (n1 :> 92) @@ (n2 :> 93)

-----------------------------------------------------------------------------
Option(S) == {<<>>} \cup {<<x>> : x \in S}

\* Accounts of the legacy chain: of a participant, a donor and a wallet.
MCLegacyAccounts == {<<u1, 1>>, <<"b", 1>>, <<"w", 1>>}

\* An account of the legacy chain.
MCRecords ==
    [account : {<<u1, 1>>}, role : {"user", "system"}, auth : BOOLEAN,
     balance : Option({0, 2}), slow : Option({0, 1, 3}), comm : {FALSE},
     receipts : SUBSET {<<"w", 1>>}, deposits : {<<>>}, pledge : Option({2})]

\* A community wallet, and a donor who may have been dropped.
MCWallet ==
    [account |-> <<"w", 1>>, role |-> "user", auth |-> TRUE, balance |-> <<2>>,
     slow |-> <<>>, comm |-> TRUE, receipts |-> {}, deposits |-> <<2>>, pledge |-> <<>>]

MCDonor ==
    [account |-> <<"b", 1>>, role |-> "user", auth |-> TRUE, balance |-> <<1>>,
     slow |-> <<1>>, comm |-> FALSE, receipts |-> {<<"w", 1>>}, deposits |-> <<>>,
     pledge |-> <<3>>]

\* A file that drops a validator: no genesis comes of it.
MCDropped == <<Drop([MCDonor EXCEPT !.account = <<u1, 1>>])>>

MCTestLegacy ==
    {<<r, MCWallet, d>> : r \in MCRecords, d \in {MCDonor, Drop(MCDonor)}} \cup {MCDropped}

MCLegacy == <<MCDonor, MCWallet>>

-----------------------------------------------------------------------------
\* The network is halted, with these folders in the archive.
MCHalted(folders) ==
    /\ archive = folders
    /\ bundle = [n \in Node |-> NoBundle] /\ pc = [n \in Node |-> "idle"]
    /\ plan = [n \in Node |-> <<>>] /\ db = [n \in Node |-> Whole(Height[n])]
    /\ faults = 0 /\ file = None /\ copy = [n \in Node |-> None]
    /\ told = <<>> /\ config = [n \in Node |-> None]

\* A rescue, while there is no ceremony but a failed testnet; with one file less
\* also when the transactions of the tenth epoch are not published yet, which is
\* when the state of the tenth epoch can be restored for the ninth.  Or a ceremony,
\* while all that is archived is published and nobody makes a rescue.
MCInit ==
    \/ /\ CeremonyInit /\ recovery = MCDropped /\ ~testing
       /\ \/ Init
          \/ /\ MCHalted(Published \ {[kind |-> "transaction", num |-> 92]})
             /\ makes = MaxMakes - 1
    \/ CeremonyInit /\ MCHalted(Folder) /\ makes = MaxMakes

MCNext == (Next /\ UNCHANGED ceremonyVars) \/ (CeremonyNext /\ UNCHANGED vars)

MCSpec ==
    /\ MCInit /\ [][MCNext]_<<vars, ceremonyVars>>
    /\ RescueFairness /\ CeremonyFairness
=============================================================================
