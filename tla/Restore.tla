-------------------------------- MODULE Restore --------------------------------
(***************************************************************************)
(* Restoring the database of a node from the epoch archive: `libra storage *)
(* download-restore-bundle`, then `libra storage epoch-restore`.           *)
(*                                                                         *)
(* The archive is a git repository that keeps growing.  It has folders of  *)
(* three kinds, each published on its own: the end of an epoch with its    *)
(* waypoint, the state at that version, and a chunk of transactions.  A    *)
(* download takes one folder of each kind from one listing; a restore uses *)
(* whatever folders earlier downloads have left in the same directory.     *)
(*                                                                         *)
(* A process may die at every step.  A download does not look at the       *)
(* status of an answer, so that a file may hold an error instead.          *)
(***************************************************************************)
EXTENDS Naturals, Sequences, FiniteSets, FiniteSetsExt

CONSTANTS
    Node,
    EndVersion,   \* archived epochs, and the version at which each ended
    TxFirst,      \* first versions of the transaction chunks
    ChunkLength,  \* transactions in a chunk
    Alike,        \* for each epoch, others for which the name of the state_epoch
                  \* folder matches the pattern of this epoch and its version
    Published,    \* what the archive has at first
    Height,       \* version that the old database of a node has come to
    MaxFaults     \* bound: processes that die and answers that are errors

Epochs == DOMAIN EndVersion

Folder == [kind : {"epoch_ending", "state_epoch"}, num : Epochs]
              \cup [kind : {"transaction"}, num : TxFirst]

ASSUME RestoreAssumption ==
    /\ IsFiniteSet(Node) /\ Node # {}
    /\ Epochs \subseteq 1 .. 99
    /\ EndVersion \in [Epochs -> Nat \ {0}]
    /\ TxFirst \subseteq Nat /\ IsFiniteSet(TxFirst)
    /\ ChunkLength \in Nat \ {0}
    /\ Alike \in [Epochs -> SUBSET Epochs]
    /\ Published \subseteq Folder
    /\ Height \in [Node -> Nat]
    /\ MaxFaults \in Nat

VARIABLES
    archive,   \* folders under snapshots/ of the branch
    bundle,    \* the bundle directory of each node: its good and bad folders
    pc,        \* "idle", "fetch", "load", "epoch", "snapshot", "transaction", ...
    plan,      \* folders that a download has yet to fetch
    db,        \* the database directory of each node
    faults     \* faults so far, bounded by MaxFaults

restoreVars == <<archive, bundle, pc, plan, db, faults>>

NoBundle == [made |-> FALSE, good |-> {}, bad |-> {}]

\* version: where the epoch's waypoint is; state: version of the snapshot;
\* txs: first version of the chunk; rescue: rescue transactions on top.
NoDb == [part |-> "none", version |-> 0, state |-> 0, txs |-> 0, rescue |-> <<>>]

Whole(v) == [part |-> "whole", version |-> v, state |-> v, txs |-> v, rescue |-> <<>>]

RestoreInit ==
    /\ archive = Published
    /\ bundle = [n \in Node |-> NoBundle]
    /\ pc = [n \in Node |-> "idle"]
    /\ plan = [n \in Node |-> <<>>]
    /\ db = [n \in Node |-> Whole(Height[n])]
    /\ faults = 0

Goto(n, p) == pc' = [pc EXCEPT ![n] = p]

Fault == faults < MaxFaults /\ faults' = faults + 1

-----------------------------------------------------------------------------
(***************************************************************************)
(* download_bundle.rs, parse_folder_names.rs                               *)
(***************************************************************************)

Nums(kind) == {f.num : f \in {g \in archive : g.kind = kind}}

\* Faulty variant: only epochs before the target.
ClosestBefore(kind, target) == {x \in Nums(kind) : x < target}

\* find_closest_epoch_ending, find_matching_state_epoch: an exact match is the
\* highest of those up to the target.
Closest(kind, target) == {x \in Nums(kind) : x <= target}

\* find_closest_transaction_folder: the chunk that starts last among those that
\* do not start after the state's version.
Below(version) == {x \in Nums("transaction") : x <= version}

\* find_closest_epoch_folder in download_restore_bundle: one listing of the
\* archive decides the three folders, in the order in which they are fetched.
Download(n, target) ==
    /\ pc[n] = "idle"
    /\ Closest("epoch_ending", target) # {}
    /\ Closest("state_epoch", target) # {}
    /\ LET ending == Max(Closest("epoch_ending", target))
           state == Max(Closest("state_epoch", target))
       IN  /\ Below(EndVersion[state]) # {}
           /\ plan' = [plan EXCEPT ![n] =
                  << [kind |-> "epoch_ending", num |-> ending],
                     [kind |-> "state_epoch", num |-> state],
                     [kind |-> "transaction", num |-> Max(Below(EndVersion[state]))] >>]
    /\ bundle' = [bundle EXCEPT ![n].made = TRUE]
    /\ Goto(n, "fetch")
    /\ UNCHANGED <<archive, db>>

\* download_github_folder writes over what an earlier download left.
FetchGood(n) ==
    /\ pc[n] = "fetch"
    /\ bundle' = [bundle EXCEPT ![n].good = @ \cup {Head(plan[n])},
                                 ![n].bad = @ \ {Head(plan[n])}]
    /\ plan' = [plan EXCEPT ![n] = Tail(@)]
    /\ Goto(n, IF Len(plan[n]) = 1 THEN "idle" ELSE "fetch")
    /\ UNCHANGED <<archive, db, faults>>

\* An answer that is not the file is written all the same, or the listing of
\* the folder was truncated, which only logs a warning.
FetchBad(n) ==
    /\ Fault
    /\ pc[n] = "fetch"
    /\ bundle' = [bundle EXCEPT ![n].good = @ \ {Head(plan[n])},
                                 ![n].bad = @ \cup {Head(plan[n])}]
    /\ plan' = [plan EXCEPT ![n] = Tail(@)]
    /\ Goto(n, IF Len(plan[n]) = 1 THEN "idle" ELSE "fetch")
    /\ UNCHANGED <<archive, db>>

-----------------------------------------------------------------------------
(***************************************************************************)
(* restore_bundle.rs                                                       *)
(***************************************************************************)

\* The manifests of one kind among the folders in which a manifest is found.
Of(found, kind) == {f \in found : f.kind = kind}

\* Paths are compared as strings: in the names of epoch endings 9- comes after
\* 10-, and 1- before it.
Lex(x) == IF x < 10 THEN 100 * x ELSE 10 * x + 1

\* any_epoch_manifest: the greatest path of an epoch_ending manifest.
Ending(found) ==
    {f \in Of(found, "epoch_ending") :
        \A g \in Of(found, "epoch_ending") : Lex(g.num) <= Lex(f.num)}

\* In the names of states both 9_ and 1_ come after 10_.
StateLex(x) == IF x < 10 THEN 20 * x + 19 ELSE 2 * x

\* The paths that the pattern of search_snapshot_manifest finds: the digits of
\* the epoch and, later in the name, those of its version.
Globbed(found, e) ==
    {f \in Of(found, "state_epoch") : f.num = e \/ f.num \in Alike[e]}

\* Faulty variant: the greatest path of any state_epoch manifest.
SnapshotAny(found, e) ==
    {f \in Of(found, "state_epoch") :
        \A g \in Of(found, "state_epoch") : StateLex(g.num) <= StateLex(f.num)}

\* search_snapshot_manifest: the greatest path that the pattern finds.
Snapshot(found, e) ==
    {f \in Globbed(found, e) :
        \A g \in Globbed(found, e) : StateLex(g.num) <= StateLex(f.num)}

\* verify_valid_transaction_list
Covers(f, version) == version \in f.num .. (f.num + ChunkLength - 1)

\* search_transaction_manifest: a manifest with the version in its range.
Transactions(found, version) ==
    {f \in Of(found, "transaction") : Covers(f, version)}

\* load and is_loaded: the manifests that restore the version of the epoch.
Loaded(found) ==
    {m \in Ending(found) \X Of(found, "state_epoch") \X Of(found, "transaction") :
        /\ m[2] \in Snapshot(found, m[1].num)
        /\ m[3] \in Transactions(found, EndVersion[m[1].num])}

-----------------------------------------------------------------------------
(***************************************************************************)
(* restore.rs, dbtool_init.rs, bootstrap.rs                                *)
(***************************************************************************)

\* epoch_restore: refused when the destination exists, which is made first.
Begin(n) ==
    /\ pc[n] = "idle"
    /\ db[n].part = "none"
    /\ bundle[n].made
    /\ db' = [db EXCEPT ![n].part = "partial"]
    /\ Goto(n, "load")
    /\ UNCHANGED <<archive, bundle, plan, faults>>

\* maybe_decompress_gz_files goes over the whole bundle, used or not: it gets
\* through if no file is an error.
Decompresses(n) == bundle[n].bad = {}

\* load, with or without a manifest in each of the bad folders.  Every failure
\* after this point leaves the destination in place, and a bad folder among
\* those that are loaded is always one.
Load(n) ==
    /\ pc[n] = "load"
    /\ \E seen \in SUBSET bundle[n].bad :
        LET loaded == Loaded(bundle[n].good \cup seen)
        IN  \/ \E m \in loaded :
                /\ \A k \in 1 .. 3 : m[k] \in bundle[n].good
                /\ plan' = [plan EXCEPT ![n] = m]
                /\ Goto(n, "epoch")
            \/ /\ ~Decompresses(n) \/ loaded = {}
               /\ Goto(n, "idle")
               /\ UNCHANGED plan
    /\ UNCHANGED <<archive, bundle, db, faults>>

\* full_restore: run_restore of the epoch ending, of the snapshot, and of the
\* transactions, each of them opening the database anew.  The snapshot's own
\* version is not compared with that of the epoch.
RestoreEpoch(n) ==
    /\ pc[n] = "epoch"
    /\ db' = [db EXCEPT ![n].version = EndVersion[plan[n][1].num]]
    /\ Goto(n, "snapshot")
    /\ UNCHANGED <<archive, bundle, plan, faults>>

RestoreSnapshot(n) ==
    /\ pc[n] = "snapshot"
    /\ db' = [db EXCEPT ![n].state = EndVersion[plan[n][2].num]]
    /\ Goto(n, "transaction")
    /\ UNCHANGED <<archive, bundle, plan, faults>>

RestoreTransactions(n) ==
    /\ pc[n] = "transaction"
    /\ db' = [db EXCEPT ![n].txs = plan[n][3].num, ![n].part = "whole"]
    /\ plan' = [plan EXCEPT ![n] = <<>>]
    /\ Goto(n, "genesis")
    /\ UNCHANGED <<archive, bundle, faults>>

\* bootstrap_db: the waypoint of genesis is not at the version of a database
\* that has transactions, and maybe_bootstrap then leaves it alone.
BootstrapDb(n) ==
    /\ pc[n] = "genesis"
    /\ Goto(n, "idle")
    /\ UNCHANGED <<archive, bundle, plan, db, faults>>

\* A process dies, or a request or a read of a file fails and ends it.
Die(n) ==
    /\ Fault
    /\ pc[n] # "idle"
    /\ Goto(n, "idle")
    /\ plan' = [plan EXCEPT ![n] = <<>>]
    /\ UNCHANGED <<archive, bundle, db>>

-----------------------------------------------------------------------------
(***************************************************************************)
(* The archive and the operator                                            *)
(***************************************************************************)

\* A backup job adds a folder to the repository.
Publish ==
    /\ \E f \in Folder \ archive : archive' = archive \cup {f}
    /\ UNCHANGED <<bundle, pc, plan, db, faults>>

\* The operator deletes the database and the bundle, to begin anew.
CleanUp(n) ==
    /\ pc[n] = "idle"
    /\ db' = [db EXCEPT ![n] = NoDb]
    /\ bundle' = [bundle EXCEPT ![n] = NoBundle]
    /\ UNCHANGED <<archive, pc, plan, faults>>

RestoreStep(n) ==
    \/ FetchGood(n) \/ Load(n) \/ RestoreEpoch(n)
    \/ RestoreSnapshot(n) \/ RestoreTransactions(n) \/ BootstrapDb(n)

-----------------------------------------------------------------------------
(***************************************************************************)
(* Properties                                                              *)
(***************************************************************************)

\* The state of another epoch, the folder f, is found for the epoch of the
\* ending g: its name matches the pattern, and the bundle does not have the
\* state of that epoch, or has it under a name that comes no later.
Mistaken(b, g, f) ==
    /\ g \in Of(b.good, "epoch_ending") /\ f \in Of(b.good, "state_epoch")
    /\ f.num \in Alike[g.num]
    /\ \A own \in Of(b.good, "state_epoch") :
            own.num = g.num => StateLex(own.num) <= StateLex(f.num)

\* Whatever folders several downloads from a growing archive have left in a
\* bundle, a database that was restored from it has the transactions of the
\* version that the epoch's waypoint vouches for, and the state at that version:
\* one cut of the chain.  The one exception is a bundle with the state of
\* another epoch whose name is mistaken for that of this one.
RestoredIsCut ==
    \A n \in Node : db[n].part = "whole" =>
        /\ Covers([num |-> db[n].txs], db[n].version)
        /\ \/ db[n].state = db[n].version
           \/ \E g, f \in bundle[n].good :
                /\ Mistaken(bundle[n], g, f)
                /\ db[n].version = EndVersion[g.num]
                /\ db[n].state = EndVersion[f.num]
=============================================================================
