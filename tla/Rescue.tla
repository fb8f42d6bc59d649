--------------------------------- MODULE Rescue ---------------------------------
(***************************************************************************)
(* Bringing a halted network back: a coordinator makes a rescue            *)
(* transaction on the database of a node, checks it on that database and   *)
(* announces the waypoint it leads to; every operator takes a copy of the  *)
(* file, commits it to their own database if the waypoint comes out the    *)
(* same, and points the configuration of the node at it.                   *)
(*                                                                         *)
(* The databases have come to a stop at different versions.  An operator   *)
(* whose database cannot take the rescue restores one from the archive.    *)
(* A coordinator may make another file of the same name at any time.       *)
(*                                                                         *)
(* A waypoint stands for a whole ledger, as its hash does.                 *)
(***************************************************************************)
EXTENDS Restore, SequencesExt

CONSTANTS
    Command,   \* what to do: commands with their inputs
    Script,    \* commands that run a script: they do not depend on the database
    Target,    \* the epoch that the operators restore
    MaxMakes   \* bound: rescue files made

ASSUME RescueAssumption ==
    /\ Script \subseteq Command
    /\ Target \in Epochs
    /\ MaxMakes \in Nat

VARIABLES
    file,     \* the rescue file that is handed out, the latest made, or none
    copy,     \* the file that each operator has taken, or none
    told,     \* announced waypoints, the latest last
    config,   \* base.waypoint of each node's configuration, or none
    makes     \* rescue files made, bounded by MaxMakes

vars == <<restoreVars, file, copy, told, config, makes>>

None == <<>>

Init ==
    /\ RestoreInit
    /\ file = None
    /\ copy = [n \in Node |-> None]
    /\ told = <<>>
    /\ config = [n \in Node |-> None]
    /\ makes = 0

\* The ledger that a database holds: transactions up to a version, the rescues
\* after it, and the state that they were run on.
Ledger(d) == <<d.version, d.rescue, d.state>>

\* num_transactions of a ledger: versions are counted from zero.
NumTransactions(l) == l[1] + 1 + Len(l[2])

\* The waypoint's version is that of the rescue transaction, the last one.
Version(w) == NumTransactions(w) - 1

\* calculate_genesis: the ledger, and so the waypoint, with the transaction.
Calculate(l, tx) == <<l[1], Append(l[2], tx), l[3]>>

Ready(n) == pc[n] = "idle" /\ db[n].part = "whole"

-----------------------------------------------------------------------------
(***************************************************************************)
(* The coordinator: cli_main.rs, transaction_factory.rs, session_tools.rs  *)
(***************************************************************************)

\* libra_run_session: what a command writes on the latest state of a database.
Session(n, c) == [command |-> c, on |-> Ledger(db[n])]

\* run_script_tx: the script alone, to be run on whatever database.
RunScriptTx(c) == [command |-> c, on |-> <<>>]

\* upgrade_tx and register_vals, or run_script_tx
MakeTx(n, c) == IF c \in Script THEN RunScriptTx(c) ELSE Session(n, c)

\* RescueCli::run makes the transaction, saves it over an earlier one, and goes
\* on to check it.
Make(n, c) ==
    /\ makes < MaxMakes
    /\ makes' = makes + 1
    /\ Ready(n)
    /\ file' = <<MakeTx(n, c)>>
    /\ copy' = [copy EXCEPT ![n] = <<MakeTx(n, c)>>]
    /\ Goto(n, "check")
    /\ UNCHANGED <<archive, bundle, plan, db, faults, told, config>>

\* check_rescue_bootstraps: run the file on the database, and do not commit.
\* The coordinator announces the waypoint that it prints.
Check(n) ==
    /\ pc[n] = "check"
    /\ told' = Append(told, Calculate(Ledger(db[n]), copy[n][1]))
    /\ Goto(n, "idle")
    /\ UNCHANGED <<archive, bundle, plan, db, faults, file, copy, config, makes>>

-----------------------------------------------------------------------------
(***************************************************************************)
(* The operators: cli_bootstrapper.rs, node_config.rs                      *)
(***************************************************************************)

\* The operator gets the file that is there now.
Copy(n) ==
    /\ pc[n] = "idle"
    /\ copy[n] # file
    /\ copy' = [copy EXCEPT ![n] = file]
    /\ UNCHANGED <<restoreVars, file, told, config, makes>>

\* Faulty variant: the version is the only thing that is compared.
VerifiedVersion(n, w) == Version(w) = NumTransactions(Ledger(db[n]))

\* The version of the waypoint is that of the next transaction, and the ledger
\* with the transaction has this waypoint.
Verified(n, w) ==
    /\ Version(w) = NumTransactions(Ledger(db[n]))
    /\ w = Calculate(Ledger(db[n]), copy[n][1])

\* BootstrapOpts::run with --commit, which needs --waypoint-to-verify: any
\* waypoint that the operator was told.
Bootstrap(n) ==
    /\ Ready(n)
    /\ copy[n] # None
    /\ \E w \in ToSet(told) : Verified(n, w)
    /\ db' = [db EXCEPT ![n].rescue = Append(@, copy[n][1])]
    /\ Goto(n, "config")
    /\ UNCHANGED <<archive, bundle, plan, faults, file, copy, told, config, makes>>

\* post_rescue_node_file_updates: base.waypoint, the initial safety rules and
\* the genesis file are set and the file is saved.
Configure(n) ==
    /\ pc[n] = "config"
    /\ config' = [config EXCEPT ![n] = Ledger(db[n])]
    /\ Goto(n, "idle")
    /\ UNCHANGED <<archive, bundle, plan, db, faults, file, copy, told, makes>>

\* The ledger that the operators are to come to.
Goal == IF told = <<>> THEN None ELSE Last(told)

\* PatchSafetyRules does the same for a waypoint that the operator types in,
\* here after a bootstrap that died between the commit and the configuration.
PatchSafetyRules(n) ==
    /\ Ready(n)
    /\ Ledger(db[n]) = Goal
    /\ config[n] # Goal
    /\ config' = [config EXCEPT ![n] = Goal]
    /\ UNCHANGED <<restoreVars, file, copy, told, makes>>

-----------------------------------------------------------------------------
(***************************************************************************)
(* An operator restores from the archive what cannot be rescued            *)
(***************************************************************************)

\* Neither the announced ledger nor the one that it was made from.
Useless(n) ==
    \/ db[n].part = "partial"
    \/ /\ db[n].part = "whole" /\ Goal # None
       /\ Ledger(db[n]) \notin {Goal, <<Goal[1], Front(Goal[2]), Goal[3]>>}

Unchanged == UNCHANGED <<file, copy, told, config, makes>>

Discard(n) == Useless(n) /\ CleanUp(n) /\ Unchanged

Replace(n) ==
    /\ db[n].part = "none" /\ ~bundle[n].made
    /\ Download(n, Target)
    /\ UNCHANGED faults /\ Unchanged

\* A download is repeated, into the directory of the first.
ReplaceAgain(n) ==
    /\ db[n].part = "none" /\ bundle[n].made
    /\ Download(n, Target)
    /\ Fault /\ Unchanged

Restore(n) == Begin(n) /\ Unchanged

\* The rescue command leaves nothing behind when it dies.
Fail(n) == (Die(n) \/ FetchBad(n)) /\ Unchanged

\* What an operator does until the node has recovered.
Operate(n) ==
    \/ Copy(n) \/ Bootstrap(n) \/ Configure(n) \/ PatchSafetyRules(n)
    \/ Discard(n) \/ Replace(n) \/ Restore(n) \/ Check(n)
    \/ RestoreStep(n) /\ Unchanged

Next ==
    \/ Publish /\ Unchanged
    \/ \E n \in Node :
        \/ Operate(n) \/ ReplaceAgain(n) \/ Fail(n)
        \/ \E c \in Command : Make(n, c)

Spec == Init /\ [][Next]_vars

\* Backups are published, commands run to their end and operators keep going:
\* they take the latest file in the end, discard a database that cannot be rescued,
\* restore another from the archive and apply the file to it.
RescueFairness ==
    /\ WF_vars(Publish /\ Unchanged)
    /\ \A n \in Node : WF_vars(Operate(n)) /\ SF_vars(Copy(n))

FairSpec == Spec /\ RescueFairness

-----------------------------------------------------------------------------
(***************************************************************************)
(* Properties                                                              *)
(***************************************************************************)

\* Operators act on their own, with files and waypoints of different makes
\* and databases of different heights, and repeat commands that died: a
\* database never holds a rescue transaction other than as part of a ledger
\* that was announced, so two databases with one agree on all before it.
OnlyAnnounced ==
    \A n \in Node : db[n].rescue # <<>> => Ledger(db[n]) \in ToSet(told)

\* When the last rescue was made on a database of the archived epoch, and its
\* file is still the one handed out, all nodes come to hold the same ledger
\* and to be configured with its waypoint, whatever they had come to before.
AllRecover ==
    <>[](/\ Goal # None
         /\ Goal[1] = EndVersion[Target] /\ Goal[3] = EndVersion[Target]
         /\ Len(Goal[2]) = 1
         /\ file = Goal[2])
      => <>[](\A n \in Node : Ledger(db[n]) = Goal /\ config[n] = Goal)
=============================================================================
