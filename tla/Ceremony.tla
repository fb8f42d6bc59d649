-------------------------------- MODULE Ceremony --------------------------------
(***************************************************************************)
(* The genesis ceremony: every participant runs the genesis wizard, which  *)
(* makes the files of a validator, registers them in a fork of the genesis *)
(* repository and asks for them to be pulled; when everyone is ready, each *)
(* participant builds genesis from what is in the repository then, file by *)
(* file, and all have to come to the same one.                             *)
(*                                                                         *)
(* A registration is two files in a directory named for the account, both  *)
(* at home and in the fork, written one after the other.  The maintainers  *)
(* merge pull requests and keep the layout, the list of directories.  For  *)
(* a testnet genesis is built without a repository.                        *)
(*                                                                         *)
(* The identity of a validator is the number of a mnemonic: an account of  *)
(* participant u is <<u, k>>, and <<u, 1>> is the one that u tries first.  *)
(***************************************************************************)
EXTENDS Migration

CONSTANTS
    Users,           \* the participants
    LegacyAccounts,  \* the accounts of the legacy chain
    Legacy,          \* the recovery file that the participants agreed on
    TestLegacy,      \* recovery files that a testnet may be built from
    MaxMishaps       \* bound: processes that die, prompts that fail, second thoughts

ASSUME CeremonyAssumption ==
    /\ IsFiniteSet(Users) /\ Users # {}
    /\ \A list \in TestLegacy \cup {Legacy} : WellFormed(list, LegacyAccounts)
    /\ MaxMishaps \in Nat

VARIABLES
    recovery,   \* the recovery file in use
    testnet,    \* built with validators given on the command line
    testing,    \* for the chain that the tests use
    home,       \* files of each participant: [identity, operator, owner]
    fork,       \* what each participant has put into their fork, by directory
    pulls,      \* participants with an open pull request
    main,       \* registrations in the genesis repository, by directory
    layout,     \* layout.yaml: the directory of each participant, if any
    stage,      \* where the wizard of each participant is
    job,        \* registrations that a build has fetched so far
    blob,       \* genesis.blob of each participant, or none
    waypoint,   \* waypoint.txt of each participant: the genesis it stands for
    moved,      \* history: a participant has no build of the repository as it is
    mishaps     \* mishaps so far, bounded by MaxMishaps

files == <<home, fork, pulls>>
repo == <<main, layout>>
output == <<blob, waypoint>>
ceremonyVars == <<recovery, testnet, testing, files, repo, stage, job, output, moved, mishaps>>

Absent == <<>>

Accounts == Users \X {1, 2}

NoPair == [operator |-> Absent, owner |-> Absent]

NoJob == [todo |-> <<>>, owners |-> <<>>, operators |-> <<>>]

CeremonyInit ==
    /\ \/ testnet = FALSE /\ testing = FALSE /\ recovery = Legacy
       \/ testnet = TRUE /\ testing \in BOOLEAN /\ recovery \in TestLegacy
    /\ home = [u \in Users |-> [identity |-> Absent, operator |-> Absent, owner |-> Absent]]
    /\ fork = [u \in Users |-> [a \in Accounts |-> NoPair]]
    /\ pulls = {}
    /\ main = [a \in Accounts |-> NoPair]
    /\ layout = [u \in Users |-> Absent]
    /\ stage = [u \in Users |-> "idle"]
    /\ job = [u \in Users |-> NoJob]
    /\ blob = [u \in Users |-> Absent]
    /\ waypoint = [u \in Users |-> Absent]
    /\ moved = [u \in Users |-> TRUE]
    /\ mishaps = 0

Proceed(u, p) == stage' = [stage EXCEPT ![u] = p]

Mishap == mishaps < MaxMishaps /\ mishaps' = mishaps + 1

Quiet == UNCHANGED <<recovery, testnet, testing>>

-----------------------------------------------------------------------------
(***************************************************************************)
(* Making the validator's files: validator_config.rs, validator_files.rs   *)
(***************************************************************************)

\* The files at home are there, and are those of one account.
Matching(u) ==
    /\ home[u].identity # Absent
    /\ home[u].operator = home[u].identity /\ home[u].owner = home[u].identity

\* refresh_validator_files in the dialogue: the key files of a mnemonic.  A
\* participant who has whole files makes others only on second thoughts.
Freshen(u, k) ==
    /\ stage[u] = "idle" /\ ~testnet
    /\ home[u].identity = Absent => k = 1
    /\ IF Matching(u)
       THEN Mishap /\ <<u, k>> # home[u].identity
       ELSE UNCHANGED mishaps
    /\ home' = [home EXCEPT ![u].identity = <<u, k>>]
    /\ Proceed(u, "operator")
    /\ UNCHANGED <<fork, pulls, repo, job, output, moved>> /\ Quiet

\* set_config_files writes operator.yaml ...
SetOperator(u) ==
    /\ stage[u] = "operator"
    /\ home' = [home EXCEPT ![u].operator = home[u].identity]
    /\ Proceed(u, "owner")
    /\ UNCHANGED <<fork, pulls, repo, job, output, moved, mishaps>> /\ Quiet

\* ... and then owner.yaml.
SetOwner(u) ==
    /\ stage[u] = "owner"
    /\ home' = [home EXCEPT ![u].owner = home[u].identity]
    /\ Proceed(u, "register")
    /\ UNCHANGED <<fork, pulls, repo, job, output, moved, mishaps>> /\ Quiet

\* An error of the dialogue is printed, and the wizard goes on to register.
DialogueFails(u) ==
    /\ Mishap
    /\ stage[u] \in {"operator", "owner"}
    /\ Proceed(u, "register")
    /\ UNCHANGED <<files, repo, job, output, moved>> /\ Quiet

-----------------------------------------------------------------------------
(***************************************************************************)
(* Registering: wizard.rs, genesis_registration.rs, github_extensions.rs   *)
(***************************************************************************)

\* A participant whose files are whole, and not in the repository, runs the
\* wizard once more and skips the dialogue.
Again(u) ==
    /\ stage[u] = "idle" /\ ~testnet
    /\ Matching(u)
    /\ main[home[u].identity] # [operator |-> home[u].operator, owner |-> home[u].owner]
    /\ Proceed(u, "register")
    /\ UNCHANGED <<files, repo, job, output, moved, mishaps>> /\ Quiet

\* git_setup, and the first put of register: operator.yaml.  The directory is
\* named for the key file's account, whatever the other two files say; a file
\* that is not there is a panic.
PutOperator(u) ==
    /\ stage[u] = "register"
    /\ IF Absent \in {home[u].operator, home[u].owner}
       THEN Proceed(u, "idle") /\ UNCHANGED fork
       ELSE /\ fork' = [fork EXCEPT ![u][home[u].identity].operator = home[u].operator]
            /\ Proceed(u, "put")
    /\ UNCHANGED <<home, pulls, repo, job, output, moved, mishaps>> /\ Quiet

\* The second put: owner.yaml.
PutOwner(u) ==
    /\ stage[u] = "put"
    /\ fork' = [fork EXCEPT ![u][home[u].identity].owner = home[u].owner]
    /\ Proceed(u, "pull")
    /\ UNCHANGED <<home, pulls, repo, job, output, moved, mishaps>> /\ Quiet

\* make_pull_request: one that is open already will do.
MakePullRequest(u) ==
    /\ stage[u] = "pull"
    /\ pulls' = pulls \cup {u}
    /\ Proceed(u, "idle")
    /\ UNCHANGED <<home, fork, repo, job, output, moved, mishaps>> /\ Quiet

-----------------------------------------------------------------------------
(***************************************************************************)
(* The maintainers of the genesis repository                               *)
(***************************************************************************)

\* A pull request is merged: what the fork has by then, finished or not.
Merge(u) ==
    /\ u \in pulls
    /\ main' = [a \in Accounts |->
                   [f \in {"operator", "owner"} |->
                       IF fork[u][a][f] = Absent THEN main[a][f] ELSE fork[u][a][f]]]
    /\ pulls' = pulls \ {u}
    /\ moved' = [v \in Users |-> TRUE]
    /\ UNCHANGED <<home, fork, layout, stage, job, output, mishaps>> /\ Quiet

\* The layout gets the directory that a participant has registered last.
SetLayout(u) ==
    /\ home[u].identity # Absent /\ layout[u] # home[u].identity
    /\ main[home[u].identity] # NoPair
    /\ layout' = [layout EXCEPT ![u] = home[u].identity]
    /\ moved' = [v \in Users |-> TRUE]
    /\ UNCHANGED <<files, main, stage, job, output, mishaps>> /\ Quiet

-----------------------------------------------------------------------------
(***************************************************************************)
(* Building: genesis_builder.rs                                            *)
(***************************************************************************)

\* The directories of the layout, in an order that is the same for everyone.
Directories == SetToSeq({layout[u] : u \in Users})

\* Faulty variant: what an earlier build has fetched is not fetched again.
EveryoneReadyKeeps(u) ==
    /\ stage[u] = "idle" /\ ~testnet
    /\ \A v \in Users : layout[v] # Absent
    /\ moved[u]
    /\ job' = IF job[u] # NoJob THEN job
              ELSE [job EXCEPT ![u] = [NoJob EXCEPT !.todo = Directories]]
    /\ moved' = [moved EXCEPT ![u] = FALSE]
    /\ Proceed(u, "fetch")
    /\ UNCHANGED <<files, repo, output, mishaps>> /\ Quiet

\* "Is everyone ready?": fetch_genesis_info reads the layout, and then the
\* registrations that it lists.  A participant builds again when the
\* repository has changed, or the last build has not come to its end.
EveryoneReady(u) ==
    /\ stage[u] = "idle" /\ ~testnet
    /\ \A v \in Users : layout[v] # Absent
    /\ moved[u]
    /\ job' = [job EXCEPT ![u] = [NoJob EXCEPT !.todo = Directories]]
    /\ moved' = [moved EXCEPT ![u] = FALSE]
    /\ Proceed(u, "fetch")
    /\ UNCHANGED <<files, repo, output, mishaps>> /\ Quiet

\* get_config reads owner.yaml, and then operator.yaml, of one user after the
\* other, from the genesis repository as it is at that moment.
FetchOwner(u) ==
    /\ stage[u] = "fetch"
    /\ LET i == Len(job[u].operators) + 1
       IN  /\ i <= Len(job[u].todo) /\ Len(job[u].owners) < i
           /\ job' = [job EXCEPT ![u].owners = Append(@, main[job[u].todo[i]].owner)]
    /\ UNCHANGED <<files, repo, stage, output, moved, mishaps>> /\ Quiet

FetchOperator(u) ==
    /\ stage[u] = "fetch"
    /\ LET i == Len(job[u].owners)
       IN  /\ Len(job[u].operators) < i
           /\ job' = [job EXCEPT ![u].operators =
                         Append(@, main[job[u].todo[i]].operator)]
    /\ UNCHANGED <<files, repo, stage, output, moved, mishaps>> /\ Quiet

Fetched(u) == Len(job[u].operators) = Len(job[u].todo)

\* get_config and get_validator_configs: both files are there and name the
\* same operator, for every user of the layout.
Agree(u) ==
    Absent \notin ToSet(job[u].owners) /\ job[u].owners = job[u].operators

\* The genesis transaction, by what it is made of: the validators and the
\* records that are migrated.  The framework that is published with it comes
\* from the repository or is the same for everyone.
GenesisOf(owners, operators) ==
    <<[owners |-> owners, operators |-> operators, records |-> Parse(recovery)]>>

Genesis(u) == GenesisOf(job[u].owners, job[u].operators)

\* build writes genesis.blob if there are no errors ...
WriteBlob(u) ==
    /\ stage[u] = "fetch" /\ Fetched(u)
    /\ IF Agree(u) /\ Creatable(recovery, job[u].owners)
       THEN blob' = [blob EXCEPT ![u] = Genesis(u)] /\ Proceed(u, "written")
            /\ UNCHANGED moved
       ELSE moved' = [moved EXCEPT ![u] = TRUE] /\ Proceed(u, "idle")
            /\ UNCHANGED blob
    /\ UNCHANGED <<files, repo, job, waypoint, mishaps>> /\ Quiet

\* Faulty variant: a waypoint file that is there is kept.
WriteWaypointOnce(u) ==
    /\ stage[u] = "written"
    /\ waypoint' = IF waypoint[u] = Absent THEN [waypoint EXCEPT ![u] = blob[u]]
                   ELSE waypoint
    /\ Proceed(u, "idle")
    /\ UNCHANGED <<files, repo, job, blob, moved, mishaps>> /\ Quiet

\* ... and then waypoint.txt.  The audit of the balances comes after both, and
\* what it finds is not looked at.
WriteWaypoint(u) ==
    /\ stage[u] = "written"
    /\ waypoint' = [waypoint EXCEPT ![u] = blob[u]]
    /\ Proceed(u, "idle")
    /\ UNCHANGED <<files, repo, job, blob, moved, mishaps>> /\ Quiet

\* build with testnet_vals: the validators are given.
TestVals == SetToSeq(Users \X {1})

TestGenesis(u) ==
    /\ testnet /\ stage[u] = "idle" /\ blob[u] = Absent
    /\ Creatable(recovery, TestVals)
    /\ blob' = [blob EXCEPT ![u] = GenesisOf(TestVals, TestVals)]
    /\ Proceed(u, "written")
    /\ UNCHANGED <<files, repo, job, waypoint, moved, mishaps>> /\ Quiet

\* The wizard dies, or a request fails and ends it.
WizardDies(u) ==
    /\ Mishap
    /\ stage[u] # "idle"
    /\ Proceed(u, "idle")
    /\ moved' = [moved EXCEPT ![u] = TRUE]
    /\ UNCHANGED <<files, repo, job, output>> /\ Quiet

Wizard(u) ==
    \/ SetOperator(u) \/ SetOwner(u) \/ Again(u) \/ PutOperator(u) \/ PutOwner(u)
    \/ MakePullRequest(u) \/ EveryoneReady(u) \/ FetchOwner(u) \/ FetchOperator(u)
    \/ WriteBlob(u) \/ WriteWaypoint(u) \/ TestGenesis(u)
    \/ \E k \in {1, 2} : Freshen(u, k)

CeremonyNext ==
    \E u \in Users :
        Wizard(u) \/ DialogueFails(u) \/ Merge(u) \/ SetLayout(u) \/ WizardDies(u)

CeremonySpec == CeremonyInit /\ [][CeremonyNext]_ceremonyVars

\* What a participant does about files that are not whole or not registered.
Repair(u) == Again(u) \/ (~Matching(u) /\ \E k \in {1, 2} : Freshen(u, k))

\* Participants come back until they are done, do not go on building without
\* looking at their own registration, and maintainers do their part.
CeremonyFairness ==
    \A u \in Users :
        /\ WF_ceremonyVars(Wizard(u)) /\ SF_ceremonyVars(Repair(u))
        /\ WF_ceremonyVars(Merge(u)) /\ WF_ceremonyVars(SetLayout(u))

FairCeremony == CeremonySpec /\ CeremonyFairness

-----------------------------------------------------------------------------
(***************************************************************************)
(* Properties                                                              *)
(***************************************************************************)

\* Participants whose last build came to its end and began after the last change
\* of the repository have the same genesis and the waypoint of it, whichever
\* earlier builds failed, were cut off between the two files or mixed versions.
\* They use the same recovery file and the same release of the framework.
SameGenesis ==
    \A u, v \in Users :
        (stage[u] = "idle" /\ ~moved[u] /\ stage[v] = "idle" /\ ~moved[v])
            => blob[u] # Absent /\ waypoint[u] = blob[u] /\ blob[u] = blob[v]

\* The accounts in a genesis.blob, with the validators that were initialized
\* after the migration.  No slow wallet has more unlocked than it owns, or more
\* than its record says, what it was given and what has dripped; tombstoned
\* accounts have and gave nothing.  Coins are minted once for each balance and
\* pledge of a record that has an authentication key, and no others; all of
\* them are in the accounts and the escrow after the validators were paid from
\* it.  The audit that follows reports nothing but those validators and, on the
\* chain for tests, slow wallets.
MigrationFaithful ==
    \A u \in Users : blob[u] # Absent =>
        LET g == blob[u][1]
        IN  Faithful(g.records, g.owners, testing, Chain(g.records, g.owners, testing))

\* The ceremony ends with all participants holding one genesis, in which each
\* of them has the account of the key files at home, and the waypoint that
\* belongs to it.
CeremonyEnds ==
    testnet \/ <>[](\A u \in Users :
                       /\ \A v \in Users : blob[u] # Absent /\ blob[u] = blob[v]
                       /\ home[u].identity \in ToSet(blob[u][1].owners)
                       /\ waypoint[u] = blob[u])
=============================================================================
