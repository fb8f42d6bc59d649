------------------------------- MODULE Migration -------------------------------
(***************************************************************************)
(* What the genesis tool makes of the accounts of a legacy chain: a list   *)
(* of recovery records, repaired when the file is read, and migrated one   *)
(* after the other into a new chain, which then gets its validators.       *)
(*                                                                         *)
(* A record is [account, role, auth, balance, slow, comm, receipts,        *)
(* deposits, pledge]; a number of a record is a sequence of at most one    *)
(* element, for the Option that it is in the code, and receipts is the set *)
(* of destinations.                                                        *)
(***************************************************************************)
EXTENDS Integers, SequencesExt

CONSTANTS
    BootstrapAmount,  \* coins that a genesis validator is given, 10^9
    GenesisDrip,      \* coins that are unlocked for each validator, 10^8
    FixedOne          \* the number one of FixedPoint64, 2^64

ASSUME MigrationAssumption ==
    /\ BootstrapAmount \in Nat /\ GenesisDrip \in Nat
    /\ FixedOne \in Nat \ {0}

\* An Option<u64>.
Amounts == {x \in Seq(Nat) : Len(x) <= 1}

\* The number, zero if there is none.
Amount(x) == IF x = <<>> THEN 0 ELSE x[1]

\* A recovery record of a chain whose accounts are A.
Record(A) ==
    [account : A, role : {"user", "system", "drop"}, auth : BOOLEAN,
     balance : Amounts, slow : Amounts, comm : BOOLEAN, receipts : SUBSET A,
     deposits : Amounts, pledge : Amounts]

-----------------------------------------------------------------------------
(***************************************************************************)
(* parse_json.rs                                                           *)
(***************************************************************************)

\* Faulty variant: the records are used as they are.
FixAsIs(r) == r

\* fix_slow_wallet: no more unlocked than the account has.
FixSlowWallet(r) ==
    IF r.balance # <<>> /\ r.slow # <<>> /\ r.slow[1] > r.balance[1]
    THEN [r EXCEPT !.slow = r.balance] ELSE r

\* recovery_file_parse
Parse(list) == [i \in DOMAIN list |-> FixSlowWallet(list[i])]

\* drop_accounts: a tombstone in the place of a listed account.
Drop(r) ==
    [account |-> r.account, role |-> "drop", auth |-> TRUE, balance |-> <<>>,
     slow |-> <<>>, comm |-> FALSE, receipts |-> {}, deposits |-> <<>>,
     pledge |-> <<>>]

\* What a recovery file holds: one record of an account, and of a dropped one
\* nothing but its tombstone.
WellFormed(list, A) ==
    /\ list \in Seq(Record(A))
    /\ \A i, j \in DOMAIN list : list[i].account = list[j].account => i = j
    /\ \A i \in DOMAIN list : list[i].role = "drop" => list[i] = Drop(list[i])

-----------------------------------------------------------------------------
(***************************************************************************)
(* genesis_functions.rs, with the Move functions that it executes          *)
(***************************************************************************)

NoChain == [balance |-> <<>>, slow |-> <<>>, comm |-> {},
            receipts |-> <<>>, deposits |-> <<>>, escrow |-> <<>>, minted |-> 0,
            tomb |-> {}]

With(f, a, x) == [b \in DOMAIN f \cup {a} |-> IF b = a THEN x ELSE f[b]]

\* genesis_migrate_one_user: migrate_legacy_user creates the account and mints
\* the balance.  An error is logged, and the next step goes on.
User(c, r) ==
    IF ~r.auth \/ r.balance = <<>> THEN c
    ELSE [c EXCEPT !.balance = With(@, r.account, r.balance[1]),
                   !.minted = @ + r.balance[1]]

\* genesis_migrate_slow_wallet: set_slow_wallet_state.
SlowWallet(c, r) ==
    IF ~r.auth \/ r.balance = <<>> \/ r.slow = <<>> THEN c
    ELSE [c EXCEPT !.slow = With(@, r.account, r.slow[1])]

\* genesis_migrate_community_wallet: into the registry of Donor Voice accounts.
CommunityWallet(c, r) ==
    IF r.comm THEN [c EXCEPT !.comm = @ \cup {r.account}] ELSE c

\* genesis_migrate_receipts
Receipts(c, r) ==
    IF ~r.auth \/ r.balance = <<>> \/ r.receipts = {} THEN c
    ELSE [c EXCEPT !.receipts = With(@, r.account, r.receipts)]

\* genesis_migrate_infra_escrow: fork_escrow_init mints what is pledged, into
\* the pledge of the account.
InfraEscrow(c, r) ==
    IF ~r.auth \/ r.pledge = <<>> THEN c
    ELSE [c EXCEPT !.escrow = With(@, r.account, r.pledge[1]),
                   !.minted = @ + r.pledge[1]]

\* genesis_migrate_all_users, for one record.
MigrateUser(c, r) ==
    IF r.role = "drop" THEN [c EXCEPT !.tomb = @ \cup {r.account}]
    ELSE InfraEscrow(Receipts(CommunityWallet(SlowWallet(User(c, r), r), r), r), r)

\* prepare_cw_and_receipts: the donors are those with a receipt, whatever has
\* become of their accounts.
Depositors(list, a) ==
    {list[i].account : i \in {j \in DOMAIN list : a \in list[j].receipts}}

\* genesis_migrate_cumu_deposits
CumuDeposits(c, list) ==
    LET wallets == {i \in DOMAIN list : list[i].deposits # <<>>}
    IN  [c EXCEPT !.deposits =
            [a \in {list[i].account : i \in wallets} |-> Depositors(list, a)]]

\* encode_genesis_change_set: all users, then the deposits of the wallets.
Migrated(list) ==
    LET chain[k \in 0 .. Len(list)] ==
            IF k = 0 THEN NoChain ELSE MigrateUser(chain[k - 1], list[k])
    IN  CumuDeposits(chain[Len(list)], list)

-----------------------------------------------------------------------------
(***************************************************************************)
(* genesis.move, infra_escrow.move: the validators, after the accounts     *)
(***************************************************************************)

\* register_one_genesis_validator creates the account unless it was migrated.
Register(c, v) ==
    IF v \in DOMAIN c.balance THEN c ELSE [c EXCEPT !.balance = With(@, v, 0)]

\* withdraw_pct_from_one_pledge_account: of a pledge p, when the pledges have
\* this total.
Share(p, total) ==
    LET pct == (BootstrapAmount * FixedOne) \div total
        share == (p * pct) \div FixedOne
    IN  IF share \in 0 .. p THEN share ELSE 0

\* genesis_coin_validator: from all pledges, if they are more than that.  What
\* is deposited for a slow wallet is unlocked.  (That no pledge pays anything,
\* which the code asserts against, takes about 10^9 pledges.)
CoinValidator(c, v) ==
    LET total == SumFunction(c.escrow)
        shares == [a \in DOMAIN c.escrow |-> Share(c.escrow[a], total)]
        got == SumFunction(shares)
    IN  IF total <= BootstrapAmount THEN c
        ELSE [c EXCEPT !.escrow = [a \in DOMAIN c.escrow |-> c.escrow[a] - shares[a]],
                       !.balance = [c.balance EXCEPT ![v] = @ + got],
                       !.slow = IF v \in DOMAIN c.slow
                                THEN [c.slow EXCEPT ![v] = @ + got] ELSE c.slow]

\* slow_wallet_epoch_drip, for every slow wallet.
Drip(c) ==
    [c EXCEPT !.slow = [a \in DOMAIN c.slow |->
        IF c.slow[a] + GenesisDrip > c.balance[a] THEN c.balance[a]
        ELSE c.slow[a] + GenesisDrip]]

\* create_initialize_validators_with_commission, for one validator.  There is
\* no drip on mainnet, and on other chains only slow wallets that are authorized
\* in v8 get one: at this time they are on the chain for tests alone, since all
\* accounts are onboarded at time one (activity.move).
InitializeValidator(c, v, testing) ==
    LET d == CoinValidator(Register(c, v), v) IN IF testing THEN Drip(d) ELSE d

\* create_initialize_validators takes the validators from the end of the list.
Initialized(c, vals, testing) ==
    LET chain[k \in 0 .. Len(vals)] ==
            IF k = 0 THEN c
            ELSE InitializeValidator(chain[k - 1], vals[Len(vals) + 1 - k], testing)
    IN  chain[Len(vals)]

\* A dropped account is not created again: genesis aborts.
Creatable(list, vals) ==
    \A i \in DOMAIN list : list[i].role = "drop" => list[i].account \notin ToSet(vals)

\* The accounts of genesis.
Chain(list, vals, testing) == Initialized(Migrated(list), vals, testing)

-----------------------------------------------------------------------------
(***************************************************************************)
(* compare.rs                                                              *)
(***************************************************************************)

\* compare_recovery_vec_to_genesis_tx: the records that the audit reports, or
\* panics at.  System accounts are stripped, dropped ones skipped, and an
\* account that is not on the new chain is only printed.
Audit(list, c) ==
    {i \in DOMAIN list :
        LET r == list[i]
            a == r.account
        IN  /\ r.role = "user" /\ a \in DOMAIN c.balance
            /\ \/ r.balance = <<>> \/ c.balance[a] # r.balance[1]
               \/ /\ r.slow # <<>>
                  /\ \/ a \notin DOMAIN c.slow
                     \/ c.slow[a] # r.slow[1] \/ c.slow[a] > c.balance[a]}

-----------------------------------------------------------------------------
(***************************************************************************)
(* What a migration promises                                               *)
(***************************************************************************)

\* The account of a record is created on the new chain, and as a slow wallet.
Created(r) == r.role # "drop" /\ r.auth /\ r.balance # <<>>

Slowed(r) == Created(r) /\ r.slow # <<>>

\* What is minted for a record: an error is logged for one that has no key, and
\* its coins are left behind.
Coins(r) == IF r.auth THEN Amount(r.balance) + Amount(r.pledge) ELSE 0

\* What n drips unlock at most.
Dripped(n, testing) == IF testing THEN n * GenesisDrip ELSE 0

\* No coin is made or lost after those of the records with a key were minted.
SupplyKept(list, c) ==
    /\ c.minted = SumFunction([i \in DOMAIN list |-> Coins(list[i])])
    /\ c.minted = SumFunction(c.balance) + SumFunction(c.escrow)

\* A slow wallet has unlocked what its record says, what it was given on top,
\* and what has dripped.
UnlockedKept(list, vals, testing, c) ==
    \A i \in DOMAIN list : Slowed(list[i]) =>
        LET a == list[i].account
        IN  /\ c.balance[a] >= list[i].balance[1]
            /\ c.slow[a] >= list[i].slow[1]
            /\ c.slow[a] <= list[i].slow[1] + (c.balance[a] - list[i].balance[1])
                               + Dripped(Len(vals), testing)

\* A chain that was migrated from a list that was read by Parse.
Faithful(list, vals, testing, c) ==
    /\ \A a \in DOMAIN c.slow : a \in DOMAIN c.balance /\ c.slow[a] <= c.balance[a]
    /\ \A a \in DOMAIN c.deposits : c.deposits[a] \cap c.tomb = {}
    /\ DOMAIN c.balance \cap c.tomb = {}
    /\ SupplyKept(list, c)
    /\ UnlockedKept(list, vals, testing, c)
    /\ \A i \in Audit(list, c) :
            list[i].account \in ToSet(vals) \/ (testing /\ list[i].slow # <<>>)
=============================================================================
