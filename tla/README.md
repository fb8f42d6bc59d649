# A TLA+ model of the 0L framework

The 0L network runs a Move framework (`src/framework/libra-framework/sources`,
with the project's own logic in `ol_sources/`) on a Diem virtual machine, and a
set of Rust tools around it. This directory models the parts of the framework
whose correctness depends on long sequences of transactions: the coin ledger
with its slow wallets, the epoch boundary that pays, jails, auctions and seats
the validators, and the community wallets, whose payments are signed by
authorities, reviewed and vetoed by donors and made by the boundary. Of the
tools it models those that several people, or several threads, run against the
same chain, archive or repository: the service that closes epochs, the batch
payments of community wallets, the restore of a node from the epoch archive,
the rescue of a halted network and the genesis ceremony.

## How the program executes, and what that means for the model

A Move transaction runs alone and either commits or aborts without effect. The
hard behaviours are therefore not races inside a function but

* the order in which transactions of users, validators, vouchers and governance
  land between the blocks of an epoch;
* the epoch boundary, one transaction that walks through a dozen modules, each
  leaving state that a later stage, or the boundary of the next epoch, reads;
* loops over lists of accounts where one element fails (no account, not enough
  coins, missing configuration) and the rest must go on: an abort in the
  boundary stops the chain;
* integer arithmetic: unsigned subtraction aborts, `fixed_point32` truncates.

An action that cannot be taken stands for a transaction that aborts.

The tools are different. A command is a process that reads the chain, a file or
a repository, acts on what it has read for a while, and writes files at the end.
It may die at every step, its requests may be lost before or after they have
had their effect, other people run the same command on other machines at the
same time, and it is run again by somebody who does not know how far it got.
Their models therefore have one action per request, file or signature, a
`Crash`, `Die` or `WizardDies`, and the people as part of the system.

## Inventory

| Component | State | Operations | Interacts with | What makes it correct |
|---|---|---|---|---|
| slow wallets (`slow_wallet`) | `SlowWallet{unlocked, transferred}`, the list of slow wallets, `SlowSupply` | set slow, track withdraw and deposit, epoch drip, supply update | every coin movement of `ol_account`, the boundary | unlocked coins are backed, what was unlocked stays unlocked |
| coin ledger (`ol_account`, `system_coin`, `libra_coin`) | `CoinStore`, `CoinInfo.supply` | transfer, withdraw and deposit by user, capability and VM | slow wallets, fees, pledges | supply equals the coins there are |
| fees (`transaction_fee`, `fee_maker`) | collected fees, `FeeMaker`, the registry of the epoch | user fee, gas, VM fee, reset, withdraw all | safes, boundary, burn | registry agrees with the makers, attributed fees are in the account |
| burn (`burn`, `match_index`) | `BurnCounter`, preferences | burn the fees, recycle, set preference | fee makers | every burned coin is counted |
| safes (`safe`) | registry of multisigs | security fee billing | VM withdrawals | as above |
| epoch boundary (`epoch_boundary`) | `BoundaryBit`, `BoundaryStatus` | arm, trigger, the stages | everything | ends, conserves coins, once per interval |
| blocks (`block`, `reconfiguration`, `stake`) | performance counters, epoch, last reconfiguration | block prologue, reconfigure | the trigger | epochs advance |
| grading and seats (`grade`, `musical_chairs`) | `Chairs.seats_offered` | stop the music, set the seats | performance, auction | no more validators than seats |
| jail (`jail`) | jailed, lifetime, consecutive, vouchees | jail, unjail by voucher | vouches, audit | the jailed do not enter except in a failover |
| proof of fee (`proof_of_fee`, `address_utils`) | bids, `ConsensusReward`, history | bid, retract, audit, auction, price, thermostat | slow wallets, vouches, jail | quota of the unproven, price, qualified winners |
| validator set (`stake`, `validator_universe`) | the active set, configurations | failover rules, reconfigure, register, rescue | auction, musical chairs | never below the minimum |
| vouches (`vouch_lib/*`, `validator_vouch`, `ancestry`) | given and received vouches, expiry, trust scores | vouch, revoke, expire, score | audit, founders | limits, unrelated vouchers |
| pledges (`pledge_accounts`, `infra_escrow`) | pledge of each user, totals of a beneficiary | pledge, withdraw from all, vote to revoke, dissolve | boundary subsidy | totals agree with the pledges |
| donor voice (`donor_voice*`, `community_wallet`, `cumulative_deposits`, `receipts`) | pipeline of payments (scheduled, paid, veto), `Freeze`, ballots, liquidation queue, mandate, receipts | propose, sign, schedule, veto, pay or put back, freeze, liquidate, reauthorize | ledger, boundary, tallies | a payment is in one place, paid after its deadline, to slow wallets; outcomes have a quorum of donors |
| turnout tally (`vote_lib/*`) | votes, totals, enrollment, deadline | vote, close, verdict | donor voice | counted once, a verdict has support and is final |
| advances (`community_wallet_advance`) | credit, outstanding, repaid | advance, repay | donor voice | within the credit line |
| multi action (`multi_action`, `community_wallet_init`, `multisig_account`) | `Offer`, owners, threshold, pending proposals | offer, claim, cage, vote members in and out | donor voice, ancestry | threshold reachable, authorities founded or elected |
| make whole (`make_whole`) | credits, claims | create, claim, expire | ledger | claims within the budget |
| governance (`diem_governance`, `voting`) | proposals | vote, resolve, set validators, reconfigure | validator set | see "blocks" |
| transaction sender (`txs/src/submit_transaction.rs`) | a local account with its sequence number, the response | read the number, sign, submit, wait | every command that sends | never signs ahead of the chain |
| tickle service (`txs_cli_stream.rs`, `stream/*`) | a channel, two threads | poll, send, receive and submit, give up | trigger of the boundary | keeps the epochs moving |
| batch payments (`txs_cli_community.rs`) | the batch file, the picture of the ballots | read, compare, propose or vote, write | `multi_action` on chain, other authorities | pays every instruction, once |
| archive and restore (`tools/storage`) | bundle directory, database directory | list, download, load the manifests, restore epoch, state and transactions | a repository that grows | what was restored is one cut of the chain |
| rescue (`tools/rescue`) | rescue file, database, node configuration | make, check, bootstrap, configure, patch | restore, other operators | one ledger on all nodes |
| genesis ceremony (`tools/genesis`, `tools/config`) | key and registration files, fork, layout, `genesis.blob`, waypoint | make files, register, pull request, fetch, build | repository, other participants | everyone builds the same genesis |
| genesis migration (`genesis_functions.rs`, `parse_json.rs`, `compare.rs`, `supply.rs`) | recovery records, the new chain | repair, drop, migrate, audit | ledger, community wallets | balances, unlocked coins and supply carry over |
| app configuration (`types/src/core_types/app_cfg.rs`) | profiles, networks, a file | load, change, save | every command | read in full, not modelled, see the end |
| queries, wallet, testnet, release builder, compatibility | none, keys, local networks, generated code | | | not modelled, see the end |

## Modules

| Module | Models | EXTENDS |
|---|---|---|
| `Ledger` | the coins: transfers, fees, slow wallets, and the money of the boundary stage by stage | community modules |
| `Ranking` | what the two rankings of the boundary decide | - |
| `Seating` | the lists that compute them: sort, shuffle, seating loop | `Ranking` |
| `ValidatorSet` | blocks, grading, jail, seats, auction, failover, trigger, governance | `Ranking` |
| `EpochClock` | abstract: what the network promises about its epochs | - |
| `Turnout` | the adaptive threshold and the fixed-point arithmetic under it | - |
| `TurnoutTally` | one poll while the weights of its voters grow | `Turnout` |
| `DonorVoice` | payments of community wallets, vetoes, freezing, liquidation, mandate, advances | `Turnout` |
| `MultiAction` | who signs for a community wallet: offer, claim, cage, votes on members | `Turnout` |
| `TickleService` | the polling service, its channel and its account, against the clock | `EpochClock` |
| `Batch` | authorities who run a batch of payments, with the ballots on chain and the mempool | community modules |
| `Restore` | archive, download, bundle and restored database | community modules |
| `Rescue` | coordinator and operators of a rescue, who restore what cannot be rescued | `Restore` |
| `Migration` | the legacy accounts on the new chain, and the validators that it begins with, as operators | community modules |
| `Ceremony` | the participants of a genesis, who build it with `Migration` | `Migration` |
| `MC...` | the instances TLC checks | |
| `Sums` | lemmas about sums over finite sets | `TLAPS` |
| `LedgerProofs`, `SeatingProofs` | theorems | their module, `Sums` |
| `DonorVoiceProofs` | theorems about community wallets and about one poll | `DonorVoice`, `TurnoutTally`, `Sums` |
| `ValidatorSetProofs`, `TickleServiceProofs` | theorems | their module, `TLAPS` |
| `MultiActionProofs` | theorems about the authorities of a community wallet, and about the batches they pay | `MultiAction`, `Batch`, `TLAPS` |
| `RestartProofs` | theorems about bringing a network up again: the rescue, and a genesis ceremony with its migration | `Rescue`, `Ceremony`, `Sums` |

`Ledger` and `ValidatorSet` look at the same boundary from two sides. `Ledger`
leaves the choice of the compliant and of the seated validators open (any
subset); `ValidatorSet` leaves the coins open (any fees collected or none, any
unlocked balance). Each thus covers everything the other can produce. `Seating`
computes the auction as the code does and checks that the outcome is exactly the
definition in `Ranking`, which `ValidatorSet` uses in its boundary.

`EpochClock` is the abstract specification that the framework and the service
have in common. `ValidatorSet` implements it from within (`Clock`, an INSTANCE
with a refinement mapping: the trigger counts as pulled when the whole boundary
has succeeded, the age of an epoch is the VM's count of blocks since the last
reconfiguration). `TickleService` implements it from outside: there the chain is
the clock itself, and it is the client who has to be there to pull.

### Ledger

Variables name their Move resource in the module. `status` folds the resources
that decide whether an account may spend (`Activity`, founder, community wallet,
reauthorization) into one of seven values. User transactions are actions
enabled while `phase = "open"`: `Transfer`, `TransferWithCapability`, `PayFee`,
`CollectGas`, `UserSetSlow`, `MaybeMigrate`,
`SetFriendlyFounder`, `ReauthorizeWallet`, `SetSendCommunity`. The boundary is
cut into one action per turn of its loops, in the order of `epoch_boundary.move`:
billing of the safes, donor payments, reset of the fee makers, settlement,
rewards, burn, drip, entry fees, subsidy. Nothing else is enabled in between.

### ValidatorSet

`NewBlocks` is a run of blocks between two transactions of interest: the
counters it increments commute, and every block after the interval arms the
trigger again. `TriggerEpoch` is the whole boundary; its stages are operators in
the order of the code (`CompliantVals`, `SeatsToOffer`, `JailAll`,
`AuditQualification`, `CompetitiveSetSize`, `AuctionOutcomes`,
`FailoverOutcomes`, `Reconfigured`). The other actions are the transactions of
validators and vouchers (`RegisterValidator`, `UpdateBid`, `RetractBid`,
`UnjailByVoucher`, `ChangeVouch`) and of governance (`SetValidators`,
`RemoveValidators`, `BumpEpoch`). The lists of governance may name `Strangers`,
addresses without an account, which `maybe_reconfigure` drops and `set_validators`
counts among the seats. `boundaries` and `sinceEnd` are history variables.

### Seating

One action per turn of `sort_by_values`, of `shuffle_duplicates` and of the loop
of `fill_seats_and_get_price`. Indices start at zero as in the code.

### Turnout and TurnoutTally

`Turnout` has the arithmetic of a verdict: percentages in basis points, the
threshold interpolated between the low and the high turnout, each multiplication
truncated where `fixed_point32` truncates. `TurnoutTally` is one poll: `Vote`
reads the voter's weight at the moment of the vote (a gift in between may have
raised it above what was enrolled), then `save_tally` decides. A second vote of
the same voter is not counted but runs the tally again, as in the code.

### DonorVoice

`scheduled`, `paid` and `vetoed` are the lists of `TxSchedule`; `due` is the
list that `filter_scheduled_due` splits off, so the boundary is cut into
`BeginBoundary` (liquidation), `FilterDue`, `PayDue`, `RequeueDue` for each due
payment and `EndBoundary` for each wallet. `Rearrangements` leaves the order open that
`stable_partition` produces. Transactions of authorities are `ApprovePayment`,
`SchedulePayment` and `AdvancePayment`, split by whether the vote decides and by
what the payee is at that moment. Those of donors are `OpenVeto`, `PassVeto`,
`ProposeLiquidation`, `VoteLiquidation`, `ProposeReauth`, `VoteReauth`,
`CloseReauth`, `Donate` and `Repay`. `MandateExpires`, `GoInactive` and
`BecomeSlow` are what time and payees do. A governance transaction whose loop
runs past the end of its list aborts in the code and is not enabled here.

### MultiAction

Before the cage the sponsor proposes lists of distinct addresses
(`ProposeOffer`, the four steps of `update_offer`), the offered claim
(`ClaimOffer`), and `FinalizeAndCage` makes the account a multisig and cleans the
offer. After it, `Approve`, `PassAddition` and `PassRemoval` are the votes of the
authorities through `change_signer_community_multisig`, with expired proposals
cleaned up by every vote; an addition makes an offer, which `ClaimSeat` or
`ClaimLastSeat` takes. `offered` keeps the order of the list in `at`, because the
code finds the first entry of an address. `DonorVoice` takes the authorities as a
constant; `MultiAction` is about how they change.

### TickleService

The variables are those of the process (`up`, `poller`, `queue`, `listener`), of
its `LocalAccount` (`lead`, the sequence number relative to the chain's) and of
the chain (`EpochClock`, one transaction in the mempool, the answer that
`wait_for_transaction_bcs` will find). `Start` makes a new `Sender`, which reads
the committed sequence number. `Poll` and `Send` are the poller; a send into a
channel whose listener has gone panics and ends the process. `Receive`, `Submit`
and `Answered` are the listener, which leaves its loop on the first error.
`Crash`, `NoAnswer`, `Expire`, `ForeignTx` (the same account used from another
process), `OtherPull` and `OtherBump` are the faults.

### Batch

Each authority has a copy of the batch file, and a run goes through `Open` (the
sequence number), `Read` (file and ballots), `Skip` or `Sign` and `Submit` for
each instruction, `Answered` or `Refused`, and `Write`; `Check` is the dry run.
`Commit` executes the next transaction of an account: the vote of
`propose_payment_tx` with the cleaning of expired ballots. The mempool accepts a
transaction ahead of the account's number and keeps it until the number comes
or until it expires (`Overdue`). `late` has the authorities of whom a run has gone
on, ended or died while its transaction was still there.
The pending ballots are a set in which each has its number in the code's list
(`vector::remove` keeps the order, `propose_ballot` appends).
`Picture` is the map of ballots that the code keeps by recipient.

### Restore and Rescue

`Restore` numbers the folders of the archive by epoch or first version.
`Download` plans three folders from one listing, `FetchGood` and `FetchBad` fetch
them, `Begin` makes the destination, `Load` finds the manifests as
`restore_bundle.rs` does: the greatest path as a string, and then for the state the
greatest path that its pattern finds. The pattern has `*` around the digits of the
epoch and of the version, so that it also finds the folders of other epochs in whose
names both appear; the constant `Alike` says which (for epoch 5 and version 100,
`state_epoch_15_ver_1005.xxxx` is one). The three restores follow, and none of them
compares the version of the state with that of the epoch. `Rescue` adds the coordinator (`Make`,
`Check`) and the operators (`Copy`, `Bootstrap`, `Configure`,
`PatchSafetyRules`), and says when an operator restores (`Discard`, `Replace`,
`Restore`). A waypoint is the ledger itself, as its hash stands for it: versions,
rescue transactions and the state they were run on.

### Migration and Ceremony

`Migration` has one operator for each step of `genesis_migrate_all_users`,
applied record by record (a recursive function of the number of records), and then
one for each step of `create_initialize_validators`: `Register` creates the account of
a genesis validator that was not migrated, `CoinValidator` pays it 10^9 from the
migrated pledges if they hold more, cut at two places by fixed point numbers
(`Share`), and `Drip` unlocks coins of the slow wallets. The drip is called on all
chains but mainnet, but finds no wallet that is authorized in v8 except on the chain
for tests (`testing`): genesis comes before all accounts are onboarded, and only
`is_testnet` makes an exception (`activity.move:174`, `reauthorization.move:36`).
A validator whose account was dropped has a tombstone, and genesis aborts
(`Creatable`). `Audit` is that of `compare.rs`. `WellFormed` is what is assumed of a recovery file: every
record has an account, no account has two, and a record with the role of a dropped
account is the tombstone that `drop_accounts` writes. In `Ceremony` the files of a participant carry only which mnemonic they come from,
since that is what a mixture of old and new files is about. `Freshen`,
`SetOperator` and `SetOwner` write the files at home, `PutOperator`, `PutOwner`
and `MakePullRequest` register, `Merge` and `SetLayout` are the maintainers,
`EveryoneReady`, `FetchOwner`, `FetchOperator`, `WriteBlob` and `WriteWaypoint` build.
`TestGenesis` builds from any of the recovery files of a family, without a
repository. A genesis is the registrations and the records that it is made of; the
framework that is published with it (`genesis_builder.rs:228`) and the recovery file
are taken to be the same for all participants.

## Runs

| Run | Shows |
|---|---|
| `ledger` | with a validator, a founder, a community wallet that is also a safe and an address without account, three transactions and two boundaries: unlocked coins are backed (`UnlockedBacked`), no coin is lost or made (`SupplyConserved`), the fee makers agree with the registry and the account (`FeeMakersAgree`); a boundary that has begun ends, also when the rewards exceed the fees (`BoundaryEnds`) |
| `validator_set` | four validators and a stranger, two boundaries and a transaction between them: viable set, no more validators than seats (`SeatsCoverSet`), newcomers and failed validators within their third, jailed |
| `epoch_trigger` | the boundary, with all it does, implements `EpochClock` with its fairness (`ImplementsClock`): it is pulled at most once per interval and no epoch stays open for ever, whatever validators and governance do |
| `algorithms` | four bidders, every bid, proven set and number of seats: each turn of the sort leaves the top of the list in place, and the loops seat exactly the sets that `Ranking` allows; and four voters with weights that grow: the totals are what voters had when they voted, a pass has support and turnout |
| `donor_pipeline` | up to three proposals of two payments, vetoes, advances, repayments and a payee that turns slow: each payment is in one place, paid after its deadline, signed while the proposal was valid; a frozen wallet has a cause; loans stay within the credit line and the books balance |
| `donor_governance` | a ballot to liquidate and one to reauthorize under a mandate that lapses: votes are backed by receipts, outcomes have a quorum and the mandate comes from donors |
| `donor_settlement` | two payments of which the wallet can make one, a gift, a veto: a scheduled payment is made or vetoed in the end, unless it is on the schedule again and again with too few coins for it (`ScheduledIsSettled`); one that is lost when it is put back would be neither |
| `liquidation_queue` | a violation: two wallets are voted for liquidation in the same epoch, and no boundary liquidates them (`QueueIsLiquidated`) |
| `multi_action` | five candidates, three proposals: threshold reachable, authorities elected |
| `tickle` | one service is enough: with three faults of any kind it implements `EpochClock` with its fairness (`ServesClock`), and never signs ahead of the chain while its listener lives (`NeverAhead`) |
| `batch` | three authorities with one payment, or two with two: every instruction is approved (`BatchCompletes`); one that is the only one for its payee is approved a second time only by other authorities, or by those who left a transaction behind (`PaidOnce`), with a crash, a lost or late transaction or an expired ballot anywhere |
| `restart` | two nodes of different heights, two archived epochs, two rescue files of two kinds: a restored database is one cut of the chain but for mistaken names (`RestoredIsCut`), rescue transactions are committed only as announced (`OnlyAnnounced`), and both nodes come to the announced ledger and are configured for it (`AllRecover`); two participants with two mnemonics each: those who have finished building have the same genesis and its waypoint (`SameGenesis`), the ceremony ends with everyone in it (`CeremonyEnds`); all recovery files of a family are migrated faithfully (`MigrationFaithful`) |

`algorithms` and `restart` each check two specifications that share no variable:
`MCSpec` is a behaviour of one while the other is at rest, so that each is explored in
full and nothing is said of the two together.

### Bounds

The constants `MaxTx`, `MaxEpoch`, `MaxBlocks`, `MaxFailed`, `MaxSize`, `MaxId`,
`MaxGifts`, `MaxBallots`, `MaxWeight`, `MaxProposals`, `MaxQueue`, `MaxFaults`, `MaxMishaps`,
`MaxMakes` and `LastEpoch` are bounds of the runs and nothing else; the proofs
hold for every value of them.
Two epochs are needed for a property that relates a boundary to the next
(entry fees that count for the epoch that opens, seats of the last epoch, an
armed trigger). Three transactions are enough to give an account a fee, a
transfer and a change of status in one epoch. In `ledger` the reward is 2, so
that the fees of an epoch may or may not pay it. The thresholds 4 and 9 of the
validator set are scaled to 2 and 3 so that sets below, between and above them
all occur among four validators; the proofs are about any thresholds with
minimum not above healthy. Four bidders give a tie across the
last seat and one across the quota at the same time. `Scale` is a smaller power
of two than 2^32, because TLC's integers have 32 bits; both truncations remain.

In `DonorVoice` two authorities must both sign, the smallest number with an order
of signatures. Three payments are what it takes to veto one in the middle of
the schedule and to freeze a wallet; durations are scaled to one or two
epochs so that a deadline, a review and an expiry can fall in any order. The
gifts (1500 and 100) are such that one donor has a quorum alone and the other
has not, that one payment (900) cannot be made twice and that the other (5) is
within the credit line and may be an advance. What is
not the subject of a run is kept small by its constants (`Lapsing` says whether
mandates may lapse). In `donor_settlement` the payments are proposed by one authority,
and boundaries go on after the last epoch that is counted, so that a bound is never
the reason why something does not happen. In `MultiAction` the minimum of two of three is the code's;
five candidates give a wallet of four from which one is removed while a fifth is
elected, two of them are related, and offers live for one epoch so that they can
expire. The run uses the symmetry of the related and of the unrelated
candidates; the runs with liveness use none.

The interval of `epoch_trigger` and `tickle` is two runs of blocks, so that an
armed trigger, a bumped epoch of age one and a full interval are different
things. Three faults let a listener die, the process be restarted into a stale
mempool, and the trigger be pulled by somebody else, in one behaviour; a queue of
two holds a call and the stale one behind it. In `batch` one instruction with
three authorities and a threshold of two has a vote too many, two instructions
are the fewest with a gap in the sequence numbers; a single fault was enough for
every counterexample met on the way to these properties. The epochs
archived in `restart` are 9 and 10, since the code compares their names as strings,
and end at versions 2 and 92, since the pattern for the state of epoch 9 then finds
that of epoch 10 as well. When the transactions of epoch 10 are still to be published
a restore takes the state of epoch 10 for epoch 9; there one rescue file is made, and
two from the archive that has them. One of the nodes has stopped at the end of the
epoch and one above it, so that one can be rescued as it is and the other has to
restore. `BootstrapAmount` is 2, which two pledges of 2 and 3 cover twice and one does
not, and `FixedOne` 2^10, for which the shares are cut. A recovery file of the family
has an account with every combination of role, key,
balance, unlocked amount (also above the balance), receipt and pledge next to a
community wallet and a donor who may have been dropped; one more drops a participant,
and no genesis comes of it.

### Fairness

`Ledger`: weak fairness of the boundary's steps, because the boundary is one
transaction that the VM executes to its end; none for users. `ValidatorSet`:
weak fairness of blocks (consensus makes progress) and of the trigger (any user
may pull it, and the tools poll `can_trigger`); none for the other
transactions. `Seating`: weak fairness of the loop. `DonorVoice`: weak fairness
of the steps of the boundary, which comes with every epoch and runs to its end;
none for donors and authorities.

`TickleService`: both threads run while the process is up, the chain makes blocks
and commits what is in its mempool, and the operator starts a process that has
ended (it ends with a panic, not silently). Nobody else has to pull. `Batch`:
authorities run the command again until they are done, as its help asks them to,
and the chain executes a transaction or lets it expire. `Rescue`: commands
run to their end unless a fault ends them, backups are published, operators keep
going, and take the latest file sooner or later (strong fairness, because they
do other things in between). `Ceremony`: participants come back, repair a
registration that does not match their files sooner or later (strong
fairness: one who only ever builds again would not), and maintainers merge and
keep the layout. All faults are bounded, as fairness alone cannot outlast a
network that fails for ever.

## Proofs

`LedgerProofs`, for every set of accounts, amounts, fees and bounds:

* `LedgerTypeOK`: every variable keeps its type; no amount becomes negative.
  The inductive invariant adds `RegistryReset`: the registry is empty from its
  reset until the entry fees. Without it the recycled shares in `BurnFees`
  could not be bounded.
* `SlowWalletsBacked`: `UnlockedBacked`, inductive with the types. A deposit
  raises both sides by the same, a withdrawal lowers the unlocked amount at
  least to the new balance or to zero, the drip is capped.
* `EveryBurnTracked`: from the types and `RegistryReset`.
* `LifetimeUnlockedNeverShrinks`: needs `UnlockedBacked` for the drip, whose cap
  could otherwise lower the unlocked amount.

* `SupplyIsConserved`, `FeeMakersAlwaysAgree`: inductive with the types. Each
  action moves the same amount out of one term of a sum and into another, so each
  case is one lemma of `Sums` about the terms that change.

`Sums` has the lemmas about `SumFunctionOnSet` that these proofs and those of
`DonorVoice` need: the sum over the empty set, with an element added, removed or
changed, of equal functions, compared term by term. The sum is a fold that takes
out one element after the other, chosen by the fold; that the order does not
matter is proved by an induction which the provers can do, a smallest subset for
which the claim fails (`SmallestSubset`, from the library's well-foundedness of
strict inclusion), and taking an element out of it.

`ValidatorSetProofs`, for every finite set of validators and every threshold:

* `ValidatorSetType`: types, and that every seated validator is registered.
* `SeatsCoverTheSet`: `SeatsCoverSet`, inductive with the types. A boundary makes the
  seats the size of the new set, a list of governance counts at least those who are
  seated from it, and a removal leaves the seats.
* `BoundaryLeavesViableSet`, `BoundaryGrowsByOne`, `JailedSeatedOnlyInFailover`,
  `NewcomersComeFromAuction`: properties of one boundary step, from the types
  and `SeatsCoverSet`. (With four validators `SeatsGrowByOne` follows from the
  quota, so that no run checks it; the theorem is for sets of any size.) The growth
  is measured against the seats, not against the set: after `set_validators` with
  unknown addresses, or `remove_validators`, the next boundary may fill all the seats
  that musical chairs still counts.
  `BoundaryWitness` extracts from `TriggerEpoch` what the
  step did, and lemmas about the seats offered, the size of the auction and the
  three shapes of the failover (winners, old set, filled up to the target)
  combine to the bounds.
* `BoundariesAnIntervalApart`: the strengthening `IntervalInv` relates the
  blocks since the last boundary to the VM's count since the last
  reconfiguration and to the armed trigger.
* `ValidatorSetImplementsClock`: `Spec => Clock!ClockSpec`. Every step of the
  detailed specification is a block, a pull or a bump of the clock or leaves it
  alone; `IntervalInv` is what makes a boundary a pull.

`DonorVoiceProofs`, for any wallets, donors, authorities, payments and durations:

* `DonorVoiceType`: types, with the lists of the pipeline.
* `PayeesStaySlow`, `ReviewPeriodKept`: from `DueInv`, which says that the due
  list holds only payments to slow wallets whose deadline has come, and is empty
  between boundaries; lemmas about the partition and the cutting of lists carry
  it through `FilterDue`.
* `NoPaymentTwice`: `PlaceInv` adds that every identifier in a pipeline was
  handed out (below the next one) and that all lists are apart.
* `LoansWithinCredit`: `LoanInv` bounds what is outstanding by the credit and
  what was repaid.
* `BooksBalance`: `BooksInv`, the books of each wallet and that cumulative
  deposits are what was given. A payment is in one place (`PlaceInv`), so that paying it
  adds a term to the sum of what was paid.
* `VotesAreGifts`: `BallotInv` adds that ballots have numbers of their own and
  that one at most of those to liquidate, and of those to reauthorize, is pending,
  so that a vote replaces the ballot it is for and no other.
* `OutcomesHaveQuorum`, `FreezesHaveCause`: `OutcomeInv`; a ballot once decided stays
  as it is (`DecidedStays`), and the turnout of one that passed is what
  `PassedHasTurnout` derives from the truncated participation.
* `MandateIsVoted`, `ScheduledIsSigned`: properties of a step, from the types and
  the ballots.
* `VotersCountOnce`, `PassedPollsHaveSupport`: of one poll of `TurnoutTally`, for
  any finite set of voters with positive weights and any minimum turnout up to 12.5%
  (1250 and 500 in the code). The arithmetic is where the second could be wrong: a
  poll passes when the approval, cut to an integer, reaches a threshold that falls
  with the turnout, cut as well. `FixedMulBounds` says that the cuts only lower a
  product. `ThresholdLine` bounds the falling line from below by the uncut one; as the
  cut at its beginning lowers the line by a fraction (10816 for 10816.67), this bound is
  not enough at a turnout of exactly 12.5%, which is a case of its own. `ThresholdArea`
  then shows that turnout times threshold is never below the minimum turnout: (x - 1251)(8750 - x) is not negative between
  the ends of the line. For a required turnout above 12.5% the property would be
  false, as the line falls faster than the turnout counts; the assumption says so.

`MultiActionProofs`, for any candidates, families, thresholds and proposals:

* `MultiActionType`: inductive as it stands.
* `WalletStaysReachable`: `ThresholdInv` adds that a threshold waiting for
  claims is not below the minimum, which `ClaimLastSeat` needs.
* `OnlyElectedAuthorities`: `ElectedInv` adds that nobody votes before the cage;
  after it, a vote only adds to what was decided.
* `PaymentsApprovedOnce`: `PaidOnce`, for any authorities, threshold, batch files and
  number of faults. A wallet begins with a threshold of two thirds (`multisig_thresh`);
  a later vote may set less (`community_wallet_init.move:208` asks for two), and then
  two disjoint groups may each approve. What the code does see to is that nobody's vote
  counts twice, except for an authority who has left a transaction behind (`late`): the
  first two approvals have no other voter in common. With a majority as threshold any
  two approvals do have one, so that without strays there is no second. `BatchInv` says so
  of every run at every point: for an instruction that is the only one for its payee,
  either its authority's vote would be the first that counts (`Clear`), or the run
  will not cast one (`Settled`), as it is past the instruction or has a picture that
  shows its vote. What is hard is that pictures are stale: a ballot seen pending may
  since have been approved, expired or been opened anew by others. The picture then
  still names the voter, and a vote of the run's own is the only thing that could
  make `Clear` false; while the run waits, its transaction is the only one in its
  mempool. This is what fails for an authority once one is left behind.

`TickleServiceProofs`, for any interval, epochs, queue and number of faults:

* `ClockPullsApart`: of the abstract clock itself, two pulls are an interval
  apart. `ClockInv` says that the trigger is armed only when an interval has
  passed since the last pull.
* `TickleImplementsClock`, `TicklePullsApart`: the service implements the clock
  without its fairness, and inherits what was proved of it.
* `TickleNeverAhead`: `NeverAhead`. `LeadInv` bounds the lead by the state of the
  listener and by the answer it waits for: one while a transaction is signed or waited
  for, none when it has succeeded or the listener is ready for another call.

`SeatingProofs`, for any validators, bids, proven set and seats:

* `PrefixesAreRanked`, `SeatsAreWon`. `SeatingInv` follows the phases: the list
  holds every bidder, with its bid (`Listed`); during the sort the last i
  are in place, and the pass under way carries the greatest of those before along
  (`Sorting`); from then on the list is in order of the bids, and a shuffle permutes
  equal bids only (`Ranked`); while seats are filled, a bidder who was visited is seated,
  or is unproven and the quota has gone to others who offer as much (`Seated`).
  That a sorted list's prefix is a best set needs only that a bidder outside it does not bid more than one inside.

`RestartProofs`, for any number of nodes, archives, rescue files, participants,
recovery files and failures:

* `RestoredIsOneCut`: `Progress` relates how far a restore has come to what is
  in its database, and says that the manifests it has loaded belong to one epoch,
  whatever else is in the bundle by then, but for a state whose name was mistaken
  (`Mistaken`): another epoch's, found by the pattern, with none of the right epoch or
  one that comes before it in the order of the paths. For an archive in which no
  name is like another's (`Alike` empty) this is plain: one cut.
* `RescuesAreAnnounced`, `ConfigurationsAreAnnounced`: `Announced` adds that a
  database on which a bootstrap committed holds an announced ledger until it is
  configured, which is what a crash in between and the patch by hand rely on.
* `BuildsAgree`: `SameGenesis` for every ceremony. `CeremonyInv` names the genesis
  of the repository as it is now (`Canon`): a build that has not been overtaken by a
  merge or a new layout has fetched a prefix of its registrations (`Fetching`), and
  once it has written has that genesis. Since every such build is compared with the
  same thing, no two participants need to be compared with each other.
* `MigrationsAreFaithful`: `MigrationFaithful` for every well-formed recovery file. The
  loop over the records is a recursive function; that it exists (`RunExists`), and that
  its value after k records has the invariant `After`, is shown by a least number of
  records for which it fails (`LeastNumber`). `After` says which accounts the chain has,
  with what balance, unlocked amount and tombstone (`Holds`), and that the coins minted
  are the sum over those records (`Totals`); a record adds its terms to the sum because
  its account is new. `ParsedIsRepaired` is where the repair of the slow wallets comes
  in: without it the bound on unlocked coins does not hold. `MigratedIsSound` is the
  state in which the validators are set up. Their loop is another recursive function,
  with `Sound` (unlocked coins within balances, minted coins in balances and pledges) and
  `Grown` (what an account may have gained since) as its invariant: `ShareWithin` says
  that no pledge pays more than it has, so a payment moves coins from pledges to a
  balance (`CoinValidatorKeeps`), and `DripKeeps` that a drip stays within the balance.
  Records without a key are left out of the supply, as the code leaves them behind; and
  the audit, which compares with the records, does report validators that were paid and
  wallets that have dripped. That a `genesis.blob` is made of these records and
  validators is `BlobInv`.

Assumptions are those of the modules, `LedgerAssumption`, `GenesisSupply`,
`ValidatorSetAssumption`, `SeatingAssumption`, `DonorVoiceAssumption`,
`MultiActionAssumption`, `EpochClockAssumption`, `TickleAssumption`,
`BatchAssumption`, `RestoreAssumption`, `RescueAssumption`, `MigrationAssumption`,
`CeremonyAssumption` and `PollAssumption`; TLC evaluates them in the runs. Accounts, donors, authorities and
voters are assumed to be finite sets, since sums over them are meant to exist;
nothing is assumed about the amounts but that they are natural numbers.
`CeremonyAssumption` asks that recovery files are `WellFormed`; of the ceremony's
theorems only `MigrationsAreFaithful` uses it.

Some theorems state what no run checks, since it is either a type or follows on
small instances from another property: the type invariants, `BurnsTracked` and
`LifetimeUnlockedGrows` of `Ledger`, `SeatsGrowByOne` of `ValidatorSet`,
`ConfiguredIsAnnounced` of `RestartProofs`.

Only model-checked:

* Liveness, and with it the fairness of the two refinements, which the prover does
  not reach: `BoundaryEnds`, `ImplementsClock` and `ServesClock` (their safety is
  proved), `ScheduledIsSettled`, `BatchCompletes`, `AllRecover`,
  `CeremonyEnds`.

All invariants that the runs check are proved. Two of them became provable only when
the models were written differently. The attempt at `PaidOnce` showed that it was too
strong as it had been stated: with three authorities and two payments, or two crashes,
a transaction that outlives its run pays twice (hence `late`), and of two instructions
for one payee a run sees one ballot only (hence `Single`). The recovery records were
folded with `FoldLeft`; the recursive function that took its place computes the same,
and is one that can be reasoned about although the library's induction theorems cannot
be instantiated.

## Where comments and code disagree

The models follow the code. The disagreements met on the way can be read off the
definitions of the models. One has a run of its own, `liquidation_queue`: there the
program does not do what its comment promises, and stops. In the framework:

* `epoch_boundary.move:340`: the fee makers are reset before the burn that loops
  over them, so the loop has nothing to visit and everything is burned; it should
  go "according to fee maker preferences" (`epoch_boundary.move:417`).
* `diem_governance.move:495`: `set_validators` counts the whole list as seats, while
  `maybe_reconfigure` drops the addresses without an account (`stake.move:616`), and
  `remove_validators` does not tell musical chairs at all; the seats, which are to say
  how the set size changed (`diem_governance.move:493`), may be more than the set until
  the next boundary, which offers them. See `SeatsCoverSet`.
* `stake.move:875`: the failover loop counts validators that are already proposed,
  and fills up to less than the target that `stake.move:804` describes; see
  `FailoverOutcomes`.
* `donor_voice_txs.move:539`: the loop of `reject` runs to the old length of the
  list and aborts unless the payment is the last of the schedule, so that no
  other can be vetoed.
* `donor_voice_txs.move:669`: `vm_liquidate`, "to liquidate all Donor Voice
  wallets in the queue" (`donor_voice_txs.move:660`), aborts on two wallets, and
  with it every boundary; nothing shortens the stored queue (`QueueIsLiquidated`).
* `proof_of_fee.move:509`: an expiry of zero, which "never expires"
  (`proof_of_fee.move:749`), is expired for the audit; see `AuditQualification`.
* `proof_of_fee.move:515`: the audit asks for the entry fee of the closing epoch,
  not for "funds to cover bid" (`proof_of_fee.move:380`).
* `proof_of_fee.move:414`: the quota is a third of the seats to fill; when few
  proven validators bid, the unproven are more than a third of the set, against
  `proof_of_fee.move:345`.
* `jail.move:123`: nothing but a test resets the consecutive failures, which
  "resets as soon as they rejoin" (`jail.move:80`); see `JailAll`.
* `donor_voice_txs.move:1053`: `propose_veto_tx` aborts when a veto is open, so a
  second donor cannot join it; see `MayProposeVeto`.
* `veto_handler` returns before it extends the deadline when the veto has not
  passed: a veto does not delay a payment; see `OpenVeto`.
* No payment reads `Freeze.is_frozen`: a frozen wallet goes on paying.
* `reauthorize_now` renews the mandate but not the activity of an inactive
  wallet, which its caged account cannot renew; see `GoInactive`.
* `community_wallet_advance.move:165`: a loan cannot be repaid to the last coin;
  see `Repay`.
* `multi_action.move:697`: the vote of an authority that has been removed still
  counts; see `Decide`.
* `multi_action.move:529`: the first offer of an address is the one looked at, so
  an expired one blocks the seat of a member elected again; see `ClaimSeat`.
* `community_wallet_init.move:211`: a candidate is compared with the authorities,
  not with the open offers: two related candidates can both be elected.

In the tools:

* `txs_cli_stream.rs:73`: the listener breaks out of its loop on the first
  error, and nothing is printed about its end. With a polling delay shorter than
  a transaction the poller queues a second call of the same epoch; it aborts
  and ends the listener. `ServesClock` holds because the poller's next send
  panics and the operator restarts the process.
* `txs_cli_community.rs:321`: the ballots are kept by recipient, so that of two
  instructions with the same payee a run sees one ballot, and votes again on the
  other; see `Picture`. The instances have one instruction per payee.
* A refused or lost transaction uses up a sequence number of the run. The next
  one is parked in the mempool and executed when a later run fills the gap: the
  authority's vote then comes twice, and may open a second ballot for a payment
  already approved. The same happens without a gap, when the wait for a
  transaction ends, or its process dies, before the transaction does: the stray
  vote opens a ballot that the next run of another authority completes. `PaidOnce`
  is stated up to that (`late`). Two disjoint groups of signers could approve twice with
  a threshold below a majority; it says that only they could. It is stated of instructions
  that are the only one for their payee (`Single`).
* `txs_cli_community.rs:387`: voters of a ballot that has expired stay in the
  file, and their authority skips the instruction ever after; `BatchCompletes`
  is stated up to that (`lapsed`). For the same reason an identical payment in a
  later month, from the same file, is skipped.
* `txs_cli_community.rs:182`: the option to drop an authority is passed on as
  `is_add_operation`, and is true when it is absent.
* `restore_bundle.rs:71`: the greatest epoch is chosen by the path as a string.
  A second download into the same directory may leave two epochs in it; the other
  manifests follow the choice, so the result is a cut, if not the latest one.
* `restore_bundle.rs:131`: the pattern for the state folder finds digits anywhere in a
  name, so that the state of another epoch in the same bundle may be taken; nothing
  later compares its version. See `Globbed` and `Mistaken`.
* `restore.rs:86`: a restore that fails leaves the destination in place, and the
  next one is refused until it is deleted.
* `download_bundle.rs:286`: the status of an answer is not looked at, and a
  truncated listing is only logged.
* `cli_bootstrapper.rs:145`: after a crash between the commit and the update of
  the configuration the bootstrap cannot be repeated. The command that patches the
  safety rules repairs it, and verifies nothing; see `PatchSafetyRules`.
* `genesis_builder.rs:167`: the list of differences found by the audit is not
  looked at, and the tool prints that the balances are as expected; an account that
  is missing is only printed. Both files of the genesis are written before the audit.
* `wizard.rs:105`: an error of the dialogue is printed and the wizard registers
  what files there are. `get_config` does not compare the address in `owner.yaml`
  with the directory it is in.

## Not modelled

* `vouch_lib` beyond its outcome, the thermostat of `proof_of_fee`, `make_whole`,
  the proposals of `diem_governance`: the plan below.
* The boundary that the VM runs by itself on test networks (`block.move:243`): the
  models are of the production path, where a user pulls the trigger.
* The pledges of single users after genesis: only the migration creates them (they are
  in `Migration`), and `Ledger` has the escrow they amount to.
* `multisig_account`'s own transactions, and scripts that call `multi_action`
  around the entry functions.
* Objects, fungible assets, aggregators, `code`, `voting`:
  inherited from upstream, with little or no change.
* The founder migration that any transaction may trigger is in `Ledger`, and what
  genesis does to accounts in `Migration`; the rest of the Move code of genesis
  initializes resources of the framework, and bids and vouches of the first validators.
* The one-step rescue of the twin tool; what a rescue transaction writes.
* Most Rust lines. More than half of them are generated: the encoders of
  transaction payloads under `compatibility/src/sdk` and
  `framework/cached-packages`, which have no state and no decisions. A large part of
  the rest are commands that build the payload of one transaction from their
  arguments or print a view, key derivation and mnemonics, readers of archives of
  older chains, a wrapper of the Move compiler, and harnesses of smoke tests. None
  of it keeps state between two steps, which is what these models are about.
* The configuration file (`app_cfg.rs`, `profiles.rs`) is loaded, changed and saved
  by one command at a time. It was read and not modelled; what was noticed: the
  file is truncated and then written, and two commands that save it lose a change
  (`app_cfg.rs:147`); the refreshed network profile is saved from a copy that was
  not refreshed (`app_cfg.rs:294`); the default profile is compared with addresses
  printed in another format, so that the first one is used (`app_cfg.rs:166`); with a
  single profile any name removes it; of the good upstream nodes the one with the
  lowest version is preferred.
* `move-stdlib`, `vendor-stdlib`: libraries.

## Plan

1. `Thermostat`: the reward adjustment over the history of bids, as a pure
   algorithm with its fixed points.
2. `Vouches`: limits, expiry and revocation, with `true_friends` as the
   refinement of `ChangeVouch`, and the cached trust score.
3. `Governance`: proposals and votes of `diem_governance`, and the lifetime of an
   approved execution.
4. `MultiAction` under `DonorVoice`: authorities that change while payments are
   being signed; `Batch` on top of it. `MakeWhole`, and the payments of safes.
5. Proofs: the same for each of these, beginning with the order of `Vouches` and the
   votes of `Governance`.
