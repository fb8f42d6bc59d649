----------------------------- MODULE ValidatorSet -----------------------------
(***************************************************************************)
(* How the validator set of an epoch is chosen: blocks grade the           *)
(* validators, the VM arms the epoch trigger, any user pulls it, and the   *)
(* boundary jails, counts seats, runs the proof-of-fee auction, applies    *)
(* the failover rules and reconfigures.                                    *)
(*                                                                         *)
(* Every transaction is atomic, the boundary too, so TriggerEpoch is one   *)
(* action; the operators above it are its stages in the order of           *)
(* epoch_boundary.move.  The money a boundary moves is module Ledger's:    *)
(* here the fees collected and the unlocked balances are any value.        *)
(*                                                                         *)
(* Validator lists are sets.  Their order matters only to break ties: the  *)
(* auction shuffles equal bids, and the failover rules rank equal          *)
(* proposers by position, which is abstracted to any order (see Ranking).  *)
(* Performance is indexed by address: maybe_reconfigure renumbers every    *)
(* seated validator and clears every counter, so index and address agree.  *)
(***************************************************************************)
EXTENDS Ranking, FiniteSetsExt

CONSTANTS
    Validators,       \* accounts that are or may become validators
    Strangers,        \* addresses that have no account on chain
    Genesis,          \* the validator set at the start
    InitRegistered,   \* who has called register_validator at the start
    InitVouchers,     \* who vouches for whom at the start
    BidLevels,        \* bids in tenths of a percent, 1100 at most
    Expiries,         \* expiry epochs a bidder may ask for
    NominalReward,    \* ConsensusReward.nominal_reward
    Funds,            \* unlocked balances a validator may have
    MinSeats,         \* VAL_BOOT_UP_THRESHOLD and minimum_seats: 4
    HealthyThreshold, \* healthy_threshold of the failover rules: 9
    VouchThreshold,   \* validator_vouch_threshold: 2 in production
    MaxVouches,       \* max_vouches_per_validator: 10
    FailedPropsPct,   \* FAILED_PROPS_THRESHOLD_PCT: 20
    TrailingPct,      \* TRAILING_VALIDATOR_THRESHOLD: 5
    FailurePct,       \* FAILURE_TOLERANCE_PCT: 5
    CompetitivePct,   \* PCT_COMPETITIVENESS: 10
    FirstEval,        \* EPOCH_TO_START_EVAL: 2
    Scale,            \* fixed_point32 precision: 2^32 in the code
    EpochInterval,    \* runs of blocks before the VM arms the trigger
    FirstEpoch,       \* the epoch at the start
    MaxEpoch,         \* bound: the last epoch
    MaxBlocks,        \* bound: runs of blocks in an epoch
    MaxFailed,        \* bound: failed proposers in a run of blocks
    MaxTx             \* bound: user and governance transactions

ASSUME ValidatorSetAssumption ==
    /\ IsFiniteSet(Validators) /\ IsFiniteSet(Strangers)
    /\ Strangers \cap Validators = {}
    /\ Genesis \subseteq InitRegistered
    /\ InitRegistered \subseteq Validators
    /\ InitVouchers \in [Validators -> SUBSET Validators]
    /\ BidLevels \subseteq 0..1100
    /\ Expiries \subseteq Nat
    /\ NominalReward \in Nat
    /\ Funds \subseteq Nat
    /\ MinSeats \in Nat \ {0}
    /\ HealthyThreshold \in Nat
    /\ MinSeats <= HealthyThreshold
    /\ MinSeats <= Cardinality(Genesis)
    /\ VouchThreshold \in Nat
    /\ MaxVouches \in Nat /\ MaxVouches >= 2
    /\ FailedPropsPct \in Nat /\ TrailingPct \in Nat /\ FailurePct \in 0..99
    /\ CompetitivePct \in 0..99
    /\ FirstEval \in Nat
    /\ Scale \in Nat \ {0}
    /\ EpochInterval \in Nat \ {0}
    /\ FirstEpoch \in Nat \ {0}
    /\ MaxEpoch \in Nat /\ MaxBlocks \in Nat /\ MaxFailed \in Nat /\ MaxTx \in Nat

VARIABLES
    active,      \* ValidatorSet.active_validators
    perf,        \* ValidatorPerformance: [ok, failed] proposals per validator
    registered,  \* ValidatorUniverse, ValidatorState and ValidatorConfig
    jail,        \* Jail: [jailed, lifetime, vouchees, consecutive]
    bid,         \* ProofOfFeeAuction: [pct, expire]
    vouchers,    \* vouch::true_friends: unexpired, unrelated vouchers
    seats,       \* Chairs.seats_offered
    entryFee,    \* ConsensusReward.entry_fee
    bit,         \* BoundaryBit: [ready, closing]
    epoch,       \* Configuration.epoch
    since,       \* runs of blocks since the last reconfiguration
    status,      \* BoundaryStatus.incoming_auction_winners
    txs,         \* transactions so far, bounded by MaxTx
    boundaries,  \* history: epoch boundaries so far
    sinceEnd     \* history: blocks since the last of them, up to the interval

setVars == <<active, perf, registered, jail, seats, status>>
bidVars == <<bid, vouchers, entryFee>>
clockVars == <<bit, epoch, since, boundaries, sinceEnd>>
vars == <<setVars, bidVars, clockVars, txs>>

NoProposals == [ok |-> 0, failed |-> 0]

NoBid == [pct |-> 0, expire |-> 0]

NeverJailed == [jailed |-> FALSE, lifetime |-> 0, vouchees |-> 0, consecutive |-> 0]

Min2(a, b) == IF a < b THEN a ELSE b

Max2(a, b) == IF a < b THEN b ELSE a

-----------------------------------------------------------------------------
(***************************************************************************)
(* Grading: grade.move                                                     *)
(***************************************************************************)

\* fixed_point32: multiply_u64(100, create_from_rational(n, d))
Pct(n, d) == (100 * ((n * Scale) \div d)) \div Scale

\* The net proposals of v, zero when it failed more than it proposed.
NetProps(v) == Max2(perf[v].ok - perf[v].failed, 0)

\* stake::get_highest_net_proposer
HighestNetProps == Max({NetProps(v) : v \in active} \cup {0})

HasGoodSuccessRatio(v) ==
    /\ perf[v].ok >= perf[v].failed
    /\ Pct(perf[v].failed, perf[v].ok + 1) < FailedPropsPct

DoesNotTrail(v) ==
    /\ perf[v].ok > perf[v].failed
    /\ HighestNetProps > 0
    /\ Pct(NetProps(v), HighestNetProps) > TrailingPct

\* musical_chairs::eval_compliance_impl over grade::eval_compliant_vals
CompliantVals(closing) ==
    IF closing < FirstEval
    THEN active
    ELSE {v \in active : HasGoodSuccessRatio(v) /\ DoesNotTrail(v)}

-----------------------------------------------------------------------------
(***************************************************************************)
(* Seats: musical_chairs.move                                              *)
(***************************************************************************)

\* stop_the_music with calculate_seats_to_offer.  Before FirstEval the
\* failure ratio is reported as one.
SeatsToOffer(closing) ==
    LET good  == Cardinality(CompliantVals(closing))
        total == Cardinality(active)
        bad   == total - good
        tolerated == /\ closing >= FirstEval
                     /\ bad = 0 \/ Pct(bad, total) <= FailurePct
        offer == IF tolerated THEN seats + 1 ELSE good
    IN  IF good > seats THEN seats ELSE Max2(offer, MinSeats)

-----------------------------------------------------------------------------
(***************************************************************************)
(* Jail: jail.move                                                         *)
(***************************************************************************)

\* jail::jail of every validator in bad, with inc_voucher_jail
JailAll(bad) ==
    [v \in Validators |->
        LET fell   == v \in bad /\ v \in registered
            blamed == IF v \in registered
                      THEN Cardinality({b \in bad : v \in vouchers[b]}) ELSE 0
        IN  [jailed      |-> jail[v].jailed \/ fell,
             lifetime    |-> jail[v].lifetime + (IF fell THEN 1 ELSE 0),
             vouchees    |-> jail[v].vouchees + blamed,
             consecutive |-> jail[v].consecutive + (IF fell THEN 1 ELSE 0)]]

-----------------------------------------------------------------------------
(***************************************************************************)
(* The auction: proof_of_fee.move                                          *)
(***************************************************************************)

\* current_bid: zero once expired; expiry zero is read as no expiry
CurrentBid(v) ==
    IF bid[v].expire >= epoch \/ bid[v].expire = 0 THEN bid[v].pct ELSE 0

\* calculate_min_vouches_required
MinVouchesRequired ==
    LET size == Cardinality(active)
    IN  IF size > 21 THEN Min2((size \div 10) + 1, MaxVouches - 2)
                     ELSE VouchThreshold

\* Faulty variant: jailed validators keep their place in the auction.
AuditQualificationJailed(v, j, u) ==
    /\ v \in registered
    /\ Cardinality(vouchers[v] \cap active) >= MinVouchesRequired
    /\ CurrentBid(v) # 0
    /\ epoch <= bid[v].expire
    /\ u[v] >= entryFee

\* audit_qualification, for the jail j and the unlocked balances u.  The
\* funds are compared with the entry fee of the epoch that is closing.
\* register_validator made every registered account slow.
AuditQualification(v, j, u) ==
    /\ v \in registered
    /\ ~j[v].jailed
    /\ Cardinality(vouchers[v] \cap active) >= MinVouchesRequired
    /\ CurrentBid(v) # 0
    /\ epoch <= bid[v].expire
    /\ u[v] >= entryFee

\* competitive_set_size.  The threshold max_recommended_size * (1 + pct/100)
\* is an integer product: the recommended size itself.
CompetitiveSetSize(bidders, offered) ==
    IF offered < MinSeats THEN MinSeats
    ELSE IF bidders <= offered
         THEN Min2(bidders - ((bidders * CompetitivePct) \div 100), offered)
         ELSE offered

\* Faulty variant: unproven bidders are seated without a quota.
AuctionOutcomesNoQuota(bidders, proven, size) ==
    Winners(bidders, proven, size, size, [v \in Validators |-> CurrentBid(v)])

\* The winners fill_seats_and_get_price can return, one set for each order
\* that shuffle_duplicates may give to equal bids.
AuctionOutcomes(bidders, proven, size) ==
    Winners(bidders, proven, size, size \div 3, [v \in Validators |-> CurrentBid(v)])

\* What v offers to pay for its seat.
BidFee(v) == (NominalReward * CurrentBid(v)) \div 1000

\* Everyone pays what the lowest bidder seated offers; without winners the
\* old entry fee stays.
ClearingFees(winners) ==
    IF winners = {} THEN {entryFee}
    ELSE {BidFee(low) : low \in {w \in winners :
                                    \A v \in winners : CurrentBid(w) <= CurrentBid(v)}}

-----------------------------------------------------------------------------
(***************************************************************************)
(* Failover: stake.move                                                    *)
(***************************************************************************)

\* The first k validators of get_sorted_vals_by_net_props, any tie-break.
TopProposers(k) == TopRanked(active, k, [v \in Validators |-> NetProps(v)])

FailoverTarget(offered) == Min2(Max2(offered, MinSeats), HealthyThreshold)

\* Faulty variant: the set is changed however small it has become.
FailoverOutcomesNoBackstop(proposed, offered) ==
    {proposed \cup t : t \in TopProposers(Max2(FailoverTarget(offered) - Cardinality(proposed), 0))}

\* check_failover_rules: the proposed set when it is healthy or reaches the
\* target, else the proposed set and the best of the current one, else, when
\* that is still too small, the current set.
FailoverOutcomes(proposed, offered) ==
    LET count  == Cardinality(proposed)
        target == FailoverTarget(offered)
        Backstop(s) == IF Cardinality(s) >= MinSeats THEN s ELSE active
    IN  IF count > HealthyThreshold \/ count >= target
        THEN {proposed}
        ELSE {Backstop(proposed \cup t) : t \in TopProposers(target - count)}

-----------------------------------------------------------------------------
(***************************************************************************)
(* The boundary: block.move, epoch_boundary.move, reconfiguration.move     *)
(***************************************************************************)

Init ==
    /\ active = Genesis
    /\ perf = [v \in Validators |-> NoProposals]
    /\ registered = InitRegistered
    /\ jail = [v \in Validators |-> NeverJailed]
    /\ bid \in [Validators -> [pct : BidLevels, expire : Expiries] \cup {NoBid}]
    /\ vouchers = InitVouchers
    /\ seats = Cardinality(Genesis)
    /\ entryFee = 0
    /\ bit = [ready |-> FALSE, closing |-> 0]
    /\ epoch = FirstEpoch
    /\ since = 0
    /\ status = {}
    /\ txs = 0
    /\ boundaries = 0
    /\ sinceEnd = 0

\* stake::update_performance_statistics of a run of blocks
Graded(proposers, failed) ==
    [v \in Validators |->
        [ok     |-> perf[v].ok + (IF v \in proposers THEN 1 ELSE 0),
         failed |-> perf[v].failed + (IF v \in failed THEN 1 ELSE 0)]]

\* block_prologue of a run of blocks with no transaction of interest between
\* them: each of proposers proposed one, each of failed missed its turn, and
\* any number of nil blocks had no proposer.  Updates of the counters
\* commute.  From the interval on every block arms the trigger again.
NewBlocks(proposers, failed) ==
    /\ since < MaxBlocks
    /\ perf' = Graded(proposers, failed)
    /\ since' = since + 1
    /\ sinceEnd' = Min2(sinceEnd + 1, EpochInterval)
    /\ bit' = IF since' >= EpochInterval
              THEN [ready |-> TRUE, closing |-> epoch] ELSE bit
    /\ UNCHANGED <<active, registered, jail, seats, status, bidVars, epoch, txs,
                   boundaries>>

\* Faulty variant: the closing epoch must lie in the past.
CanTriggerLate == bit.ready /\ bit.closing < epoch

\* assert_can_trigger
CanTrigger == bit.ready /\ bit.closing <= epoch

\* Faulty variant: the trigger stays armed.
DisarmedNot == bit

\* trigger_epoch clears the bit
Disarmed == [bit EXCEPT !.ready = FALSE]

\* stake::maybe_reconfigure with a list of accounts; the index loop aborts
\* when a member has no config.
Reconfigured(set) ==
    /\ set \subseteq registered
    /\ active' = set
    /\ perf' = [v \in Validators |-> NoProposals]

\* Faulty variant: musical chairs is told how many seats the auction filled.
SeatsAfterWinners(winners, set) == Cardinality(winners)

\* The end of process_incoming_validators: musical chairs is told the size of
\* the set that was really seated.
SeatsAfter(winners, set) == Cardinality(set)

\* diem_governance::trigger_epoch by any user: the whole epoch boundary.
\* Without collected fees settle_accounts does nothing, so it does not jail.
\* A block ends with the transaction that reconfigures: since > 0, time has
\* moved on and reconfigure bumps the epoch.
TriggerEpoch ==
    /\ CanTrigger
    /\ since > 0
    /\ epoch < MaxEpoch
    /\ \E fees \in BOOLEAN, unlocked \in [Validators -> Funds] :
        LET compliant == CompliantVals(bit.closing)
            offered   == SeatsToOffer(bit.closing)
            jailed    == IF fees THEN JailAll(active \ compliant) ELSE jail
            qualified == {v \in Validators : AuditQualification(v, jailed, unlocked)}
            size      == CompetitiveSetSize(Cardinality(qualified), offered)
        IN  \E winners \in AuctionOutcomes(qualified, compliant, size) :
            \E set \in FailoverOutcomes(winners, offered) :
                /\ Reconfigured(set)
                /\ seats' = SeatsAfter(winners, set)
                /\ jail' = jailed
                /\ entryFee' \in ClearingFees(winners)
                /\ status' = winners
    /\ bit' = Disarmed
    /\ epoch' = epoch + 1
    /\ since' = 0
    /\ boundaries' = boundaries + 1
    /\ sinceEnd' = 0
    /\ UNCHANGED <<registered, bid, vouchers, txs>>

-----------------------------------------------------------------------------
(***************************************************************************)
(* Transactions of validators, vouchers and governance                     *)
(***************************************************************************)

CountTx == txs < MaxTx /\ txs' = txs + 1

\* validator_universe::register_validator
RegisterValidator(v) ==
    /\ CountTx
    /\ v \notin registered
    /\ registered' = registered \cup {v}
    /\ UNCHANGED <<active, perf, jail, seats, status, bidVars, clockVars>>

\* proof_of_fee::pof_update_bid
UpdateBid(v, pct, expire) ==
    /\ CountTx
    /\ bid' = [bid EXCEPT ![v] = [pct |-> pct, expire |-> expire]]
    /\ UNCHANGED <<setVars, vouchers, entryFee, clockVars>>

\* proof_of_fee::pof_retract_bid
RetractBid(v) ==
    /\ CountTx
    /\ bid' = [bid EXCEPT ![v] = NoBid]
    /\ UNCHANGED <<setVars, vouchers, entryFee, clockVars>>

\* jail::unjail_by_voucher by the seated voucher u
UnjailByVoucher(u, v) ==
    /\ CountTx
    /\ v \in registered
    /\ u \in vouchers[v] \cap active
    /\ jail' = [jail EXCEPT ![v].jailed = FALSE]
    /\ UNCHANGED <<active, perf, registered, seats, status, bidVars, clockVars>>

\* A vouch for v is given, revoked or expires: true_friends changes.
ChangeVouch(u, v) ==
    /\ CountTx
    /\ u # v
    /\ vouchers' = [vouchers EXCEPT ![v] =
                        IF u \in @ THEN @ \ {u} ELSE @ \cup {u}]
    /\ UNCHANGED <<setVars, bid, entryFee, clockVars>>

\* diem_governance::set_validators, in a rescue.  maybe_reconfigure leaves out
\* the addresses without an account, musical chairs counts the whole list.
\* The epoch is not bumped.  Lists are without repetition, and name somebody
\* who can be seated: without a validator there is no next block.
SetValidators(list) ==
    /\ CountTx
    /\ list \ Strangers # {}
    /\ Reconfigured(list \ Strangers)
    /\ seats' = Cardinality(list)
    /\ UNCHANGED <<registered, jail, status, bidVars, clockVars>>

\* stake::remove_validators: the set shrinks, musical chairs is not told.
RemoveValidators(dead) ==
    /\ CountTx
    /\ active \ dead # {}
    /\ Reconfigured(active \ dead)
    /\ UNCHANGED <<registered, jail, seats, status, bidVars, clockVars>>

\* diem_governance::reconfigure, or an on-chain config change: the epoch
\* advances without a boundary.
BumpEpoch ==
    /\ CountTx
    /\ since > 0
    /\ epoch < MaxEpoch
    /\ epoch' = epoch + 1
    /\ since' = 0
    /\ UNCHANGED <<setVars, bidVars, bit, boundaries, sinceEnd>>

AnyBlocks ==
    \E proposers, failed \in SUBSET active :
        /\ Cardinality(failed) <= MaxFailed
        /\ NewBlocks(proposers, failed)

ValidatorTx ==
    \E v \in Validators :
        \/ RegisterValidator(v)
        \/ \E pct \in BidLevels, expire \in Expiries : UpdateBid(v, pct, expire)
        \/ RetractBid(v)
        \/ \E u \in Validators : UnjailByVoucher(u, v) \/ ChangeVouch(u, v)

GovernanceTx ==
    \/ BumpEpoch
    \/ \E list \in SUBSET (Validators \cup Strangers) : SetValidators(list)
    \/ \E dead \in SUBSET Validators : RemoveValidators(dead)

Next == AnyBlocks \/ TriggerEpoch \/ ValidatorTx \/ GovernanceTx

Spec == Init /\ [][Next]_vars

\* Consensus keeps producing blocks, and some user or validator pulls an
\* armed trigger: the tools poll can_trigger for it.
FairSpec == Spec /\ WF_vars(AnyBlocks) /\ WF_vars(TriggerEpoch)

-----------------------------------------------------------------------------
(***************************************************************************)
(* Properties                                                              *)
(***************************************************************************)

\* Every variable stays in its type; in particular the set is seated from
\* registered accounts, which maybe_reconfigure's index loop relies on.
TypeOK ==
    /\ active \subseteq registered
    /\ perf \in [Validators -> [ok : Nat, failed : Nat]]
    /\ registered \subseteq Validators
    /\ jail \in [Validators -> [jailed : BOOLEAN, lifetime : Nat, vouchees : Nat,
                                consecutive : Nat]]
    /\ bid \in [Validators -> [pct : 0..1100, expire : Nat]]
    /\ vouchers \in [Validators -> SUBSET Validators]
    /\ seats \in Nat
    /\ entryFee \in Nat
    /\ bit \in [ready : BOOLEAN, closing : Nat]
    /\ epoch \in Nat /\ since \in Nat /\ txs \in Nat
    /\ boundaries \in Nat /\ sinceEnd \in Nat
    /\ status \subseteq Validators

BoundaryStep == boundaries' # boundaries

\* No boundary leaves the network with fewer validators than the minimum,
\* however many of them failed, were jailed, lost their vouchers or did not
\* bid: check_failover_rules fills the set up or leaves it as it is.
ViableSet ==
    [][BoundaryStep => active' = active \/ Cardinality(active') >= MinSeats]_vars

\* A boundary seats at most one validator more than there were seats, or the
\* minimum: musical chairs, the auction and the failover rules together never
\* seat more, whatever set governance left behind.
SeatsGrowByOne ==
    [][BoundaryStep => /\ Cardinality(active') <= Max2(seats + 1, MinSeats)
                       /\ seats' = Cardinality(active')]_vars

\* At most a third of the seats offered go to unproven validators: newcomers,
\* and those that failed in the closing epoch and, for want of collected fees,
\* were not jailed.  Each newcomer is a vouched bidder: the failover rules
\* never seat a stranger.
NewcomersQualified ==
    [][BoundaryStep =>
        /\ 3 * Cardinality((active' \ active) \cup (status' \ CompliantVals(bit.closing)))
                <= SeatsToOffer(bit.closing)
        /\ \A v \in active' \ active :
            /\ CurrentBid(v) > 0
            /\ Cardinality(vouchers[v] \cap active) >= MinVouchesRequired]_vars

\* A jailed validator is seated only as a last resort: it was in the set
\* before, and the set is unchanged or too small to be healthy.
JailedOnlyInFailover ==
    [][BoundaryStep =>
        \A v \in active' : jail'[v].jailed =>
            /\ v \in active
            /\ active' = active \/ Cardinality(active') <= HealthyThreshold]_vars

\* Two boundaries are at least an epoch interval of blocks apart, also when
\* governance bumps the epoch while the trigger is armed: a user cannot pull
\* the trigger twice.
FullIntervalBetweenBoundaries == [][BoundaryStep => sinceEnd >= EpochInterval]_vars

\* No epoch has more validators than seats: not after a failover that seats
\* validators who won nothing, nor after governance replaced the set by a list
\* with addresses that cannot be seated, or took validators out.  So the fork
\* condition of stop_the_music never arises; its early return would offer the
\* seats as they are, below the minimum too.
SeatsCoverSet == Cardinality(active) <= seats

\* The clock of the epochs that this specification implements: the epoch that
\* the bit says is closing never stops a trigger, and a boundary that may be
\* pulled never aborts.
Clock == INSTANCE EpochClock WITH
    Interval <- EpochInterval, StartEpoch <- FirstEpoch, LastEpoch <- MaxEpoch,
    ready <- bit.ready, age <- Min2(since, EpochInterval), apart <- sinceEnd

\* The whole machinery of the boundary - grading, jailing, the auction, the
\* failover rules and the reconfiguration, with governance replacing the set
\* or the epoch at any time - implements the clock of the epochs, fairness
\* included: an armed trigger closes the epoch, no earlier than an interval
\* after the last boundary, and no state leaves it armed for ever.
ImplementsClock == Clock!FairClock
=============================================================================
