------------------------------- MODULE Ledger -------------------------------
(***************************************************************************)
(* The coin ledger of the 0L framework: balances, slow wallets, the fee    *)
(* account, the fee makers, the infra escrow and burning, with the money   *)
(* flow of the epoch boundary.                                             *)
(*                                                                         *)
(* A user transaction is atomic, so each entry function is one action,     *)
(* enabled while phase = "open".  The epoch boundary is one transaction    *)
(* too, but it is a sequence of loops over lists of accounts; here it is   *)
(* cut into one action per loop iteration, in the order of                 *)
(* epoch_boundary.move, and nothing else is enabled while it runs.  A loop *)
(* visits the set todo in any order, which covers every order of the list. *)
(*                                                                         *)
(* Left out, because nothing here reads them: events, receipts, cumulative *)
(* deposits, ancestry and the burn tracker of ol_account.                  *)
(***************************************************************************)
EXTENDS Integers, FiniteSetsExt, Functions

CONSTANTS
    Accounts,     \* addresses of users, community wallets and multisig safes
    InitStatus,   \* the migration status of each address at the start
    InitBalance,  \* the coins each address holds at the start
    InitEscrow,   \* the coins pledged to the infra escrow at the start
    InitSupply,   \* CoinInfo.supply at the start: every coin minted at genesis
    Safes,        \* the registry of multisigs that pay the root security fee
    Candidates,   \* accounts that may be validators
    Amounts,      \* the amounts a transaction may move
    DripAmount,   \* sacred_cows: coins unlocked per wallet and epoch
    Reward,       \* nominal reward of a validator for an epoch
    EntryFee,     \* entry fee a seated validator pays
    SafeFeeNum,   \* security fee, as the fraction SafeFeeNum / SafeFeeDen
    SafeFeeDen,
    Scale,        \* fixed_point32 precision: 2^32 in the code
    MaxInit,      \* MAX_COINS_FOR_INITIALIZE
    MaxTx,        \* bound: transactions and donor payments in a behaviour
    MaxEpoch      \* bound: epochs in a behaviour

(***************************************************************************)
(* The migration status of an address.                                     *)
(*   none     no account yet                                               *)
(*   v7       an account from before v8, not migrated: no Activity         *)
(*   lonely   a migrated founder whose vouch score is too low              *)
(*   friendly a founder with friends                                       *)
(*   new      an account onboarded since v8                                *)
(*   cw_idle  a community wallet its donors have not reauthorized          *)
(*   cw_auth  a reauthorized community wallet                              *)
(***************************************************************************)
Statuses == {"none", "v7", "lonely", "friendly", "new", "cw_idle", "cw_auth"}

Phases == {"open", "bill", "donor", "settle", "reward", "drip", "charge",
           "subsidy"}

ASSUME LedgerAssumption ==
    /\ IsFiniteSet(Accounts)
    /\ InitStatus \in [Accounts -> Statuses]
    /\ InitBalance \in [Accounts -> Nat]
    /\ \A a \in Accounts : InitStatus[a] = "none" => InitBalance[a] = 0
    /\ InitEscrow \in Nat
    /\ InitSupply \in Nat
    /\ Safes \subseteq Accounts
    /\ Candidates \subseteq Accounts
    /\ \A a \in Safes \cup Candidates : InitStatus[a] # "none"
    /\ Amounts \subseteq Nat \ {0}
    /\ DripAmount \in Nat
    /\ Reward \in Nat
    /\ EntryFee \in Nat
    /\ SafeFeeNum \in Nat
    /\ SafeFeeDen \in Nat \ {0}
    /\ SafeFeeNum <= SafeFeeDen
    /\ Scale \in Nat \ {0}
    /\ MaxInit \in Nat
    /\ MaxTx \in Nat
    /\ MaxEpoch \in Nat

\* What genesis minted is in the accounts and in the escrow.
ASSUME GenesisSupply ==
    InitSupply = SumFunctionOnSet(InitBalance, Accounts) + InitEscrow

VARIABLES
    status,            \* migration status of each address
    balance,           \* CoinStore of each address
    slow,              \* addresses with a SlowWallet, also the SlowWalletList
    wallet,            \* SlowWallet: [unlocked, transferred]
    slowSupply,        \* SlowSupply: [total, unlocked, transferred, daily_unlocked]
    collected,         \* CollectedFeesPerBlock
    feeMaker,          \* FeeMaker: [epoch, lifetime]
    registry,          \* EpochFeeMakerRegistry.fee_makers
    epochFeesMade,     \* EpochFeeMakerRegistry.epoch_fees_made
    sendCommunity,     \* addresses whose UserBurnPreference is "recycle"
    escrow,            \* coins of all pledges to the infra escrow
    supply,            \* CoinInfo.supply
    burnCounter,       \* BurnCounter: [burned, recycled]
    vals,              \* the current validator set
    phase,             \* where the epoch boundary is; "open" between boundaries
    todo,              \* what the current loop of the boundary has left
    allFees,           \* the coin settle_accounts has withdrawn
    epoch,             \* epochs closed so far
    txs                \* transactions so far, bounded by MaxTx

walletVars  == <<slow, wallet, slowSupply>>
feeVars     == <<collected, feeMaker, registry, epochFeesMade>>
supplyVars  == <<supply, burnCounter>>
boundVars   == <<vals, phase, todo, allFees, epoch>>
vars == <<status, balance, walletVars, feeVars, sendCommunity, escrow,
          supplyVars, boundVars, txs>>

-----------------------------------------------------------------------------
(***************************************************************************)
(* Slow wallet bookkeeping                                                 *)
(***************************************************************************)

IsCommunityWallet(a) == status[a] \in {"cw_idle", "cw_auth"}

\* reauthorization::is_v8_authorized
IsAuthorized(a) == status[a] \in {"friendly", "new", "cw_auth"}

\* slow_wallet::unlocked_amount
UnlockedAmount(a) ==
    CASE ~IsAuthorized(a)                      -> 0
      [] IsAuthorized(a) /\ a \in slow /\ ~IsCommunityWallet(a)
                                               -> wallet[a].unlocked
      [] OTHER                                 -> balance[a]

\* slow_wallet::maybe_track_unlocked_withdraw, on the wallets w
TrackWithdraw(w, a, x) ==
    IF a \in slow
    THEN [w EXCEPT ![a] =
            [unlocked    |-> IF w[a].unlocked > x THEN w[a].unlocked - x ELSE 0,
             transferred |-> w[a].transferred + x]]
    ELSE w

\* slow_wallet::maybe_track_unlocked_deposit, on the wallets w
TrackDeposit(w, a, x) ==
    IF a \in slow
    THEN [w EXCEPT ![a] = [unlocked    |-> w[a].unlocked + x,
                           transferred |-> w[a].transferred]]
    ELSE w

\* coin::extract from, and coin::deposit to, the CoinStore of a
Debit(b, a, x)  == [b EXCEPT ![a] = b[a] - x]
Credit(b, a, x) == [b EXCEPT ![a] = b[a] + x]

\* set_slow: a wallet starts with its whole balance unlocked
SetSlow(w, a) ==
    IF a \in slow THEN w
    ELSE [w EXCEPT ![a] = [unlocked |-> balance[a], transferred |-> 0]]

\* Faulty variant: the fee maker is not pushed on the registry.
TrackUserFeeUnregistered(a, x) ==
    /\ feeMaker' = [feeMaker EXCEPT ![a] =
                      [epoch |-> feeMaker[a].epoch + x,
                       lifetime |-> feeMaker[a].lifetime]]
    /\ epochFeesMade' = epochFeesMade + x
    /\ UNCHANGED registry

\* fee_maker::track_user_fee_impl, after its lazy initialization
TrackUserFee(a, x) ==
    /\ feeMaker' = [feeMaker EXCEPT ![a] =
                      [epoch |-> feeMaker[a].epoch + x,
                       lifetime |-> feeMaker[a].lifetime]]
    /\ registry' = registry \cup {a}
    /\ epochFeesMade' = epochFeesMade + x

\* x * (n / d) in fixed_point32: both steps truncate
FixedMul(x, n, d) == (x * ((n * Scale) \div d)) \div Scale

-----------------------------------------------------------------------------
Init ==
    /\ status = InitStatus
    /\ balance = InitBalance
    /\ slow = Candidates
    /\ wallet = [a \in Accounts |->
                   [unlocked |-> IF a \in Candidates THEN InitBalance[a] ELSE 0,
                    transferred |-> 0]]
    /\ slowSupply = [total |-> 0, unlocked |-> 0, transferred |-> 0,
                     daily_unlocked |-> 0]
    /\ collected = 0
    /\ feeMaker = [a \in Accounts |-> [epoch |-> 0, lifetime |-> 0]]
    /\ registry = {}
    /\ epochFeesMade = 0
    /\ sendCommunity = {}
    /\ escrow = InitEscrow
    /\ supply = InitSupply
    /\ burnCounter = [burned |-> 0, recycled |-> 0]
    /\ vals = Candidates
    /\ phase = "open"
    /\ todo = {}
    /\ allFees = 0
    /\ epoch = 0
    /\ txs = 0

\* A user transaction: between boundaries, and within the bound.
UserTx ==
    /\ phase = "open"
    /\ txs < MaxTx
    /\ txs' = txs + 1
    /\ UNCHANGED boundVars

(***************************************************************************)
(* ol_account::transfer.  The recipient's account is created when it does  *)
(* not exist; transfer_checks is stricter than withdraw (amount < limit).  *)
(***************************************************************************)
Transfer(p, r, x) ==
    /\ UserTx
    /\ status[p] # "none"
    /\ IsAuthorized(p)
    /\ ~IsCommunityWallet(p)
    /\ status[r] = "none" => x <= MaxInit
    /\ x < UnlockedAmount(p)
    /\ x <= balance[p]
    /\ status' = IF status[r] = "none" THEN [status EXCEPT ![r] = "new"]
                                       ELSE status
    /\ balance' = Credit(Debit(balance, p, x), r, x)
    /\ wallet' = TrackDeposit(TrackWithdraw(wallet, p, x), r, x)
    /\ UNCHANGED <<slow, slowSupply, feeVars, sendCommunity, escrow, supplyVars>>

(***************************************************************************)
(* ol_account::transfer_with_capability and safe::release_payment: a       *)
(* community wallet spends through its withdraw capability.                *)
(***************************************************************************)
TransferWithCapability(p, r, x) ==
    /\ UserTx
    /\ IsCommunityWallet(p)
    /\ status[r] # "none"
    /\ x < UnlockedAmount(p)
    /\ x <= balance[p]
    /\ balance' = Credit(Debit(balance, p, x), r, x)
    /\ wallet' = TrackDeposit(TrackWithdraw(wallet, p, x), r, x)
    /\ UNCHANGED <<status, slow, slowSupply, feeVars, sendCommunity, escrow,
                   supplyVars>>

(***************************************************************************)
(* ol_account::withdraw then transaction_fee::user_pay_fee, as vouch_txs   *)
(* does to charge for a vouch.                                             *)
(***************************************************************************)
PayFee(p, x) ==
    /\ UserTx
    /\ status[p] # "none"
    /\ x <= UnlockedAmount(p)
    /\ x <= balance[p]
    /\ balance' = Debit(balance, p, x)
    /\ wallet' = TrackWithdraw(wallet, p, x)
    /\ collected' = collected + x
    /\ TrackUserFee(p, x)
    /\ UNCHANGED <<status, slow, slowSupply, sendCommunity, escrow, supplyVars>>

(***************************************************************************)
(* transaction_validation::epilogue: gas is charged to the balance, locked *)
(* coins included, and is not attributed to a fee maker.                   *)
(***************************************************************************)
CollectGas(p, x) ==
    /\ UserTx
    /\ status[p] # "none"
    /\ x <= balance[p]
    /\ balance' = Debit(balance, p, x)
    /\ wallet' = TrackWithdraw(wallet, p, x)
    /\ collected' = collected + x
    /\ UNCHANGED <<status, slow, slowSupply, feeMaker, registry, epochFeesMade,
                   sendCommunity, escrow, supplyVars>>

\* slow_wallet::user_set_slow; irreversible
UserSetSlow(a) ==
    /\ UserTx
    /\ status[a] # "none"
    /\ a \notin slow
    /\ slow' = slow \cup {a}
    /\ wallet' = SetSlow(wallet, a)
    /\ UNCHANGED <<status, balance, slowSupply, feeVars, sendCommunity, escrow,
                   supplyVars>>

(***************************************************************************)
(* filo_migration::maybe_migrate: a founder becomes slow with nothing      *)
(* unlocked.  It can be repeated until the founder has friends.            *)
(***************************************************************************)
MaybeMigrate(a) ==
    /\ UserTx
    /\ status[a] \in {"v7", "lonely"}
    /\ status' = [status EXCEPT ![a] = "lonely"]
    /\ slow' = slow \cup {a}
    /\ wallet' = [wallet EXCEPT ![a] = [unlocked |-> 0, transferred |-> 0]]
    /\ UNCHANGED <<balance, slowSupply, feeVars, sendCommunity, escrow,
                   supplyVars>>

\* founder::maybe_set_friendly_founder, once the vouch score is high enough
SetFriendlyFounder(a) ==
    /\ UserTx
    /\ status[a] = "lonely"
    /\ status' = [status EXCEPT ![a] = "friendly"]
    /\ UNCHANGED <<balance, walletVars, feeVars, sendCommunity, escrow,
                   supplyVars>>

\* donor_voice_reauth: the donors reauthorize a wallet, or its authority lapses
ReauthorizeWallet(a) ==
    /\ UserTx
    /\ IsCommunityWallet(a)
    /\ status' = [status EXCEPT ![a] = IF status[a] = "cw_auth" THEN "cw_idle"
                                                               ELSE "cw_auth"]
    /\ UNCHANGED <<balance, walletVars, feeVars, sendCommunity, escrow,
                   supplyVars>>

\* burn::set_send_community
SetSendCommunity(a, community) ==
    /\ UserTx
    /\ status[a] # "none"
    /\ sendCommunity' = IF community THEN sendCommunity \cup {a}
                                     ELSE sendCommunity \ {a}
    /\ UNCHANGED <<status, balance, walletVars, feeVars, escrow, supplyVars>>

-----------------------------------------------------------------------------
(***************************************************************************)
(* The epoch boundary                                                      *)
(***************************************************************************)

\* trigger_epoch: root_service_billing visits the registry of safes
BeginBoundary ==
    /\ phase = "open"
    /\ epoch < MaxEpoch
    /\ phase' = "bill"
    /\ todo' = Safes
    /\ UNCHANGED <<status, balance, walletVars, feeVars, sendCommunity, escrow,
                   supplyVars, vals, allFees, epoch, txs>>

(***************************************************************************)
(* vm_withdraw_unlimited then vm_pay_fee: what the VM takes from a and     *)
(* attributes to a as a fee.  Nothing happens when a cannot pay.           *)
(***************************************************************************)
VmChargeFee(a, x) ==
    IF x > balance[a]
    THEN UNCHANGED <<balance, wallet, feeVars>>
    ELSE /\ balance' = Debit(balance, a, x)
         /\ wallet' = TrackWithdraw(wallet, a, x)
         /\ collected' = collected + x
         /\ TrackUserFee(a, x)

\* safe::root_security_fee_billing, one safe
BillSafe(s) ==
    /\ phase = "bill"
    /\ s \in todo
    /\ VmChargeFee(s, FixedMul(balance[s], SafeFeeNum, SafeFeeDen))
    /\ todo' = todo \ {s}
    /\ UNCHANGED <<status, slow, slowSupply, sendCommunity, escrow, supplyVars,
                   vals, phase, allFees, epoch, txs>>

EndBilling ==
    /\ phase = "bill"
    /\ todo = {}
    /\ phase' = "donor"
    /\ UNCHANGED <<status, balance, walletVars, feeVars, sendCommunity, escrow,
                   supplyVars, vals, todo, allFees, epoch, txs>>

(***************************************************************************)
(* process_donor_voice_accounts: a scheduled payment to a slow wallet that *)
(* is due.  The coins arrive locked (vm_deposit_coins_locked).             *)
(***************************************************************************)
PayDonorVoice(p, r, x) ==
    /\ phase = "donor"
    /\ txs < MaxTx
    /\ IsCommunityWallet(p)
    /\ r \in slow
    /\ x <= balance[p]
    /\ balance' = Credit(Debit(balance, p, x), r, x)
    /\ wallet' = TrackWithdraw(wallet, p, x)
    /\ txs' = txs + 1
    /\ UNCHANGED <<status, slow, slowSupply, feeVars, sendCommunity, escrow,
                   supplyVars, boundVars>>

\* transfer_credit_vm: an advance to an ordinary account, by vm_transfer
VmTransfer(p, r, x) ==
    /\ phase = "donor"
    /\ txs < MaxTx
    /\ IsCommunityWallet(p)
    /\ status[r] # "none"
    /\ r \notin slow
    /\ x <= balance[p]
    /\ balance' = Credit(Debit(balance, p, x), r, x)
    /\ wallet' = TrackDeposit(TrackWithdraw(wallet, p, x), r, x)
    /\ txs' = txs + 1
    /\ UNCHANGED <<status, slow, slowSupply, feeVars, sendCommunity, escrow,
                   supplyVars, boundVars>>

\* vm_liquidate: what is left of a liquidated wallet becomes system fees
LiquidateRest(p) ==
    /\ phase = "donor"
    /\ txs < MaxTx
    /\ IsCommunityWallet(p)
    /\ balance' = Debit(balance, p, balance[p])
    /\ wallet' = TrackWithdraw(wallet, p, balance[p])
    /\ collected' = collected + balance[p]
    /\ txs' = txs + 1
    /\ UNCHANGED <<status, slow, slowSupply, feeMaker, registry, epochFeesMade,
                   sendCommunity, escrow, supplyVars, boundVars>>

\* fee_maker::epoch_reset_fee_maker, before the accounts are settled
ResetFeeMakers ==
    /\ phase = "donor"
    /\ feeMaker' = [a \in Accounts |->
                      IF a \in registry
                      THEN [epoch |-> 0,
                            lifetime |-> feeMaker[a].lifetime + feeMaker[a].epoch]
                      ELSE feeMaker[a]]
    /\ registry' = {}
    /\ epochFeesMade' = 0
    /\ phase' = "settle"
    /\ UNCHANGED <<status, balance, walletVars, collected, sendCommunity,
                   escrow, supplyVars, vals, todo, allFees, epoch, txs>>

(***************************************************************************)
(* settle_accounts takes all the fees; it does nothing when there are none. *)
(* compliant: the validators musical_chairs found compliant.               *)
(***************************************************************************)
SettleAccounts(compliant) ==
    /\ phase = "settle"
    /\ allFees' = collected
    /\ collected' = 0
    /\ todo' = IF collected > 0 THEN compliant ELSE {}
    /\ phase' = IF collected > 0 THEN "reward" ELSE "drip"
    /\ UNCHANGED <<status, balance, walletVars, feeMaker, registry,
                   epochFeesMade, sendCommunity, escrow, supplyVars,
                   vals, epoch, txs>>

\* Faulty variant: the reward is not extracted from the budget.
PayRewardUnfunded(v) ==
    /\ phase = "reward"
    /\ v \in todo
    /\ balance' = Credit(balance, v, Reward)
    /\ todo' = todo \ {v}
    /\ UNCHANGED <<status, walletVars, feeVars, sendCommunity, escrow,
                   supplyVars, vals, phase, allFees, epoch, txs>>

\* Faulty variant: the loop does not move past a validator that the budget
\* cannot pay.
PayRewardStuck(v) ==
    /\ phase = "reward"
    /\ v \in todo
    /\ IF allFees >= Reward
       THEN /\ allFees' = allFees - Reward
            /\ balance' = Credit(balance, v, Reward)
            /\ todo' = todo \ {v}
       ELSE UNCHANGED <<allFees, balance, todo>>
    /\ UNCHANGED <<status, walletVars, feeVars, sendCommunity, escrow,
                   supplyVars, vals, phase, epoch, txs>>

\* process_outgoing_validators, one compliant validator
PayReward(v) ==
    /\ phase = "reward"
    /\ v \in todo
    /\ IF allFees >= Reward
       THEN /\ allFees' = allFees - Reward
            /\ balance' = Credit(balance, v, Reward)
       ELSE UNCHANGED <<allFees, balance>>
    /\ todo' = todo \ {v}
    /\ UNCHANGED <<status, walletVars, feeVars, sendCommunity, escrow,
                   supplyVars, vals, phase, epoch, txs>>

\* the share of the coins left that epoch_burn_fees attributes to u
BurnShare(u) == FixedMul(allFees, feeMaker[u].epoch, epochFeesMade)

(***************************************************************************)
(* What epoch_burn_fees recycles: the shares of the fee makers who asked   *)
(* for it.  The list of match ratios is empty, since nothing in production *)
(* fills it, and match_and_recycle then returns the share to the fee       *)
(* account.                                                                *)
(***************************************************************************)
Recycled ==
    IF registry \cap sendCommunity = {} \/ allFees = 0 THEN 0
    ELSE MapThenSumSet(BurnShare, registry \cap sendCommunity)

(***************************************************************************)
(* burn::epoch_burn_fees, and burn_and_track for the dust: everything the  *)
(* rewards left is recycled or burned.  fixed_point32 aborts on a zero     *)
(* total when there is a fee maker to visit.                               *)
(***************************************************************************)
BurnFees ==
    /\ phase = "reward"
    /\ todo = {}
    /\ (allFees > 0 /\ registry # {}) => epochFeesMade > 0
    /\ supply' = supply - (allFees - Recycled)
    /\ burnCounter' = [burned   |-> burnCounter.burned + (allFees - Recycled),
                       recycled |-> burnCounter.recycled + Recycled]
    /\ collected' = collected + Recycled
    /\ allFees' = 0
    /\ phase' = "drip"
    /\ UNCHANGED <<status, balance, walletVars, feeMaker, registry,
                   epochFeesMade, sendCommunity, escrow, vals, todo,
                   epoch, txs>>

\* slow_wallets_to_unlock, and the wallets that get_slow_supply counts
Dripping == {a \in slow : IsAuthorized(a)}
Counted  == {a \in slow : IsAuthorized(a) /\ ~IsCommunityWallet(a)}

\* Faulty variant: the drip is not capped by the balance.
DrippedUncapped(a) == wallet[a].unlocked + DripAmount

\* the unlocked amount of a after a drip
Dripped(a) ==
    IF wallet[a].unlocked + DripAmount > balance[a]
    THEN balance[a]
    ELSE wallet[a].unlocked + DripAmount

\* slow_wallet::on_new_epoch: the drip, then update_slow_supply
DripSlowWallets ==
    /\ phase = "drip"
    /\ wallet' = [a \in Accounts |->
                    IF a \in Dripping
                    THEN [unlocked    |-> Dripped(a),
                          transferred |-> wallet[a].transferred]
                    ELSE wallet[a]]
    /\ slowSupply' =
         [total       |-> MapThenSumSet(LAMBDA a : balance[a], Counted),
          unlocked    |-> MapThenSumSet(LAMBDA a : Dripped(a), Counted),
          transferred |-> MapThenSumSet(LAMBDA a : wallet[a].transferred, Counted),
          daily_unlocked |-> IF Dripping = {} THEN slowSupply.daily_unlocked
                             ELSE MapThenSumSet(LAMBDA a : Dripped(a), Dripping)]
    /\ phase' = "charge"
    /\ UNCHANGED <<status, balance, slow, collected, feeMaker, registry,
                   epochFeesMade, sendCommunity, escrow, supplyVars, vals, todo,
                   allFees, epoch, txs>>

\* the new set is in office; charge_epoch_fees visits it
SeatValidators(seated) ==
    /\ phase = "charge"
    /\ vals' = seated
    /\ todo' = IF EntryFee = 0 THEN {} ELSE seated
    /\ phase' = "subsidy"
    /\ UNCHANGED <<status, balance, walletVars, feeVars, sendCommunity, escrow,
                   supplyVars, allFees, epoch, txs>>

\* transaction_fee::vm_multi_collect, one validator
ChargeEntryFee(v) ==
    /\ phase = "subsidy"
    /\ v \in todo
    /\ VmChargeFee(v, EntryFee)
    /\ todo' = todo \ {v}
    /\ UNCHANGED <<status, slow, slowSupply, sendCommunity, escrow, supplyVars,
                   vals, phase, allFees, epoch, txs>>

(***************************************************************************)
(* subsidize_from_infra_escrow: the pledge accounts give what they can of  *)
(* the budget of the next epoch, and the epoch is closed.                  *)
(***************************************************************************)
SubsidizeFromEscrow(got) ==
    /\ phase = "subsidy"
    /\ todo = {}
    /\ got <= Cardinality(vals) * Reward + 1
    /\ got <= escrow
    /\ escrow' = escrow - got
    /\ collected' = collected + got
    /\ phase' = "open"
    /\ epoch' = epoch + 1
    /\ UNCHANGED <<status, balance, walletVars, feeMaker, registry,
                   epochFeesMade, sendCommunity, supplyVars, vals, todo,
                   allFees, txs>>

\* the bound on epochs is reached
Halt ==
    /\ phase = "open"
    /\ epoch = MaxEpoch
    /\ UNCHANGED vars

-----------------------------------------------------------------------------
UserNext ==
    \/ \E p, r \in Accounts, x \in Amounts :
          \/ Transfer(p, r, x)
          \/ TransferWithCapability(p, r, x)
    \/ \E p \in Accounts, x \in Amounts :
          PayFee(p, x) \/ CollectGas(p, x)
    \/ \E a \in Accounts :
          UserSetSlow(a) \/ MaybeMigrate(a) \/ SetFriendlyFounder(a)
            \/ ReauthorizeWallet(a)
    \/ \E a \in Accounts, c \in BOOLEAN : SetSendCommunity(a, c)

BoundaryNext ==
    \/ \E s \in Safes : BillSafe(s)
    \/ EndBilling
    \/ \E p, r \in Accounts, x \in Amounts :
          PayDonorVoice(p, r, x) \/ VmTransfer(p, r, x)
    \/ \E p \in Accounts : LiquidateRest(p)
    \/ ResetFeeMakers
    \/ \E compliant \in SUBSET vals : SettleAccounts(compliant)
    \/ \E v \in Accounts : PayReward(v) \/ ChargeEntryFee(v)
    \/ BurnFees
    \/ DripSlowWallets
    \/ \E seated \in SUBSET Candidates : SeatValidators(seated)
    \/ \E got \in 0..escrow : SubsidizeFromEscrow(got)

Next == UserNext \/ BeginBoundary \/ BoundaryNext \/ Halt

(***************************************************************************)
(* The boundary is one transaction: once begun it is executed to its end.  *)
(* Nothing obliges a user to send a transaction or to trigger an epoch.    *)
(***************************************************************************)
Spec == Init /\ [][Next]_vars /\ WF_vars(BoundaryNext)

-----------------------------------------------------------------------------
\* Every variable keeps its type; slowSupply apart, whose parts are sums.
TypeOK ==
    /\ status \in [Accounts -> Statuses]
    /\ balance \in [Accounts -> Nat]
    /\ slow \subseteq Accounts
    /\ wallet \in [Accounts -> [unlocked : Nat, transferred : Nat]]
    /\ collected \in Nat
    /\ feeMaker \in [Accounts -> [epoch : Nat, lifetime : Nat]]
    /\ registry \subseteq Accounts
    /\ epochFeesMade \in Nat
    /\ sendCommunity \subseteq Accounts
    /\ escrow \in Nat
    /\ supply \in Int
    /\ burnCounter \in [burned : Nat, recycled : Nat]
    /\ vals \subseteq Candidates
    /\ phase \in Phases
    /\ todo \subseteq Accounts
    /\ allFees \in Nat
    /\ epoch \in Nat
    /\ txs \in Nat

(***************************************************************************)
(* The coins a slow wallet may spend are there: unlocked never exceeds the *)
(* balance (the TODO of maybe_track_unlocked_deposit), so a withdrawal     *)
(* within the limit never aborts on the coin store, whatever mix of gas,   *)
(* entry fees, drips and locked deposits the wallet has seen.              *)
(***************************************************************************)
UnlockedBacked == \A a \in slow : wallet[a].unlocked <= balance[a]

(***************************************************************************)
(* The supply in CoinInfo is the sum of every coin there is: user          *)
(* balances, collected fees, the escrow and the coin being settled.  No    *)
(* step of the boundary drops or duplicates a coin.                        *)
(***************************************************************************)
SupplyConserved ==
    supply = SumFunctionOnSet(balance, Accounts) + collected + escrow + allFees

\* Whatever left the supply since the start is in BurnCounter.lifetime_burned.
BurnsTracked == supply + burnCounter.burned = InitSupply

\* The fees that each account has paid in this epoch.
EpochFees == [a \in Accounts |-> feeMaker[a].epoch]

(***************************************************************************)
(* The registry of fee makers agrees with the FeeMaker of every account:   *)
(* its total is the sum of their epoch fees and nobody outside it has any. *)
(* Between boundaries the fees so attributed are in the fee account: entry *)
(* fees charged at the end of a boundary count, with their coins, for the  *)
(* epoch that opens.                                                       *)
(***************************************************************************)
FeeMakersAgree ==
    /\ epochFeesMade = SumFunctionOnSet(EpochFees, registry)
    /\ \A a \in Accounts \ registry : feeMaker[a].epoch = 0
    /\ phase = "open" => epochFeesMade <= collected

(***************************************************************************)
(* What a slow wallet has ever unlocked, unlocked + transferred, never     *)
(* decreases, except that a founder's migration starts it again.           *)
(***************************************************************************)
LifetimeUnlocked(a) == wallet[a].unlocked + wallet[a].transferred

LifetimeUnlockedGrows ==
    [][\A a \in slow :
         \/ LifetimeUnlocked(a)' >= LifetimeUnlocked(a)
         \/ status[a] \in {"v7", "lonely"} /\ MaybeMigrate(a)]_vars

(***************************************************************************)
(* A boundary that has begun ends: every loop of it terminates and no      *)
(* guard on its way stays false.                                           *)
(***************************************************************************)
BoundaryEnds == phase # "open" ~> phase = "open"

=============================================================================
