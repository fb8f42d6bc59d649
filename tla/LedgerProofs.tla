---------------------------- MODULE LedgerProofs ----------------------------
(***************************************************************************)
(* Proofs about Ledger, for every set of accounts, every genesis and every *)
(* value of the parameters.                                                *)
(***************************************************************************)
EXTENDS Ledger, Sums

-----------------------------------------------------------------------------
(***************************************************************************)
(* Arithmetic of fixed_point32                                             *)
(***************************************************************************)

\* The quotient of naturals that fixed_point32 computes is a natural.
LEMMA DivNat == \A n \in Nat, d \in Nat \ {0} : n \div d \in Nat
  OBVIOUS

\* A product by a fixed_point32 ratio, as the security fee, is a natural.
LEMMA FixedMulNat ==
  ASSUME NEW x \in Nat, NEW n \in Nat, NEW d \in Nat \ {0}
  PROVE  FixedMul(x, n, d) \in Nat
<1>1. Scale \in Nat \ {0}
  BY LedgerAssumption
<1>2. n * Scale \in Nat
  BY <1>1
<1>3. (n * Scale) \div d \in Nat
  BY <1>2, DivNat
<1>4. x * ((n * Scale) \div d) \in Nat
  BY <1>3
<1>5. (x * ((n * Scale) \div d)) \div Scale \in Nat
  BY <1>1, <1>4, DivNat
<1> QED
  BY <1>5 DEF FixedMul

-----------------------------------------------------------------------------
(***************************************************************************)
(* Lemmas about the bookkeeping operators                                  *)
(***************************************************************************)

Balances == [Accounts -> Nat]
Wallets == [Accounts -> [unlocked : Nat, transferred : Nat]]

\* Withdrawing, depositing and tracking keep the shape of balances and wallets.
LEMMA DebitType ==
  ASSUME NEW b \in Balances, NEW a \in Accounts, NEW x \in Nat, x <= b[a]
  PROVE  Debit(b, a, x) \in Balances
BY DEF Balances, Debit

\* A deposit keeps every balance natural.
LEMMA CreditType ==
  ASSUME NEW b \in Balances, NEW a \in Accounts, NEW x \in Nat
  PROVE  Credit(b, a, x) \in Balances
BY DEF Balances, Credit

\* Tracking a withdrawal keeps the slow wallets well typed: it floors at zero.
LEMMA TrackWithdrawType ==
  ASSUME NEW w \in Wallets, NEW a \in Accounts, NEW x \in Nat
  PROVE  TrackWithdraw(w, a, x) \in Wallets
BY DEF Wallets, TrackWithdraw

\* Tracking a deposit keeps the slow wallets well typed.
LEMMA TrackDepositType ==
  ASSUME NEW w \in Wallets, NEW a \in Accounts, NEW x \in Nat
  PROVE  TrackDeposit(w, a, x) \in Wallets
BY DEF Wallets, TrackDeposit

\* Attributing a fee keeps the shape of the fee makers and their registry.
LEMMA TrackUserFeeType ==
  ASSUME TypeOK, NEW a \in Accounts, NEW x \in Nat, TrackUserFee(a, x)
  PROVE  /\ feeMaker' \in [Accounts -> [epoch : Nat, lifetime : Nat]]
         /\ registry' \subseteq Accounts
         /\ epochFeesMade' \in Nat
BY DEF TypeOK, TrackUserFee

-----------------------------------------------------------------------------
(***************************************************************************)
(* Type correctness.  The burn adds what is recycled to the fee account;   *)
(* that it is a natural rests on the registry being empty while the        *)
(* accounts are settled, so the two are proved together.                   *)
(***************************************************************************)

\* The registry is empty between its reset and the end of the burn.
RegistryReset == phase \in {"settle", "reward"} => registry = {}

\* settle_accounts holds coins only while it pays the rewards.
NothingWithdrawn == phase # "reward" => allFees = 0

TypeInv == TypeOK /\ RegistryReset /\ NothingWithdrawn

\* The first state is well typed.
LEMMA InitTypeInv == Init => TypeInv
BY LedgerAssumption, SMTT(30)
   DEF Init, TypeInv, TypeOK, RegistryReset, NothingWithdrawn, Phases, Statuses

\* Every user transaction preserves the types.
LEMMA UserStepTypeInv == TypeInv /\ UserNext => TypeInv'
<1> SUFFICES ASSUME TypeInv, UserNext PROVE TypeInv'
  OBVIOUS
<1> USE DEF TypeInv, TypeOK, RegistryReset, NothingWithdrawn, boundVars, UserTx
<1>b. balance \in Balances /\ wallet \in Wallets
  BY DEF Balances, Wallets
<1>a. Amounts \subseteq Nat
  BY LedgerAssumption
<1>1. ASSUME NEW p \in Accounts, NEW r \in Accounts, NEW x \in Amounts,
             Transfer(p, r, x)
      PROVE  TypeInv'
  <2>1. balance' \in Balances
    BY <1>1, <1>a, <1>b, DebitType, CreditType DEF Transfer
  <2>2. wallet' \in Wallets
    BY <1>1, <1>a, <1>b, TrackWithdrawType, TrackDepositType DEF Transfer
  <2>3. status' \in [Accounts -> Statuses]
    BY <1>1 DEF Transfer, Statuses
  <2> QED
    BY <1>1, <2>1, <2>2, <2>3
       DEF Transfer, Balances, Wallets, feeVars, supplyVars
<1>2. ASSUME NEW p \in Accounts, NEW r \in Accounts, NEW x \in Amounts,
             TransferWithCapability(p, r, x)
      PROVE  TypeInv'
  <2>1. balance' \in Balances
    BY <1>2, <1>a, <1>b, DebitType, CreditType DEF TransferWithCapability
  <2>2. wallet' \in Wallets
    BY <1>2, <1>a, <1>b, TrackWithdrawType, TrackDepositType
       DEF TransferWithCapability
  <2> QED
    BY <1>2, <2>1, <2>2
       DEF TransferWithCapability, Balances, Wallets, feeVars, supplyVars
<1>3. ASSUME NEW p \in Accounts, NEW x \in Amounts, PayFee(p, x)
      PROVE  TypeInv'
  <2>1. balance' \in Balances
    BY <1>3, <1>a, <1>b, DebitType DEF PayFee
  <2>2. wallet' \in Wallets
    BY <1>3, <1>a, <1>b, TrackWithdrawType DEF PayFee
  <2>3. /\ feeMaker' \in [Accounts -> [epoch : Nat, lifetime : Nat]]
        /\ registry' \subseteq Accounts
        /\ epochFeesMade' \in Nat
    BY <1>3, <1>a, TrackUserFeeType DEF PayFee
  <2> QED
    BY <1>3, <1>a, <2>1, <2>2, <2>3 DEF PayFee, Balances, Wallets, supplyVars
<1>4. ASSUME NEW p \in Accounts, NEW x \in Amounts, CollectGas(p, x)
      PROVE  TypeInv'
  <2>1. balance' \in Balances
    BY <1>4, <1>a, <1>b, DebitType DEF CollectGas
  <2>2. wallet' \in Wallets
    BY <1>4, <1>a, <1>b, TrackWithdrawType DEF CollectGas
  <2> QED
    BY <1>4, <1>a, <2>1, <2>2 DEF CollectGas, Balances, Wallets, supplyVars
<1>6. ASSUME NEW a \in Accounts, UserSetSlow(a) PROVE TypeInv'
  BY <1>6 DEF UserSetSlow, SetSlow, feeVars, supplyVars
<1>7. ASSUME NEW a \in Accounts, MaybeMigrate(a) PROVE TypeInv'
  BY <1>7 DEF MaybeMigrate, Statuses, feeVars, supplyVars
<1>8. ASSUME NEW a \in Accounts, SetFriendlyFounder(a) PROVE TypeInv'
  BY <1>8 DEF SetFriendlyFounder, Statuses, walletVars, feeVars, supplyVars
<1>9. ASSUME NEW a \in Accounts, ReauthorizeWallet(a) PROVE TypeInv'
  BY <1>9 DEF ReauthorizeWallet, Statuses, walletVars, feeVars, supplyVars
<1>10. ASSUME NEW a \in Accounts, NEW c \in BOOLEAN, SetSendCommunity(a, c)
       PROVE  TypeInv'
  BY <1>10 DEF SetSendCommunity, walletVars, feeVars, supplyVars
<1> QED
  BY <1>1, <1>2, <1>3, <1>4, <1>6, <1>7, <1>8, <1>9, <1>10 DEF UserNext

\* Every stage of the boundary preserves the types and the empty registry.
LEMMA BoundaryStepTypeInv ==
  TypeInv /\ (BeginBoundary \/ BoundaryNext) => TypeInv'
<1> SUFFICES ASSUME TypeInv, BeginBoundary \/ BoundaryNext PROVE TypeInv'
  OBVIOUS
<1> USE DEF TypeInv, TypeOK, RegistryReset, NothingWithdrawn, Phases
<1>b. balance \in Balances /\ wallet \in Wallets
  BY DEF Balances, Wallets
<1>a. /\ Amounts \subseteq Nat
      /\ Safes \subseteq Accounts
      /\ Candidates \subseteq Accounts
      /\ Reward \in Nat
      /\ EntryFee \in Nat
      /\ SafeFeeNum \in Nat
      /\ SafeFeeDen \in Nat \ {0}
      /\ DripAmount \in Nat
  BY LedgerAssumption
<1>c. ASSUME NEW a \in Accounts, NEW x \in Nat, VmChargeFee(a, x)
      PROVE  /\ balance' \in Balances
             /\ wallet' \in Wallets
             /\ collected' \in Nat
             /\ feeMaker' \in [Accounts -> [epoch : Nat, lifetime : Nat]]
             /\ registry' \subseteq Accounts
             /\ epochFeesMade' \in Nat
  <2>1. CASE x > balance[a]
    BY <1>c, <1>b, <2>1 DEF VmChargeFee, feeVars
  <2>2. CASE ~(x > balance[a])
    <3>1. x <= balance[a]
      BY <2>2
    <3>2. balance' \in Balances /\ wallet' \in Wallets
      BY <1>c, <1>b, <2>2, <3>1, DebitType, TrackWithdrawType DEF VmChargeFee
    <3>3. TrackUserFee(a, x) /\ collected' \in Nat
      BY <1>c, <2>2 DEF VmChargeFee
    <3> QED
      BY <3>2, <3>3, TrackUserFeeType
  <2> QED
    BY <2>1, <2>2
<1>1. CASE BeginBoundary
  BY <1>1, <1>a DEF BeginBoundary, walletVars, feeVars, supplyVars
<1>2. ASSUME NEW s \in Safes, BillSafe(s) PROVE TypeInv'
  <2>1. s \in Accounts /\ FixedMul(balance[s], SafeFeeNum, SafeFeeDen) \in Nat
    BY <1>a, FixedMulNat
  <2> QED
    BY <1>2, <1>c, <2>1 DEF BillSafe, Balances, Wallets, supplyVars
<1>3. CASE EndBilling
  BY <1>3 DEF EndBilling, walletVars, feeVars, supplyVars
<1>4. ASSUME NEW p \in Accounts, NEW r \in Accounts, NEW x \in Amounts,
             PayDonorVoice(p, r, x)
      PROVE  TypeInv'
  <2>1. balance' \in Balances
    BY <1>4, <1>a, <1>b, DebitType, CreditType DEF PayDonorVoice
  <2>2. wallet' \in Wallets
    BY <1>4, <1>a, <1>b, TrackWithdrawType DEF PayDonorVoice
  <2> QED
    BY <1>4, <2>1, <2>2
       DEF PayDonorVoice, Balances, Wallets, feeVars, supplyVars, boundVars
<1>5. ASSUME NEW p \in Accounts, NEW r \in Accounts, NEW x \in Amounts,
             VmTransfer(p, r, x)
      PROVE  TypeInv'
  <2>1. balance' \in Balances
    BY <1>5, <1>a, <1>b, DebitType, CreditType DEF VmTransfer
  <2>2. wallet' \in Wallets
    BY <1>5, <1>a, <1>b, TrackWithdrawType, TrackDepositType DEF VmTransfer
  <2> QED
    BY <1>5, <2>1, <2>2
       DEF VmTransfer, Balances, Wallets, feeVars, supplyVars, boundVars
<1>6. ASSUME NEW p \in Accounts, LiquidateRest(p) PROVE TypeInv'
  <2>1. balance' \in Balances
    BY <1>6, <1>b, DebitType DEF LiquidateRest
  <2>2. wallet' \in Wallets
    BY <1>6, <1>b, TrackWithdrawType DEF LiquidateRest
  <2> QED
    BY <1>6, <2>1, <2>2
       DEF LiquidateRest, Balances, Wallets, supplyVars, boundVars
<1>7. CASE ResetFeeMakers
  BY <1>7 DEF ResetFeeMakers, walletVars, supplyVars
<1>8. ASSUME NEW compliant \in SUBSET vals, SettleAccounts(compliant)
      PROVE  TypeInv'
  BY <1>8, <1>a DEF SettleAccounts, walletVars, supplyVars
<1>9. ASSUME NEW v \in Accounts, PayReward(v) PROVE TypeInv'
  <2>1. balance' \in Balances /\ allFees' \in Nat
    BY <1>9, <1>a, <1>b, CreditType DEF PayReward
  <2> QED
    BY <1>9, <2>1 DEF PayReward, Balances, walletVars, feeVars, supplyVars
<1>10. ASSUME NEW v \in Accounts, ChargeEntryFee(v) PROVE TypeInv'
  BY <1>10, <1>a, <1>c DEF ChargeEntryFee, Balances, Wallets, supplyVars
<1>11. CASE BurnFees
  <2>1. registry = {}
    BY <1>11 DEF BurnFees
  <2>2. Recycled = 0
    BY <2>1 DEF Recycled
  <2> QED
    BY <1>11, <2>2 DEF BurnFees, walletVars
<1>12. CASE DripSlowWallets
  <2>1. \A a \in Accounts : Dripped(a) \in Nat
    BY <1>a DEF Dripped
  <2>2. wallet' \in Wallets
    BY <1>12, <1>b, <2>1 DEF DripSlowWallets, Wallets
  <2> QED
    BY <1>12, <2>2 DEF DripSlowWallets, Wallets, supplyVars
<1>13. ASSUME NEW seated \in SUBSET Candidates, SeatValidators(seated)
       PROVE  TypeInv'
  BY <1>13, <1>a DEF SeatValidators, walletVars, feeVars, supplyVars
<1>14. ASSUME NEW got \in 0..escrow, SubsidizeFromEscrow(got) PROVE TypeInv'
  BY <1>14 DEF SubsidizeFromEscrow, walletVars, supplyVars
<1> QED
  BY <1>1, <1>2, <1>3, <1>4, <1>5, <1>6, <1>7, <1>8, <1>9, <1>10, <1>11,
     <1>12, <1>13, <1>14 DEF BoundaryNext

(***************************************************************************)
(* Type correctness of the ledger: no step of a user or of the boundary    *)
(* makes a balance, an unlocked amount or a fee negative.                  *)
(***************************************************************************)
THEOREM LedgerType == Spec => []TypeInv
<1>1. Init => TypeInv
  BY InitTypeInv
<1>2. TypeInv /\ [Next]_vars => TypeInv'
  <2>1. TypeInv /\ UNCHANGED vars => TypeInv'
    BY DEF TypeInv, TypeOK, RegistryReset, NothingWithdrawn, vars, walletVars, feeVars,
           supplyVars, boundVars
  <2> QED
    BY <2>1, UserStepTypeInv, BoundaryStepTypeInv DEF Next, Halt
<1> QED
  BY <1>1, <1>2, PTL DEF Spec

\* Every variable keeps its type: no unsigned amount is driven below zero by
\* any transaction or by any stage of the boundary.
THEOREM LedgerTypeOK == Spec => []TypeOK
<1>1. TypeInv => TypeOK
  BY DEF TypeInv
<1> QED
  BY <1>1, LedgerType, PTL

-----------------------------------------------------------------------------
(***************************************************************************)
(* Slow wallets are backed                                                 *)
(***************************************************************************)

Backed(b, w) == \A a \in slow : w[a].unlocked <= b[a]

\* A tracked withdrawal keeps every wallet backed, overdrawn or not.
LEMMA BackedWithdraw ==
  ASSUME NEW b \in Balances, NEW w \in Wallets, slow \subseteq Accounts,
         Backed(b, w), NEW a \in Accounts, NEW x \in Nat, x <= b[a]
  PROVE  Backed(Debit(b, a, x), TrackWithdraw(w, a, x))
BY DEF Balances, Wallets, Backed, Debit, TrackWithdraw

\* So does a tracked deposit, and a deposit that arrives locked.
LEMMA BackedDeposit ==
  ASSUME NEW b \in Balances, NEW w \in Wallets, slow \subseteq Accounts,
         Backed(b, w), NEW a \in Accounts, NEW x \in Nat
  PROVE  /\ Backed(Credit(b, a, x), TrackDeposit(w, a, x))
         /\ Backed(Credit(b, a, x), w)
BY DEF Balances, Wallets, Backed, Credit, TrackDeposit

\* A tracked transfer is the withdrawal followed by the deposit.
LEMMA BackedTransfer ==
  ASSUME NEW b \in Balances, NEW w \in Wallets, slow \subseteq Accounts,
         Backed(b, w), NEW p \in Accounts, NEW r \in Accounts,
         NEW x \in Nat, x <= b[p]
  PROVE  /\ Backed(Credit(Debit(b, p, x), r, x),
                   TrackDeposit(TrackWithdraw(w, p, x), r, x))
         /\ Backed(Credit(Debit(b, p, x), r, x), TrackWithdraw(w, p, x))
<1>1. /\ Debit(b, p, x) \in Balances
      /\ TrackWithdraw(w, p, x) \in Wallets
      /\ Backed(Debit(b, p, x), TrackWithdraw(w, p, x))
  BY DebitType, TrackWithdrawType, BackedWithdraw
<1> QED
  BY <1>1, BackedDeposit

\* Every step keeps the unlocked coins of every slow wallet backed.
LEMMA BackedStep == TypeInv /\ UnlockedBacked /\ Next => UnlockedBacked'
<1> SUFFICES ASSUME TypeInv, UnlockedBacked, Next PROVE UnlockedBacked'
  OBVIOUS
<1>t. /\ balance \in Balances /\ wallet \in Wallets /\ slow \subseteq Accounts
      /\ Backed(balance, wallet)
  BY DEF TypeInv, TypeOK, Balances, Wallets, UnlockedBacked, Backed
<1>a. /\ Amounts \subseteq Nat /\ Safes \subseteq Accounts
      /\ Reward \in Nat /\ EntryFee \in Nat /\ DripAmount \in Nat
      /\ SafeFeeNum \in Nat /\ SafeFeeDen \in Nat \ {0}
  BY LedgerAssumption
<1>k. ASSUME slow' = slow, Backed(balance', wallet') PROVE UnlockedBacked'
  BY <1>k DEF UnlockedBacked, Backed
<1>u. ASSUME UNCHANGED <<balance, wallet, slow>> PROVE UnlockedBacked'
  BY <1>u DEF UnlockedBacked
<1>c. ASSUME NEW a \in Accounts, NEW x \in Nat, VmChargeFee(a, x)
      PROVE  Backed(balance', wallet')
  BY <1>c, <1>t, BackedWithdraw DEF VmChargeFee, TypeInv, TypeOK
<1>1. ASSUME NEW p \in Accounts, NEW r \in Accounts, NEW x \in Amounts,
             \/ Transfer(p, r, x) \/ TransferWithCapability(p, r, x)
             \/ VmTransfer(p, r, x) \/ PayDonorVoice(p, r, x)
      PROVE  UnlockedBacked'
  <2>1. x \in Nat /\ x <= balance[p] /\ slow' = slow
    BY <1>1, <1>a
       DEF Transfer, TransferWithCapability, VmTransfer, PayDonorVoice
  <2>2. Backed(balance', wallet')
    BY <1>1, <1>t, <2>1, BackedTransfer
       DEF Transfer, TransferWithCapability, VmTransfer, PayDonorVoice
  <2> QED
    BY <1>k, <2>1, <2>2
<1>2. ASSUME NEW p \in Accounts, NEW x \in Amounts,
             PayFee(p, x) \/ CollectGas(p, x)
      PROVE  UnlockedBacked'
  <2>1. x \in Nat /\ x <= balance[p] /\ slow' = slow
    BY <1>2, <1>a DEF PayFee, CollectGas
  <2>2. Backed(balance', wallet')
    BY <1>2, <1>t, <2>1, BackedWithdraw DEF PayFee, CollectGas
  <2> QED
    BY <1>k, <2>1, <2>2
<1>3. ASSUME NEW a \in Accounts, UserSetSlow(a) PROVE UnlockedBacked'
  BY <1>3, <1>t
     DEF UserSetSlow, SetSlow, UnlockedBacked, Balances, Wallets
<1>4. ASSUME NEW a \in Accounts, MaybeMigrate(a) PROVE UnlockedBacked'
  BY <1>4, <1>t DEF MaybeMigrate, UnlockedBacked, Balances, Wallets
<1>5. ASSUME NEW p \in Accounts, LiquidateRest(p) PROVE UnlockedBacked'
  <2>1. balance[p] \in Nat /\ balance[p] <= balance[p] /\ slow' = slow
    BY <1>5, <1>t DEF LiquidateRest, Balances
  <2>2. Backed(balance', wallet')
    BY <1>5, <1>t, <2>1, BackedWithdraw DEF LiquidateRest
  <2> QED
    BY <1>k, <2>1, <2>2
<1>6. ASSUME NEW s \in Safes, BillSafe(s) PROVE UnlockedBacked'
  <2>1. s \in Accounts /\ FixedMul(balance[s], SafeFeeNum, SafeFeeDen) \in Nat
    BY <1>a, <1>t, FixedMulNat DEF Balances
  <2> QED
    BY <1>6, <1>c, <1>k, <2>1 DEF BillSafe
<1>7. ASSUME NEW v \in Accounts, ChargeEntryFee(v) PROVE UnlockedBacked'
  BY <1>7, <1>a, <1>c, <1>k DEF ChargeEntryFee
<1>8. ASSUME NEW v \in Accounts, PayReward(v) PROVE UnlockedBacked'
  <2>1. slow' = slow /\ wallet' = wallet
    BY <1>8 DEF PayReward, walletVars
  <2>2. balance' = balance \/ balance' = Credit(balance, v, Reward)
    BY <1>8 DEF PayReward
  <2>3. Backed(Credit(balance, v, Reward), wallet)
    BY <1>a, <1>t, BackedDeposit
  <2> QED
    BY <1>k, <1>t, <2>1, <2>2, <2>3
<1>9. CASE DripSlowWallets
  <2>1. \A a \in slow : Dripped(a) <= balance[a]
    BY <1>a, <1>t DEF Dripped, Balances, Wallets
  <2>2. \A a \in slow : wallet'[a].unlocked \in {Dripped(a), wallet[a].unlocked}
    BY <1>9, <1>t DEF DripSlowWallets
  <2> QED
    BY <1>9, <1>t, <2>1, <2>2 DEF DripSlowWallets, UnlockedBacked
<1>10. ASSUME NEW a \in Accounts,
              \/ SetFriendlyFounder(a) \/ ReauthorizeWallet(a)
              \/ \E c \in BOOLEAN : SetSendCommunity(a, c)
       PROVE  UnlockedBacked'
  BY <1>10, <1>u
     DEF SetFriendlyFounder, ReauthorizeWallet, SetSendCommunity, walletVars
<1>11. CASE BeginBoundary \/ EndBilling \/ ResetFeeMakers \/ BurnFees \/ Halt
  BY <1>11, <1>u
     DEF BeginBoundary, EndBilling, ResetFeeMakers, BurnFees, Halt, walletVars,
         vars
<1>12. ASSUME NEW compliant \in SUBSET vals, SettleAccounts(compliant)
       PROVE  UnlockedBacked'
  BY <1>12, <1>u DEF SettleAccounts, walletVars
<1>13. ASSUME NEW seated \in SUBSET Candidates, SeatValidators(seated)
       PROVE  UnlockedBacked'
  BY <1>13, <1>u DEF SeatValidators, walletVars
<1>14. ASSUME NEW got \in 0..escrow, SubsidizeFromEscrow(got)
       PROVE  UnlockedBacked'
  BY <1>14, <1>u DEF SubsidizeFromEscrow, walletVars
<1> QED
  BY <1>1, <1>2, <1>3, <1>4, <1>5, <1>6, <1>7, <1>8, <1>9, <1>10, <1>11,
     <1>12, <1>13, <1>14 DEF Next, UserNext, BoundaryNext

(***************************************************************************)
(* A slow wallet is always backed: what slow_wallet.move reports as        *)
(* unlocked can be withdrawn, after any mix of gas, entry fees, security   *)
(* fees, donor payments, rewards and drips.                                *)
(***************************************************************************)
THEOREM SlowWalletsBacked == Spec => []UnlockedBacked
<1>1. Init => UnlockedBacked
  BY LedgerAssumption DEF Init, UnlockedBacked
<1>2. TypeInv /\ UnlockedBacked /\ [Next]_vars => UnlockedBacked'
  <2>1. UnlockedBacked /\ UNCHANGED vars => UnlockedBacked'
    BY DEF UnlockedBacked, vars, walletVars
  <2> QED
    BY <2>1, BackedStep
<1> QED
  BY <1>1, <1>2, LedgerType, PTL DEF Spec

-----------------------------------------------------------------------------
(***************************************************************************)
(* Burning                                                                 *)
(***************************************************************************)

(***************************************************************************)
(* Every coin that left the supply is in BurnCounter.lifetime_burned: the  *)
(* boundary burns through burn_and_track only.                             *)
(***************************************************************************)
THEOREM EveryBurnTracked == Spec => []BurnsTracked
<1>1. Init => BurnsTracked
  BY LedgerAssumption DEF Init, BurnsTracked
<1>2. TypeInv /\ BurnsTracked /\ [Next]_vars => BurnsTracked'
  <2> SUFFICES ASSUME TypeInv, BurnsTracked, [Next]_vars PROVE BurnsTracked'
    OBVIOUS
  <2>1. CASE BurnFees
    <3>1. Recycled = 0
      BY <2>1 DEF BurnFees, Recycled, TypeInv, RegistryReset
    <3> QED
      BY <2>1, <3>1, LedgerAssumption
         DEF BurnFees, BurnsTracked, TypeInv, TypeOK
  <2>2. CASE UNCHANGED supplyVars
    BY <2>2 DEF BurnsTracked, supplyVars
  <2>3. UserNext => UNCHANGED supplyVars
    BY DEF UserNext, Transfer, TransferWithCapability, PayFee, CollectGas,
           UserSetSlow, MaybeMigrate, SetFriendlyFounder,
           ReauthorizeWallet, SetSendCommunity
  <2>4. BeginBoundary \/ BoundaryNext \/ Halt => BurnFees \/ UNCHANGED supplyVars
    BY DEF BeginBoundary, BoundaryNext, BillSafe, EndBilling, PayDonorVoice,
           VmTransfer, LiquidateRest, ResetFeeMakers, SettleAccounts,
           PayReward, ChargeEntryFee, DripSlowWallets, SeatValidators,
           SubsidizeFromEscrow, Halt, vars
  <2>5. UNCHANGED vars => UNCHANGED supplyVars
    BY DEF vars
  <2> QED
    BY <2>1, <2>2, <2>3, <2>4, <2>5 DEF Next
<1> QED
  BY <1>1, <1>2, LedgerType, PTL DEF Spec

-----------------------------------------------------------------------------
(***************************************************************************)
(* What a slow wallet has unlocked                                         *)
(***************************************************************************)

\* Tracking a withdrawal or a deposit never lowers unlocked + transferred.
LEMMA TrackGrows ==
  ASSUME NEW w \in Wallets, slow \subseteq Accounts, NEW p \in Accounts,
         NEW x \in Nat, NEW a \in slow
  PROVE  /\ TrackWithdraw(w, p, x)[a].unlocked
               + TrackWithdraw(w, p, x)[a].transferred
             >= w[a].unlocked + w[a].transferred
         /\ TrackDeposit(w, p, x)[a].unlocked
               + TrackDeposit(w, p, x)[a].transferred
             >= w[a].unlocked + w[a].transferred
BY DEF Wallets, TrackWithdraw, TrackDeposit

\* Whatever a step does to a slow wallet, a migration apart, it has not shrunk.
LEMMA LifetimeStep ==
  ASSUME TypeInv, UnlockedBacked, Next, NEW a \in slow
  PROVE  LifetimeUnlocked(a)' >= LifetimeUnlocked(a) \/ MaybeMigrate(a)
<1>t. /\ wallet \in Wallets /\ balance \in Balances /\ slow \subseteq Accounts
      /\ a \in Accounts
  BY DEF TypeInv, TypeOK, Wallets, Balances
<1>a. /\ Amounts \subseteq Nat /\ Safes \subseteq Accounts
      /\ EntryFee \in Nat /\ DripAmount \in Nat
      /\ SafeFeeNum \in Nat /\ SafeFeeDen \in Nat \ {0}
  BY LedgerAssumption
<1>u. ASSUME wallet'[a] = wallet[a]
      PROVE  LifetimeUnlocked(a)' >= LifetimeUnlocked(a)
  BY <1>u, <1>t DEF LifetimeUnlocked, Wallets
<1>w. ASSUME NEW p \in Accounts, NEW x \in Nat,
             wallet' = TrackWithdraw(wallet, p, x)
      PROVE  LifetimeUnlocked(a)' >= LifetimeUnlocked(a)
  BY <1>w, <1>t, TrackGrows DEF LifetimeUnlocked
<1>d. ASSUME NEW p \in Accounts, NEW r \in Accounts, NEW x \in Nat,
             wallet' = TrackDeposit(TrackWithdraw(wallet, p, x), r, x)
      PROVE  LifetimeUnlocked(a)' >= LifetimeUnlocked(a)
  <2> DEFINE w == TrackWithdraw(wallet, p, x)
  <2>1. w \in Wallets
    BY <1>t, TrackWithdrawType
  <2>2. w[a].unlocked + w[a].transferred
          >= wallet[a].unlocked + wallet[a].transferred
    BY <1>t, TrackGrows
  <2>3. wallet' \in Wallets
    BY <1>d, <2>1, TrackDepositType
  <2>4. wallet'[a].unlocked + wallet'[a].transferred
          >= w[a].unlocked + w[a].transferred
    BY <1>d, <1>t, <2>1, TrackGrows
  <2>5. /\ wallet[a].unlocked \in Nat /\ wallet[a].transferred \in Nat
        /\ w[a].unlocked \in Nat /\ w[a].transferred \in Nat
        /\ wallet'[a].unlocked \in Nat /\ wallet'[a].transferred \in Nat
    BY <1>t, <2>1, <2>3 DEF Wallets
  <2> QED
    BY <2>2, <2>4, <2>5 DEF LifetimeUnlocked
<1>c. ASSUME NEW p \in Accounts, NEW x \in Nat, VmChargeFee(p, x)
      PROVE  LifetimeUnlocked(a)' >= LifetimeUnlocked(a)
  BY <1>c, <1>u, <1>w DEF VmChargeFee
<1>1. ASSUME NEW p \in Accounts, NEW r \in Accounts, NEW x \in Amounts,
             \/ Transfer(p, r, x) \/ TransferWithCapability(p, r, x)
             \/ VmTransfer(p, r, x)
      PROVE  LifetimeUnlocked(a)' >= LifetimeUnlocked(a)
  BY <1>1, <1>a, <1>d DEF Transfer, TransferWithCapability, VmTransfer
<1>2. ASSUME NEW p \in Accounts, NEW r \in Accounts, NEW x \in Amounts,
             \/ PayDonorVoice(p, r, x) \/ PayFee(p, x) \/ CollectGas(p, x)
      PROVE  LifetimeUnlocked(a)' >= LifetimeUnlocked(a)
  BY <1>2, <1>a, <1>w DEF PayDonorVoice, PayFee, CollectGas
<1>3. ASSUME NEW p \in Accounts, UserSetSlow(p)
      PROVE  LifetimeUnlocked(a)' >= LifetimeUnlocked(a)
  <2>1. wallet'[a] = wallet[a]
    BY <1>3, <1>t DEF UserSetSlow, SetSlow, Wallets
  <2> QED
    BY <1>u, <2>1
<1>4. ASSUME NEW p \in Accounts, MaybeMigrate(p)
      PROVE  LifetimeUnlocked(a)' >= LifetimeUnlocked(a) \/ MaybeMigrate(a)
  <2>1. CASE p = a
    BY <1>4, <2>1
  <2>2. CASE p # a
    <3>1. wallet'[a] = wallet[a]
      BY <1>4, <1>t, <2>2 DEF MaybeMigrate, Wallets
    <3> QED
      BY <1>u, <3>1
  <2> QED
    BY <2>1, <2>2
<1>5. ASSUME NEW p \in Accounts, LiquidateRest(p)
      PROVE  LifetimeUnlocked(a)' >= LifetimeUnlocked(a)
  <2>1. balance[p] \in Nat
    BY <1>t DEF Balances
  <2> QED
    BY <1>5, <1>w, <2>1 DEF LiquidateRest
<1>6. ASSUME NEW s \in Safes, BillSafe(s)
      PROVE  LifetimeUnlocked(a)' >= LifetimeUnlocked(a)
  <2>1. s \in Accounts /\ FixedMul(balance[s], SafeFeeNum, SafeFeeDen) \in Nat
    BY <1>a, <1>t, FixedMulNat DEF Balances
  <2> QED
    BY <1>6, <1>c, <2>1 DEF BillSafe
<1>7. ASSUME NEW v \in Accounts, ChargeEntryFee(v)
      PROVE  LifetimeUnlocked(a)' >= LifetimeUnlocked(a)
  BY <1>7, <1>a, <1>c DEF ChargeEntryFee
<1>8. CASE DripSlowWallets
  <2>1. wallet[a].unlocked <= balance[a]
    BY DEF UnlockedBacked
  <2>2. Dripped(a) >= wallet[a].unlocked
    BY <1>a, <1>t, <2>1 DEF Dripped, Wallets, Balances
  <2>3. /\ wallet'[a].transferred = wallet[a].transferred
        /\ wallet'[a].unlocked \in {Dripped(a), wallet[a].unlocked}
    BY <1>8, <1>t DEF DripSlowWallets
  <2>4. /\ wallet[a].unlocked \in Nat /\ wallet[a].transferred \in Nat
        /\ Dripped(a) \in Nat
    BY <1>a, <1>t DEF Dripped, Wallets, Balances
  <2> QED
    BY <2>2, <2>3, <2>4 DEF LifetimeUnlocked
<1>9. ASSUME wallet' = wallet
      PROVE  LifetimeUnlocked(a)' >= LifetimeUnlocked(a)
  BY <1>9, <1>u
<1>10. ASSUME NEW p \in Accounts,
              \/ SetFriendlyFounder(p) \/ ReauthorizeWallet(p) \/ PayReward(p)
              \/ \E c \in BOOLEAN : SetSendCommunity(p, c)
       PROVE  wallet' = wallet
  BY <1>10 DEF SetFriendlyFounder, ReauthorizeWallet, PayReward,
               SetSendCommunity, walletVars
<1>11. \/ BeginBoundary \/ EndBilling \/ ResetFeeMakers \/ BurnFees \/ Halt
       \/ \E compliant \in SUBSET vals : SettleAccounts(compliant)
       \/ \E seated \in SUBSET Candidates : SeatValidators(seated)
       \/ \E got \in 0..escrow : SubsidizeFromEscrow(got)
       => wallet' = wallet
  BY DEF BeginBoundary, EndBilling, ResetFeeMakers, BurnFees, Halt,
         SettleAccounts, SeatValidators, SubsidizeFromEscrow, walletVars, vars
<1> QED
  BY <1>1, <1>2, <1>3, <1>4, <1>5, <1>6, <1>7, <1>8, <1>9, <1>10, <1>11
     DEF Next, UserNext, BoundaryNext

(***************************************************************************)
(* What a slow wallet has ever unlocked never shrinks, a migration apart.  *)
(* The drip is where this needs the wallet to be backed: it caps the       *)
(* unlocked amount at the balance.                                         *)
(***************************************************************************)
THEOREM LifetimeUnlockedNeverShrinks == Spec => LifetimeUnlockedGrows
<1>1. TypeInv /\ UnlockedBacked /\ Next
        => \A a \in slow :
             \/ LifetimeUnlocked(a)' >= LifetimeUnlocked(a)
             \/ status[a] \in {"v7", "lonely"} /\ MaybeMigrate(a)
  <2> SUFFICES ASSUME TypeInv, UnlockedBacked, Next, NEW a \in slow
               PROVE  \/ LifetimeUnlocked(a)' >= LifetimeUnlocked(a)
                      \/ status[a] \in {"v7", "lonely"} /\ MaybeMigrate(a)
    OBVIOUS
  <2>1. LifetimeUnlocked(a)' >= LifetimeUnlocked(a) \/ MaybeMigrate(a)
    BY LifetimeStep
  <2>2. MaybeMigrate(a) => status[a] \in {"v7", "lonely"}
    BY DEF MaybeMigrate
  <2> QED
    BY <2>1, <2>2
<1> QED
  BY <1>1, LedgerType, SlowWalletsBacked, PTL DEF Spec, LifetimeUnlockedGrows

-----------------------------------------------------------------------------
(***************************************************************************)
(* Conservation of the supply                                              *)
(***************************************************************************)

Total(b) == SumFunctionOnSet(b, Accounts)

\* The coins of all accounts are a natural number of coins.
LEMMA TotalNat ==
  ASSUME NEW b \in Balances
  PROVE  Total(b) \in Nat
BY SumNat, LedgerAssumption DEF Balances, Total

\* What is extracted from a coin store is missing from the total.
LEMMA DebitTotal ==
  ASSUME NEW b \in Balances, NEW a \in Accounts, NEW x \in Nat
  PROVE  Total(Debit(b, a, x)) = Total(b) - x
<1> DEFINE c == Debit(b, a, x)
<1>1. c[a] = b[a] - x /\ \A y \in Accounts : y # a => c[y] = b[y]
  BY DEF Debit, Balances
<1>2. b[a] \in Nat /\ c[a] \in Int /\ \A y \in Accounts : b[y] \in Int
  BY <1>1 DEF Balances
<1> HIDE DEF c
<1>3. Total(c) = Total(b) + (c[a] - b[a])
  BY <1>1, <1>2, SumChange, LedgerAssumption DEF Total
<1>4. QED
  BY <1>1, <1>2, <1>3, TotalNat DEF c

\* What is deposited in a coin store is added to the total.
LEMMA CreditTotal ==
  ASSUME NEW b \in Balances, NEW a \in Accounts, NEW x \in Nat
  PROVE  Total(Credit(b, a, x)) = Total(b) + x
<1> DEFINE c == Credit(b, a, x)
<1>1. c[a] = b[a] + x /\ \A y \in Accounts : y # a => c[y] = b[y]
  BY DEF Credit, Balances
<1>2. b[a] \in Nat /\ c[a] \in Int /\ \A y \in Accounts : b[y] \in Int
  BY <1>1 DEF Balances
<1> HIDE DEF c
<1>3. Total(c) = Total(b) + (c[a] - b[a])
  BY <1>1, <1>2, SumChange, LedgerAssumption DEF Total
<1>4. QED
  BY <1>1, <1>2, <1>3, TotalNat DEF c

\* A transfer, to oneself too, leaves the total alone.
LEMMA TransferTotal ==
  ASSUME NEW b \in Balances, NEW p \in Accounts, NEW r \in Accounts,
         NEW x \in Nat, x <= b[p]
  PROVE  Total(Credit(Debit(b, p, x), r, x)) = Total(b)
<1>1. Debit(b, p, x) \in Balances
  BY DebitType
<1>2. QED
  BY <1>1, DebitTotal, CreditTotal, TotalNat

\* The coins there are, wherever they are.
Coins == Total(balance) + collected + escrow + allFees

\* Every step moves coins and none but the burn changes their number, by what
\* it takes off the supply.
LEMMA SupplyStep == TypeInv /\ SupplyConserved /\ Next => SupplyConserved'
<1> SUFFICES ASSUME TypeInv, SupplyConserved, Next PROVE SupplyConserved'
  OBVIOUS
<1>t. /\ balance \in Balances /\ Total(balance) \in Nat
      /\ collected \in Nat /\ escrow \in Nat /\ allFees \in Nat
      /\ \A a \in Accounts : balance[a] \in Nat
  BY TotalNat DEF TypeInv, TypeOK, Balances
<1>a. /\ Amounts \subseteq Nat /\ Safes \subseteq Accounts
      /\ Reward \in Nat /\ EntryFee \in Nat
      /\ SafeFeeNum \in Nat /\ SafeFeeDen \in Nat \ {0}
  BY LedgerAssumption
<1>s. supply = Coins
  BY DEF SupplyConserved, Coins, Total
<1>k. ASSUME supply' = Coins' PROVE SupplyConserved'
  BY <1>k DEF SupplyConserved, Coins, Total
<1>u. ASSUME UNCHANGED <<balance, collected, escrow, allFees, supply>>
      PROVE  SupplyConserved'
  BY <1>u, <1>s, <1>k DEF Coins
<1>m. ASSUME Total(balance)' = Total(balance),
             UNCHANGED <<collected, escrow, allFees, supply>>
      PROVE  SupplyConserved'
  BY <1>m, <1>s, <1>k DEF Coins
<1>f. ASSUME NEW x \in Nat, Total(balance)' = Total(balance) - x,
             collected' = collected + x, UNCHANGED <<escrow, allFees, supply>>
      PROVE  SupplyConserved'
  BY <1>f, <1>s, <1>k, <1>t DEF Coins
<1>p. \A b : balance' = b => Total(balance)' = Total(b)
  BY DEF Total
<1>c. ASSUME NEW a \in Accounts, NEW x \in Nat, VmChargeFee(a, x),
             UNCHANGED <<escrow, allFees, supply>>
      PROVE  SupplyConserved'
  <2>1. CASE x > balance[a]
    BY <1>c, <1>u, <2>1 DEF VmChargeFee, feeVars
  <2>2. CASE ~(x > balance[a])
    <3>1. balance' = Debit(balance, a, x) /\ collected' = collected + x
      BY <1>c, <2>2 DEF VmChargeFee
    <3>2. Total(balance)' = Total(balance) - x
      BY <1>p, <1>t, <3>1, DebitTotal
    <3> QED
      BY <1>c, <1>f, <3>1, <3>2
  <2> QED
    BY <2>1, <2>2
<1>1. ASSUME NEW p \in Accounts, NEW r \in Accounts, NEW x \in Amounts,
             \/ Transfer(p, r, x) \/ TransferWithCapability(p, r, x)
             \/ VmTransfer(p, r, x) \/ PayDonorVoice(p, r, x)
      PROVE  SupplyConserved'
  <2>1. /\ x \in Nat /\ x <= balance[p]
        /\ balance' = Credit(Debit(balance, p, x), r, x)
        /\ UNCHANGED <<collected, escrow, allFees, supply>>
    BY <1>1, <1>a DEF Transfer, TransferWithCapability, VmTransfer,
       PayDonorVoice, UserTx, boundVars, feeVars, supplyVars
  <2>2. Total(balance)' = Total(balance)
    BY <1>p, <1>t, <2>1, TransferTotal
  <2> QED
    BY <1>m, <2>1, <2>2
<1>2. ASSUME NEW p \in Accounts, NEW x \in Amounts,
             PayFee(p, x) \/ CollectGas(p, x)
      PROVE  SupplyConserved'
  <2>1. /\ x \in Nat /\ balance' = Debit(balance, p, x)
        /\ collected' = collected + x
        /\ UNCHANGED <<escrow, allFees, supply>>
    BY <1>2, <1>a DEF PayFee, CollectGas, UserTx, boundVars, supplyVars
  <2>2. Total(balance)' = Total(balance) - x
    BY <1>p, <1>t, <2>1, DebitTotal
  <2> QED
    BY <1>f, <2>1, <2>2
<1>3. ASSUME NEW p \in Accounts, LiquidateRest(p) PROVE SupplyConserved'
  <2>1. /\ balance[p] \in Nat /\ balance' = Debit(balance, p, balance[p])
        /\ collected' = collected + balance[p]
        /\ UNCHANGED <<escrow, allFees, supply>>
    BY <1>3, <1>t DEF LiquidateRest, boundVars, supplyVars
  <2>2. Total(balance)' = Total(balance) - balance[p]
    BY <1>p, <1>t, <2>1, DebitTotal
  <2> QED
    BY <1>f, <2>1, <2>2
<1>4. ASSUME NEW s \in Safes, BillSafe(s) PROVE SupplyConserved'
  <2>1. s \in Accounts /\ FixedMul(balance[s], SafeFeeNum, SafeFeeDen) \in Nat
    BY <1>a, <1>t, FixedMulNat
  <2> QED
    BY <1>4, <1>c, <2>1 DEF BillSafe, supplyVars
<1>5. ASSUME NEW v \in Accounts, ChargeEntryFee(v) PROVE SupplyConserved'
  BY <1>5, <1>a, <1>c DEF ChargeEntryFee, supplyVars
<1>6. ASSUME NEW v \in Accounts, PayReward(v) PROVE SupplyConserved'
  <2>1. UNCHANGED <<collected, escrow, supply>>
    BY <1>6 DEF PayReward, feeVars, supplyVars
  <2>2. CASE allFees >= Reward
    <3>1. balance' = Credit(balance, v, Reward) /\ allFees' = allFees - Reward
      BY <1>6, <2>2 DEF PayReward
    <3>2. Total(balance)' = Total(balance) + Reward
      BY <1>a, <1>p, <1>t, <3>1, CreditTotal
    <3> QED
      BY <1>a, <1>k, <1>s, <1>t, <2>1, <3>1, <3>2 DEF Coins
  <2>3. CASE ~(allFees >= Reward)
    BY <1>6, <1>u, <2>1, <2>3 DEF PayReward
  <2> QED
    BY <2>2, <2>3
<1>7. ASSUME NEW compliant \in SUBSET vals, SettleAccounts(compliant)
      PROVE  SupplyConserved'
  <2>1. /\ allFees' = collected /\ collected' = 0
        /\ UNCHANGED <<balance, escrow, supply>>
    BY <1>7 DEF SettleAccounts, supplyVars
  <2>2. allFees = 0
    BY <1>7 DEF SettleAccounts, TypeInv, NothingWithdrawn
  <2> QED
    BY <1>k, <1>s, <1>t, <2>1, <2>2 DEF Coins
<1>8. CASE BurnFees
  <2>1. Recycled = 0
    BY <1>8 DEF BurnFees, Recycled, TypeInv, RegistryReset
  <2>2. /\ supply' = supply - allFees /\ collected' = collected /\ allFees' = 0
        /\ UNCHANGED <<balance, escrow>>
    BY <1>8, <1>t, <2>1 DEF BurnFees
  <2> QED
    BY <1>k, <1>s, <1>t, <2>2 DEF Coins
<1>9. ASSUME NEW got \in 0..escrow, SubsidizeFromEscrow(got)
      PROVE  SupplyConserved'
  <2>1. /\ escrow' = escrow - got /\ collected' = collected + got
        /\ UNCHANGED <<balance, allFees, supply>>
    BY <1>9 DEF SubsidizeFromEscrow, supplyVars
  <2> QED
    BY <1>k, <1>s, <1>t, <2>1 DEF Coins
<1>10. ASSUME NEW a \in Accounts,
              \/ UserSetSlow(a) \/ MaybeMigrate(a)
              \/ SetFriendlyFounder(a) \/ ReauthorizeWallet(a)
              \/ \E c \in BOOLEAN : SetSendCommunity(a, c)
       PROVE  SupplyConserved'
  BY <1>10, <1>u
     DEF UserSetSlow, MaybeMigrate, SetFriendlyFounder, ReauthorizeWallet,
         SetSendCommunity, UserTx, boundVars, feeVars, supplyVars
<1>11. CASE BeginBoundary \/ EndBilling \/ ResetFeeMakers
              \/ DripSlowWallets \/ Halt
  BY <1>11, <1>u
     DEF BeginBoundary, EndBilling, ResetFeeMakers, DripSlowWallets, Halt,
         vars, boundVars, feeVars, supplyVars
<1>12. ASSUME NEW seated \in SUBSET Candidates, SeatValidators(seated)
       PROVE  SupplyConserved'
  BY <1>12, <1>u DEF SeatValidators, feeVars, supplyVars
<1> QED
  BY <1>1, <1>2, <1>3, <1>4, <1>5, <1>6, <1>7, <1>8, <1>9, <1>10, <1>11,
     <1>12 DEF Next, UserNext, BoundaryNext

(***************************************************************************)
(* The supply in CoinInfo is at every moment the number of coins held in   *)
(* all coin stores, in the fee account, in the infra escrow and in the     *)
(* hands of settle_accounts, for any number of accounts.                   *)
(***************************************************************************)
THEOREM SupplyIsConserved == Spec => []SupplyConserved
<1>1. Init => SupplyConserved
  <2>1. SumFunctionOnSet(InitBalance, Accounts) \in Nat
    BY LedgerAssumption, TotalNat DEF Balances, Total
  <2> QED
    BY <2>1, LedgerAssumption, GenesisSupply DEF Init, SupplyConserved
<1>2. TypeInv /\ SupplyConserved /\ [Next]_vars => SupplyConserved'
  <2>1. SupplyConserved /\ UNCHANGED vars => SupplyConserved'
    BY DEF SupplyConserved, vars, feeVars, supplyVars, boundVars
  <2> QED
    BY <2>1, SupplyStep
<1> QED
  BY <1>1, <1>2, LedgerType, PTL DEF Spec

-----------------------------------------------------------------------------
(***************************************************************************)
(* The fee makers and their registry.  Between boundaries the attributed   *)
(* fees are in the fee account; for that to be inductive it is stated in   *)
(* every phase.  settle_accounts, which empties the account, keeps it      *)
(* because the registry was reset before.                                  *)
(***************************************************************************)

FeesAgree ==
    /\ epochFeesMade = SumFunctionOnSet(EpochFees, registry)
    /\ \A a \in Accounts \ registry : feeMaker[a].epoch = 0
    /\ epochFeesMade <= collected

\* Attributing a fee to an account, registered or not, keeps the total of the
\* registry and leaves nothing outside it.
LEMMA TrackUserFeeAgrees ==
  ASSUME TypeInv, FeesAgree, NEW a \in Accounts, NEW x \in Nat,
         TrackUserFee(a, x)
  PROVE  /\ epochFeesMade' = SumFunctionOnSet(EpochFees, registry)'
         /\ \A b \in Accounts \ registry' : feeMaker'[b].epoch = 0
<1> DEFINE f == EpochFees
           g == EpochFees'
<1>t. /\ feeMaker \in [Accounts -> [epoch : Nat, lifetime : Nat]]
      /\ registry \subseteq Accounts /\ IsFiniteSet(registry)
  BY FS_Subset, LedgerAssumption DEF TypeInv, TypeOK
<1>1. /\ g[a] = f[a] + x
      /\ \A b \in Accounts : b # a => g[b] = f[b]
      /\ \A b \in Accounts : f[b] \in Nat /\ g[b] \in Nat
  BY <1>t DEF TrackUserFee, EpochFees
<1>2. \A b \in Accounts \ registry' : feeMaker'[b].epoch = 0
  BY <1>t DEF TrackUserFee, FeesAgree
<1>3. epochFeesMade = SumFunctionOnSet(f, registry)
  BY DEF FeesAgree
<1>4. f[a] = 0 \/ a \in registry
  BY DEF FeesAgree, EpochFees
<1>7. SumFunctionOnSet(EpochFees, registry)' = SumFunctionOnSet(g, registry \cup {a})
  BY DEF TrackUserFee
<1> HIDE DEF f, g
<1>8. SumFunctionOnSet(f, registry) \in Nat
  BY <1>1, <1>t, SumNat
<1>5. CASE a \in registry
  <2>1. registry \cup {a} = registry
    BY <1>5
  <2>2. SumFunctionOnSet(g, registry)
          = SumFunctionOnSet(f, registry) + (g[a] - f[a])
    <3>1. (\A b \in registry : f[b] \in Int) /\ g[a] \in Int
      BY <1>1, <1>t
    <3>2. \A b \in registry : b # a => g[b] = f[b]
      BY <1>1, <1>t
    <3> QED
      BY <1>5, <1>t, <3>1, <3>2, SumChange
  <2>3. SumFunctionOnSet(g, registry) = epochFeesMade + x
    BY <1>1, <1>3, <1>8, <2>2
  <2> QED
    BY <1>2, <1>7, <2>1, <2>3 DEF TrackUserFee
<1>6. CASE a \notin registry
  <2>1. SumFunctionOnSet(g, registry \cup {a}) = SumFunctionOnSet(g, registry) + g[a]
    <3>1. \A b \in registry \cup {a} : g[b] \in Int
      BY <1>1, <1>t
    <3> QED
      BY <1>6, <1>t, <3>1, SumAdd
  <2>2. SumFunctionOnSet(g, registry) = SumFunctionOnSet(f, registry)
    <3>1. \A b \in registry : f[b] \in Int /\ g[b] = f[b]
      BY <1>1, <1>6, <1>t
    <3> QED
      BY <1>t, <3>1, SumSame
  <2>3. SumFunctionOnSet(g, registry \cup {a}) = epochFeesMade + x
    BY <1>1, <1>3, <1>4, <1>6, <1>8, <2>1, <2>2
  <2> QED
    BY <1>2, <1>7, <2>3 DEF TrackUserFee
<1> QED
  BY <1>5, <1>6

\* Every step keeps the registry and the fee makers in agreement.
LEMMA FeesAgreeStep == TypeInv /\ FeesAgree /\ Next => FeesAgree'
<1> SUFFICES ASSUME TypeInv, FeesAgree, Next PROVE FeesAgree'
  OBVIOUS
<1>t. /\ collected \in Nat /\ epochFeesMade \in Nat /\ allFees \in Nat
      /\ \A a \in Accounts : balance[a] \in Nat
  BY DEF TypeInv, TypeOK
<1>a. /\ Amounts \subseteq Nat /\ Safes \subseteq Accounts
      /\ EntryFee \in Nat /\ SafeFeeNum \in Nat /\ SafeFeeDen \in Nat \ {0}
  BY LedgerAssumption
<1>u. ASSUME UNCHANGED <<feeMaker, registry, epochFeesMade>>,
             collected' \in Nat, collected' >= collected
      PROVE  FeesAgree'
  BY <1>u, <1>t DEF FeesAgree, EpochFees
<1>v. ASSUME UNCHANGED feeVars PROVE FeesAgree'
  BY <1>v, <1>t, <1>u DEF feeVars
<1>p. ASSUME NEW a \in Accounts, NEW x \in Nat, TrackUserFee(a, x),
             collected' = collected + x
      PROVE  FeesAgree'
  <2>1. epochFeesMade' <= collected'
    BY <1>p, <1>t DEF TrackUserFee, FeesAgree
  <2>2. /\ epochFeesMade' = SumFunctionOnSet(EpochFees, registry)'
        /\ \A b \in Accounts \ registry' : feeMaker'[b].epoch = 0
    BY <1>p, TrackUserFeeAgrees
  <2> QED
    BY <2>1, <2>2 DEF FeesAgree
<1>c. ASSUME NEW a \in Accounts, NEW x \in Nat, VmChargeFee(a, x)
      PROVE  FeesAgree'
  BY <1>c, <1>p, <1>v DEF VmChargeFee
<1>1. ASSUME NEW p \in Accounts, NEW x \in Amounts, PayFee(p, x)
      PROVE  FeesAgree'
  BY <1>1, <1>a, <1>p DEF PayFee
<1>2. ASSUME NEW p \in Accounts, NEW x \in Amounts, CollectGas(p, x)
      PROVE  FeesAgree'
  BY <1>2, <1>a, <1>t, <1>u DEF CollectGas
<1>3. ASSUME NEW p \in Accounts, LiquidateRest(p) PROVE FeesAgree'
  BY <1>3, <1>t, <1>u DEF LiquidateRest
<1>4. ASSUME NEW s \in Safes, BillSafe(s) PROVE FeesAgree'
  <2>1. s \in Accounts /\ FixedMul(balance[s], SafeFeeNum, SafeFeeDen) \in Nat
    BY <1>a, <1>t, FixedMulNat
  <2> QED
    BY <1>4, <1>c, <2>1 DEF BillSafe
<1>5. ASSUME NEW v \in Accounts, ChargeEntryFee(v) PROVE FeesAgree'
  BY <1>5, <1>a, <1>c DEF ChargeEntryFee
<1>6. CASE ResetFeeMakers
  <2>1. registry' = {} /\ epochFeesMade' = 0 /\ collected' = collected
    BY <1>6 DEF ResetFeeMakers
  <2>2. SumFunctionOnSet(EpochFees, registry)' = 0
    <3>1. SumFunctionOnSet(EpochFees, registry)' = SumFunctionOnSet(EpochFees', {})
      BY <2>1
    <3> QED
      BY <3>1, SumEmpty
  <2>3. \A b \in Accounts : feeMaker'[b].epoch = 0
    BY <1>6 DEF ResetFeeMakers, FeesAgree
  <2> QED
    BY <1>t, <2>1, <2>2, <2>3 DEF FeesAgree
<1>7. ASSUME NEW compliant \in SUBSET vals, SettleAccounts(compliant)
      PROVE  FeesAgree'
  <2>1. registry = {}
    BY <1>7 DEF SettleAccounts, TypeInv, RegistryReset
  <2>2. epochFeesMade = 0
    BY <2>1, SumEmpty DEF FeesAgree
  <2>3. collected' = 0 /\ UNCHANGED <<feeMaker, registry, epochFeesMade>>
    BY <1>7 DEF SettleAccounts
  <2> QED
    BY <2>2, <2>3 DEF FeesAgree, EpochFees
<1>8. CASE BurnFees
  <2>1. Recycled = 0
    BY <1>8 DEF BurnFees, Recycled, TypeInv, RegistryReset
  <2> QED
    BY <1>8, <1>t, <1>u, <2>1 DEF BurnFees
<1>9. ASSUME NEW got \in 0..escrow, SubsidizeFromEscrow(got) PROVE FeesAgree'
  BY <1>9, <1>t, <1>u DEF SubsidizeFromEscrow, TypeInv, TypeOK
<1>10. ASSUME NEW p \in Accounts, NEW r \in Accounts, NEW x \in Amounts,
             \/ Transfer(p, r, x) \/ TransferWithCapability(p, r, x)
             \/ VmTransfer(p, r, x) \/ PayDonorVoice(p, r, x)
      PROVE  FeesAgree'
  BY <1>10, <1>v
     DEF Transfer, TransferWithCapability, VmTransfer, PayDonorVoice
<1>11. ASSUME NEW a \in Accounts,
              \/ UserSetSlow(a) \/ MaybeMigrate(a) \/ PayReward(a)
              \/ SetFriendlyFounder(a) \/ ReauthorizeWallet(a)
              \/ \E c \in BOOLEAN : SetSendCommunity(a, c)
       PROVE  FeesAgree'
  BY <1>11, <1>v
     DEF UserSetSlow, MaybeMigrate, SetFriendlyFounder, ReauthorizeWallet,
         SetSendCommunity, PayReward
<1>12. CASE BeginBoundary \/ EndBilling \/ DripSlowWallets \/ Halt
  BY <1>12, <1>v
     DEF BeginBoundary, EndBilling, DripSlowWallets, Halt, vars, feeVars
<1>13. ASSUME NEW seated \in SUBSET Candidates, SeatValidators(seated)
       PROVE  FeesAgree'
  BY <1>13, <1>v DEF SeatValidators
<1> QED
  BY <1>1, <1>2, <1>3, <1>4, <1>5, <1>6, <1>7, <1>8, <1>9, <1>10, <1>11,
     <1>12, <1>13 DEF Next, UserNext, BoundaryNext

(***************************************************************************)
(* fee_maker.move's registry agrees with the FeeMaker of every account for *)
(* any number of accounts, and the fees it attributes are in the fee       *)
(* account whenever a user can act.                                        *)
(***************************************************************************)
THEOREM FeeMakersAlwaysAgree == Spec => []FeeMakersAgree
<1>1. Init => FeesAgree
  <2>1. SumFunctionOnSet(EpochFees, {}) = 0
    BY SumEmpty
  <2> QED
    BY <2>1 DEF Init, FeesAgree
<1>2. TypeInv /\ FeesAgree /\ [Next]_vars => FeesAgree'
  <2>1. FeesAgree /\ UNCHANGED vars => FeesAgree'
    BY DEF FeesAgree, EpochFees, vars, feeVars
  <2> QED
    BY <2>1, FeesAgreeStep
<1>3. FeesAgree => FeeMakersAgree
  BY DEF FeesAgree, FeeMakersAgree
<1> QED
  BY <1>1, <1>2, <1>3, LedgerType, PTL DEF Spec
=============================================================================
