SPECIFICATION Spec
CONSTANTS
  w1 = w1 w2 = w2 d1 = d1 d2 = d2 a1 = a1 a2 = a2 p1 = p1 p2 = p2 o1 = o1 o2 = o2
  Wallets = {w1}
  Donors = {d1, d2}
  Authorities = {a1, a2}
  NumSigs = 2
  Payees = {p1, p2}
  Orders = {o1, o2}
  Payee <- MCPayee
  Value <- MCValueMixed
  InitSlow = {p1}
  InitGifts <- MCGiftsLarge
  InitMandate = {w1}
  Amounts = {2, 4}
  MinTurnout = 1250
  PaymentDays = 2
  VetoDays = 2
  LiquidationDays = 1
  ReauthDays = 1
  MinTallyDays = 1
  ProposalDays = 1
  MaxEpoch = 4
  MaxId = 3
  MaxGifts = 1600
  MaxBallots <- MCVetoes
  Lapsing = {}
INVARIANTS ScheduledPayeesSlow LoanWithinCredit PaymentsInOnePlace WalletBooks FrozenHasCause
PROPERTIES SignedWhileValid PaidNotBeforeDeadline
