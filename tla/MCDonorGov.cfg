SPECIFICATION FairSpec
CONSTANTS
  w1 = w1 w2 = w2 d1 = d1 d2 = d2 a1 = a1 a2 = a2 p1 = p1 p2 = p2 o1 = o1 o2 = o2
  Wallets = {w1}
  Donors = {d1, d2}
  Authorities = {a1, a2}
  NumSigs = 2
  Payees = {p1, p2}
  Orders = {o1}
  Payee <- MCPayee
  Value <- MCValue
  InitSlow = {p1, p2}
  InitGifts <- MCGifts
  InitMandate = {w1}
  Amounts = {1}
  MinTurnout = 1250
  PaymentDays = 1
  VetoDays = 1
  LiquidationDays = 2
  ReauthDays = 1
  MinTallyDays = 1
  ProposalDays = 1
  MaxEpoch = 3
  MaxId = 1
  MaxGifts = 11
  MaxBallots <- MCGovernance
  Lapsing = {w1}
INVARIANTS BallotsBacked QuorumBehindOutcome
PROPERTIES MandateFromDonors
