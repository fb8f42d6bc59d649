SPECIFICATION Spec
CONSTANTS
  x1 = x1 x2 = x2 x3 = x3 x4 = x4 x5 = x5
  Candidates = {x1, x2, x3, x4, x5}
  Family <- MCRelated
  SigChoices = {2, 3}
  VoteDays = {0}
  OfferDays = 1
  MINIMUM_SIGS = 2
  MINIMUM_AUTH = 3
  MIN_OFFER_CLAIMS_TO_CAGE = 2
  MAX_OFFER_ADDRESSES = 5
  MaxEpoch = 2
  MaxProposals = 3
SYMMETRY Symmetry
INVARIANTS ThresholdReachable AuthoritiesElected
