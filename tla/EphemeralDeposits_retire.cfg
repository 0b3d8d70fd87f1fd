SPECIFICATION Spec
CONSTANTS
  Kinds <- MCTronOpen
  MaxFundAttempts = 1
  MaxPayments <- MCPayments MaxSends = 1 MaxTroubles = 0 MaxForces = 1
INVARIANT ExpiredIsUnpaid
CHECK_DEADLOCK FALSE
