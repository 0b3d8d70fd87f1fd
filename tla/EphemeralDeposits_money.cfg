SPECIFICATION FairSpec
CONSTANTS
  Kinds <- MCKinds
  MaxFundAttempts = 1
  MaxPayments <- MCPayments MaxSends = 2 MaxTroubles = 1 MaxForces = 1
INVARIANTS TypeOK NeverCreditedTwice PurgedIsInTreasury SettledHasDeposit
PROPERTY CreditedIsSwept
CHECK_DEADLOCK FALSE
