SPECIFICATION FairSpec
CONSTANTS
  t1 = t1 t2 = t2 u1 = u1 u2 = u2
  Transfers = {t1, t2}
  To <- MCTo
  Token <- MCToken
  Tokens <- MCTokens
  Confirmations = 1 Span = 2 Chunk = 1
  Fresh = TRUE
  MaxStall = 1 MaxReorg = 1
  MaxHead = 5 MaxReorgs = 1 MaxFaults = 1 MaxRescans = 1
INVARIANTS TypeOK NoDepositSkipped NoPhantomCredit
PROPERTY EveryDepositSeen
