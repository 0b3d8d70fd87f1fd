SPECIFICATION FairSpec
CONSTANTS
  u1 = u1 u2 = u2 c1 = c1 c2 = c2 m1 = m1 p1 = p1 NoPhrase = NoPhrase
  Users = {u1, u2}
  Requests = {c1, c2}
  Scripts = {m1}
  Phrases = {p1}
  Environments <- MCEnvironments
  MaxAttempts = 2 MaxIndex = 3 MaxRestarts = 1
  Transfers = {1, 2, 3, 4, 5, 6}
  To <- MCTo
  Tx <- MCTx
  Loads <- MCLoads
  Page = 3 Overlap = 1 Lag = 1 WarmEvery = 1 ColdEvery = 2
INVARIANTS TypeOK OneAddressEach CreditsExact
PROPERTY EverySeen
