SPECIFICATION FairSpec
CONSTANTS
  u1 = u1 u2 = u2 w1 = w1 w2 = w2 i1 = i1 i2 = i2 p1 = p1 p2 = p2 c1 = c1 c2 = c2
  NoWallet = NoWallet
  Users = {u1, u2}
  Wallets = {w1, w2}
  Calls = {c1, c2}
  Events = {1, 2}
  Intents = {i1, i2}
  Polls = {p1, p2}
  Tx <- MCTx
  Payer <- MCPayer
  Owner <- MCOwner
  Loads <- MCLoads
INVARIANTS TypeOK BooksFollow
PROPERTIES LinkedStays EventBooked
CHECK_DEADLOCK FALSE
