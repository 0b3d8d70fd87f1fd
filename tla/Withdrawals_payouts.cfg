SPECIFICATION FairSpec
CONSTANTS
  a1 = a1 a2 = a2
  NoDeposit = NoDeposit
  Deposits = {d1}
  Clients = {c1}
  Admins = {a1, a2}
  Loads <- MCLoads
  MaxRequests = 2 MaxEarned = 1
INVARIANTS TypeOK PaidOnce BooksBalance
PROPERTY ApprovedIsResolved
CHECK_DEADLOCK FALSE
