SPECIFICATION FairSpec
CONSTANTS
  d1 = d1 v1 = v1 v2 = v2
  Deposits = {d1}
  Vaults = {v1, v2}
  VaultOf <- InFirst
  Referrers <- SomeReferrers
  Settlers = {cron, s1}
  Distributors = {cron}
  Cron = cron
  MaxCycles = 2 MaxFailures = 1 MaxChanges = 1
INVARIANTS TypeOK RecordsAgree
PROPERTY CyclesMature
CHECK_DEADLOCK FALSE
