SPECIFICATION Spec
CONSTANTS
  d1 = d1 v1 = v1 v2 = v2
  Deposits = {d1}
  Vaults = {v1}
  VaultOf <- InFirst
  Referrers <- SomeReferrers
  Settlers = {cron, s1}
  Distributors = {cron}
  Cron = cron
  MaxCycles = 2 MaxFailures = 0 MaxChanges = 0
INVARIANT NeverDoubleCredited
CHECK_DEADLOCK FALSE
