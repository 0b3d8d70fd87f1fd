SPECIFICATION FairSpec
CONSTANTS
  t1 = t1 t2 = t2
  Transfers = {t1, t2}
  Stablecoins = {"USDT", "USDC"}
  Fallback = TRUE
  FallbackChains = {"bep20"}
  Batch = 2
  MaxRows = 4
  Loads <- MCLoads
INVARIANTS TypeOK SweptNeverOverstated SweepsOnlyCredited
PROPERTIES BroadcastsReconciled TotalsHeal CreditedIsSwept
