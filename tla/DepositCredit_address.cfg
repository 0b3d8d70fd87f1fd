SPECIFICATION FairSpec
CONSTANTS
  NoTransfer = NoTransfer NoVault = NoVault
  Transfers = {t1}
  Scanners = {s1}
  Directs = {d1}
  QrCalls = {q1, q2}
  Vaults = {v1}
  VaultAsset <- MCVaultAsset
  Asset <- MCAsset
  MaxAttempts = 2 MaxFaults = 1 MaxCrashes = 1 MaxToggles = 1
INVARIANTS TypeOK BookedOnce CountedOnce FinalHasDeposit CreditedMeansBooked
PROPERTIES EventuallySettled ImplementsLedger
