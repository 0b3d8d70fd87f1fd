SPECIFICATION OutboxFairSpec
CONSTANTS
  Users = {u1, u2}
  Callers = {c1}
  MaxAttempts = 2 Batch = 2
  MaxPrincipal = 1 MaxChanges = 2 MaxJobs = 3
  MaxFaults = 2 MaxCrashes = 1
INVARIANT OutboxTypeOK
PROPERTIES HoldersCatchUp QueueDrains
