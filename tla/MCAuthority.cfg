SPECIFICATION MCSpec
CONSTANTS
  Requests = {1}
  Askers = {"human", "agent"}
  HardDenied <- MCHardDenied
  Versions = {1, 2}
  Admins = {a1, a2}
  Evaluators = {1}
  CacheCapacity = 2
  StackCapacity = 1
  MaxLoads = 2
  MaxRollbacks = 1
  MaxGrants = 1
  OverrideTtl = 1
  MaxNow = 1
  Caps = {1, 2}
  VaultTasks = {1, 2}
  VaultMaxNow = 1
  MaxUses = 1
  NoExpiry = NoExpiry
  Bindings = {1}
  OverrideTasks = {1, 2}
  OverrideMaxNow = 2
  Subjects = {1}
  SessionIds = {1, 2}
  CatalogTasks = {1, 2}
  CatalogMaxNow = 2
  MaxGroupCalls = 4
SYMMETRY MCSymmetry
INVARIANTS ServedSoundly EndsAudited IndexAgrees
PROPERTIES ConsumedWhileLive
CHECK_DEADLOCK FALSE
