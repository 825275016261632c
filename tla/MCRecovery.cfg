SPECIFICATION RecoverySpec
CONSTANTS
  web = web
  Operators = {1, 2, 3}
  MaxSessions = 2
  Candidates = {1, 2, 3}
  RecoveryOnly = {1}
  Installers = {1, 2}
  RollbackStackCapacity = 1
  NoCandidate = 0
  NPhases = 3
  MaxStageRecords = 6
  Provisioners = {1, 2}
  Components = {web}
  MeshRouted = {web}
  ScopeOf <- MCScopeOf
  MaxRetries = 1
  Observers = {1}
  NoComponent = NoComponent
INVARIANTS TokenMatchesSession RollbackStackSound StagesInOrder
PROPERTIES HealingProgresses
CHECK_DEADLOCK FALSE
