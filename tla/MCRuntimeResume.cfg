SPECIFICATION Spec
CONSTANTS
  t1 = t1 t2 = t2 t3 = t3 a1 = a1 a2 = a2 b1 = b1 b2 = b2
  h1 = h1 h2 = h2 human = human agent = agent
  Tasks = {t1, t2, t3}
  Actions = {a1}
  Envelopes <- MCThreeEnvelopes
  RecoveryOnly <- MCRecoveryOnly
  Capacity = 2
  MaxSubmits = 1
  MaxResumes = 2
  Bindings = {b1, b2}
  Hashes = {h1, h2}
  Grantors = {human, agent}
  Ttls = {1}
  DefaultTtl = 2
  MaxTime = 1
  Absent = Absent
SYMMETRY MCSymmetry
INVARIANTS PipelineSound ExecutionAuthorised OneResumePerBinding PersistedChainSound
PROPERTIES RecordsFollowLifecycle
CHECK_DEADLOCK FALSE
