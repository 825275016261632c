SPECIFICATION DispatchSpec
CONSTANTS
  Tasks = {t1, t2}
  Subjects = {s1}
  Classes = {"Interactive", "AgentProposal"}
  Capacity <- MCCapacity
  BurstCapacity = 2
  TokenCost = 2
  RefillPerTick = 1
  QueueMaxTime = 5
  MaxAttempts = 5
  q1 = q1  q2 = q2  b1 = b1  b2 = b2  h1 = h1  g1 = g1
  Requests = {q1, q2}
  Bindings = {b1, b2}
  Hashes = {h1}
  Grantors = {g1}
  Ttls = {0, 1}
  DefaultTtl = 2
  MaxTime = 3
  Absent = Absent
  c1 = c1  c2 = c2
  Capsules = {c1, c2}
  Sweepers = {w1}
  Actions = {a1}
  Policies = {"AutoDeny", "ClassifiedOnly", "Delegated"}
  Kinds <- MCKinds
  Timeout = 1
  GateMaxTime = 1
  MaxEscalations = 1
  None = None
SYMMETRY MCSymmetry
INVARIANTS RateEnvelope QueueSound ConsumedOnce DecisionsJustified
CHECK_DEADLOCK FALSE
