SPECIFICATION MCSpec
CONSTANTS
  Recorders = {1}
  MinSamples = 2
  ThresholdNum = 1
  ThresholdDen = 2
  WindowSeconds = 2
  InitialCooldown = 1
  MaxCooldown = 3
  HalfOpenProbeCalls = 1
  MaxOutcomes = 3
  MaxClock = 7
  FsObjects = {1}
  ChunkIds = {1, 2}
  ChunkLists <- MCChunkLists
  GcMax = 1
  MaxVersions = 3
  ExposureTasks = {1, 2}
  LanInterval = 1
  PublicInterval = 1
  TtlOffsets = {1, 2}
  MaxExposureTime = 3
  GrantCallers = {1, 2}
  GrantSubjects = {1}
  GrantIds = {1, 2}
  Expiries = {1, 2}
  MaxGrants = 3
  GpuTasks = {1, 2}
  GpuSubjects = {1, 2}
  VramTotal = 2
  VramSizes = {1, 2}
  MaxBindings = 3
  Blobs = {1, 2}
  Version <- MCVersion
  Signers = {"AiosPublisherSigned", "OperatorLocalSigned", "UnsignedRefused", "RevokedKey"}
  UpdateTasks = {1, 2, 3}
  Members = {1, 2}
  PostureFloor = 1
  MaxScore = 1
  MaxSignatures = 2
  MaxEvents = 7
  Hosts = {1, 2, 3}
  HostOrder <- MCHostOrder
  Backups <- MCBackups
  QuorumSize = 2
  Timeout = 1
  MaxTime = 3
  MaxHeartbeats = 3
  Nobody = Nobody
  Targets <- MCTargets
  Strategies = {"ALL_AT_ONCE", "CANARY", "ROLLING", "BLUE_GREEN"}
  CanaryShares = {0, 1, 9}
  BatchSize = 2
  Threshold = 80
  Jobs = {1, 2}
  OverlayHosts = {1, 2, 3}
  OverlayModes = {"HUB_AND_SPOKE", "FULL_MESH", "HYBRID_RELAYED_MESH"}
  NoCoordinator = NoCoordinator
  DagHosts = {1, 2}
  CheckpointHosts = {1}
  MaxNodes = 4
  MaxStored <- MCMaxStored
  MaxCheckpoints = 1
INVARIANTS ContentSafe TtlCosigned BooksMatchBindings HealthyIsRecent PlanCoversHosts
           TransferredWasApproved OneLead ReplicasSound EventsTellState
PROPERTIES CooldownSound RevokedStaysOut DowngradeWasStale RolledBackSettles
CHECK_DEADLOCK FALSE
