SPECIFICATION MCSpec
CONSTANTS
  Recorders = {1}
  MinSamples = 2
  ThresholdNum = 1
  ThresholdDen = 2
  WindowSeconds = 2
  InitialCooldown = 1
  MaxCooldown = 3
  HalfOpenProbeCalls = 1
  MaxOutcomes = 1
  MaxClock = 1
  FsObjects = {1}
  ChunkIds = {1, 2}
  ChunkLists <- MCChunkLists
  GcMax = 1
  MaxVersions = 1
  ExposureTasks = {1}
  LanInterval = 1
  PublicInterval = 1
  TtlOffsets = {1, 2}
  MaxExposureTime = 1
  GrantCallers = {1}
  GrantSubjects = {1}
  GrantIds = {1, 2}
  Expiries = {1, 2}
  MaxGrants = 1
  GpuTasks = {1}
  GpuSubjects = {1, 2}
  VramTotal = 2
  VramSizes = {1, 2}
  MaxBindings = 1
  Blobs = {1, 2}
  Version <- MCVersion
  Signers = {"AiosPublisherSigned", "OperatorLocalSigned", "UnsignedRefused", "RevokedKey"}
  UpdateTasks = {1}
  Members = {1, 2}
  PostureFloor = 1
  MaxScore = 1
  MaxSignatures = 2
  MaxEvents = 7
  Hosts = {1, 2, 3}
  HostOrder <- MCHostOrder
  Backups <- MCBackups
  QuorumSize = 2
  Timeout = 1
  MaxTime = 1
  MaxHeartbeats = 1
  Nobody = Nobody
  Targets <- MCTargets
  Strategies = {"CANARY"}
  CanaryShares = {0, 1, 9}
  BatchSize = 2
  Threshold = 80
  Jobs = {1}
  OverlayHosts = {1, 2, 3}
  OverlayModes = {"FULL_MESH"}
  NoCoordinator = NoCoordinator
  DagHosts = {1, 2}
  CheckpointHosts = {1}
  MaxNodes = 4
  MaxStored <- MCMaxStored
  MaxCheckpoints = 1
INVARIANT AncestryEnds
CHECK_DEADLOCK FALSE
