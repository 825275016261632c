-------------------------------- MODULE MCHosts --------------------------------
(* The services of one host that keep their own tables: the model circuit breaker, *)
(* AIOS-FS and its collector, network exposure and outbound grants, GPU resources, *)
(* firmware and package updates; and the drivers of the fleet the host belongs to, *)
(* which take memberships, nodes and reports as arguments.  No two of them share   *)
(* state, so a behaviour runs one of them, chosen at the start.                    *)
EXTENDS CircuitBreaker, AiosFs, NetworkExposure, OutboundGrants, GpuResources,
        FirmwareUpdate, AppUpdate, FleetMembership, FleetRecovery, FleetRollout,
        RemoteExecution, ClusterOverlay, DistributedEvidence

VARIABLE client

MCChunkLists == {<<1>>, <<1, 2>>, <<2, 2>>}
MCVersion == <<1, 2>>
MCHostOrder == <<1, 2, 3>>
\* An odd list that names two hosts twice; its last batch of two is short.
MCTargets == <<1, 2, 3, 2, 1>>
MCBackups == <<2, 3>>
\* A replica that can hold four nodes, and a peer that holds two.
MCMaxStored == <<4, 2>>

OtherThan(c) ==
    /\ c # "breaker" => UNCHANGED breakerVars
    /\ c # "fs" => UNCHANGED fsVars
    /\ c # "exposure" => UNCHANGED exposureVars
    /\ c # "grants" => UNCHANGED grantVars
    /\ c # "gpu" => UNCHANGED gpuVars
    /\ c # "firmware" => UNCHANGED firmwareVars
    /\ c # "update" => UNCHANGED updateVars
    /\ c # "membership" => UNCHANGED fleetVars
    /\ c # "recovery" => UNCHANGED recVars
    /\ c # "rollout" => UNCHANGED rolloutVars
    /\ c # "remote" => UNCHANGED jobVars
    /\ c # "overlay" => UNCHANGED overlayVars
    /\ c # "evidence" => UNCHANGED dagVars

MCInit ==
    /\ BreakerInit /\ FsInit /\ ExposureInit /\ GrantsInit /\ GpuInit /\ FirmwareInit /\ UpdateInit
    /\ FleetInit /\ FleetRecoveryInit /\ RolloutInit /\ RemoteInit /\ OverlayInit /\ DagInit
    /\ client \in {"breaker", "fs", "exposure", "grants", "gpu", "firmware", "update",
                   "membership", "recovery", "rollout", "remote", "overlay", "evidence"}
    /\ client # "firmware" => installed = 0
    /\ client # "rollout" => strategy = "CANARY"
    /\ client # "overlay" => mode = "FULL_MESH"

MCNext ==
    /\ \/ client = "breaker" /\ BreakerNext
       \/ client = "fs" /\ FsNext
       \/ client = "exposure" /\ ExposureNext
       \/ client = "grants" /\ GrantsNext
       \/ client = "gpu" /\ GpuNext
       \/ client = "firmware" /\ FirmwareNext
       \/ client = "update" /\ UpdateNext
       \/ client = "membership" /\ FleetNext
       \/ client = "recovery" /\ FleetRecoveryNext
       \/ client = "rollout" /\ RolloutNext
       \/ client = "remote" /\ RemoteNext
       \/ client = "overlay" /\ OverlayNext
       \/ client = "evidence" /\ DagNext
    /\ OtherThan(client)
    /\ UNCHANGED client

hostVars == <<breakerVars, fsVars, exposureVars, grantVars, gpuVars, firmwareVars, updateVars,
              fleetVars, recVars, rolloutVars, jobVars, overlayVars, dagVars, client>>

MCSpec == MCInit /\ [][MCNext]_hostVars
================================================================================
