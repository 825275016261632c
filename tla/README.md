# TLA+ specifications of AIOS (AI-Native Linux)

These modules specify the core of the AIOS runtime in TLA+: how an action is
submitted, approved, queued, executed and recorded, and how the evidence log
keeps what was recorded. TLC checks them on small instances, and TLAPS proves
the most important invariants for every instance.

## The system

The repository is a Cargo workspace of 36 crates in layers L0 to L10. The part
everything else goes through is a chain of four:

1. **Capability runtime** (L3, `aios-capability-runtime`). `submit_action` drives
   an action envelope through an eight-step pipeline: validate, policy,
   approval, queue, execute, verify, roll back, store. An action the policy
   sends to a human parks at `APPROVAL_PENDING`; `resume_with_binding` continues
   it once an operator has granted a binding.
2. **Approval** (`approval_sink.rs`, `approval_gate.rs`). The sink stores requests
   and single-use bindings with a time to live. The gate decides by policy, parks
   requests for a person, and times them out.
3. **Dispatch queue** (`dispatch_queue.rs`). Four FIFO classes with capacities, a
   hard cap for agents, a token bucket per subject.
4. **Evidence log** (L9, `aios-evidence`). An append-only chain of signed receipts,
   cut into sealed segments that link to each other, with a live subscription, a
   RocksDB backend that survives restarts, and a worker that compacts old segments.

Around it are the services that say what may be done (policy kernel, vault,
overrides, identities), that keep a host running (recovery boundary, kernel
slots, first boot, self-healing, the service graph), that own a host's resources
(AIOS-FS, network exposure, outbound grants, GPU, firmware, packages, the model
breaker) and that tie hosts to a fleet (membership, coordinator, rollout, remote
execution, overlay, distributed evidence).

Every RPC is a tokio task. Tasks share state only through short critical
sections, mostly one lock at a time, so the questions worth asking are about what
happens *between* two locks, across an error return, and across a crash. The
fleet drivers are called with `&mut self` or one lock per call: there the
questions are about long sequences of legal calls and about late messages.

`PROJECT.json` lists every part of the repository under "components", the
hazards with their source lines, the map from definitions to source lines, and
the mutants: for every checked property, a plausible bug that breaks it.

## Modules

| Module | Models | Source |
|---|---|---|
| `DispatchQueue` | enrolment, dequeue, token buckets | `dispatch_queue.rs` |
| `ApprovalSink` | requests and bindings | `approval_sink.rs`, `approval.rs` |
| `ApprovalGate` | policy decisions, manual decisions, timeout sweep | `approval_gate.rs` |
| `ActionLifecycle` | abstract: what `get_action_status` may show | `runtime.rs` |
| `CapabilityRuntime` | the lifecycle table; the two RPCs over pipeline, sink, registry, queue, evidence chain | `runtime.rs`, `pipeline.rs`, `status.rs`, `evidence_emit.rs`, `adapter_registry.rs`, `dispatcher.rs` |
| `AppendOnlyLog` | abstract: a log that only grows | |
| `ChainOrder` | segments read as one log: entries, their order, their rank | `chain.rs` |
| `EvidenceStream` | in-memory log, seals, subscriptions | `service/impl_inmemory.rs` |
| `DurableEvidenceLog` | RocksDB log, compaction worker, crashes | `persistence/`, `compaction.rs` |
| `PolicyKernel` | bundles, decision cache, override grants | `aios-policy/src/` |
| `VaultBroker` | capabilities, their audit entries and receipts | `in_memory_broker.rs`, `lifecycle.rs`, `audit.rs` |
| `OverrideBroker` | emergency override bindings | `override_broker.rs` |
| `IdentityCatalog` | subjects, groups, sessions | `identity_catalog.rs` |
| `RecoveryBoundary` | recovery sessions and sub-boundaries | `in_memory_boundary.rs` |
| `KernelPipeline` | kernel candidates, slot A, rollback stack | `kernel_pipeline.rs` |
| `FirstBoot` | provisioning phases | `first_boot.rs` |
| `SelfHealing` | watchdogs, trackers, heal cycles | `self_healing_driver.rs` |
| `ServiceUnits` | the state machine of units, driven by racing calls | `state_fsm.rs`, `impl_inmemory.rs` of the service graph |
| `ServiceGraph` | the dependency index; sort, batches and cycles against reference definitions; joined with `ServiceUnits` | `evaluator.rs` |
| `CircuitBreaker` | the breaker of a model, one step per field lock | `breaker.rs` |
| `AiosFs` | objects, versions, chunk reference counts, collection | `in_memory.rs`, `gc.rs` |
| `NetworkExposure` | LAN and public exposure | `exposure_fsm.rs` |
| `OutboundGrants` | grants, tombstones, allow-lists | `grant_registry.rs` |
| `GpuResources` | VRAM bindings and authorisation | `gpu_resource.rs` |
| `FirmwareUpdate` | plans of firmware blobs | `firmware_update.rs` |
| `AppUpdate` | package updates | `update_driver.rs` |
| `FleetMembership` | memberships, posture floor, expulsion | `membership_driver.rs` |
| `FleetRecovery` | the coordinator's heartbeats, promotion, split brain | `fleet_recovery.rs` |
| `FleetRollout` | phases of a rollout | `distribution_rollout.rs` |
| `RemoteExecution` | jobs with two approvals | `remote_execution.rs` |
| `ClusterOverlay` | peers, tunnels, topologies | `cluster_overlay.rs` |
| `DistributedEvidence` | the evidence DAG, merges, Merkle checkpoints | `distributed_evidence.rs` |
| `*Proofs` | theorems, see "Proofs" | |
| `MC*` | instances for TLC | |

### DispatchQueue

`enroll` takes two locks one after the other, so it is two actions: `RateGate`
(the token) and `Admit` (room in the class and the push). `call[t]` is the local
state of the task between them. Tokens are counted in units of `1/TokenCost`, so
the refill of half a token per second is exact, and buckets are refilled lazily
on access, as in the code. `granted`, `enrolled` and `dequeued` are history.

### ApprovalSink

One action per operation of `InMemoryApprovalSink`; each runs under one write
guard. `consume_binding` is `ConsumeRefused`, `ConsumeExpired` or
`ConsumeGranted`. `passes[b]` counts how often binding `b` was handed out.

### CapabilityRuntime

A task has a program counter and its own copy of the context (status, evidence
chain). Each step makes at most one access to shared state, and any number of calls
may overlap. `Emit` appends one receipt or fails the RPC. `Store` is the last statement of both RPCs. The sink is
the `ApprovalSink` module, instantiated with actions as requests, so a change of the
sink is felt here. The kernel's verdict, the validator's answer for AI envelopes,
the verifier's result, the approver-class filter and the rollback driver's outcome
are choices. The queue's refusals by rate or agent cap appear as a choice to
refuse; `DispatchQueue` has their detail. `PruneExpired` and `Register` change
the registry at any time.

`ActionLifecycle` says what a client may see: an action is recorded once, in a
state in which the pipeline stops; a resume is admitted while the record shows
`APPROVAL_PENDING`, and every admitted resume may record its outcome once, also over
the record of another one. `RecordsFollowLifecycle` is the refinement. It does not
promise that a terminal record is final, as two resumes in flight break that
(`terminal_overwritten`); a record with no admitted resume left is final
(`SettledIsFinal`).

Left out: the `sandbox_profile` entry that `step_validate` puts on the chain when the
runtime has a sandbox composer (`pipeline.rs:1563`), which would be an entry of no
log, but the hook has no caller; and the `inject_verify_failure` knob of the tests
(`pipeline.rs:2267`), whose effect is a choice of the verifier.

### ApprovalGate

`evaluate` is three steps: `Evaluate` (policy lock), `RecordDecision` (audit
lock), `Park` (pending lock). `expire_stale_pending` is `CollectStale` under the
read lock and `RemoveStale` under the write lock. Approvers that are an AI are
refused without any effect and are left out.

### EvidenceStream

`append` is `Append_` (state lock) and `Send` (broadcast, after the lock is
released). `seal_current_segment` is `SealCurrentSegment` (take the chain, link)
and `PushSealed` (store). `subscribe` is `Replay`, `Attach`, `Receive`.
The tokio broadcast channel is external: a ring of `Capacity` messages that
overruns slow receivers.

### DurableEvidenceLog

Every write is one synced RocksDB batch and one step. `Crash` may fall between
any two; `Open` walks the sealed chain and restores the open snapshot. A
compaction tick is `TickStart` (the list as it is then) and one step per segment.
A segment is named by its position in the chain index.

### The authority layer

`PolicyKernel`: a bundle load or rollback is a sequence of steps (`adminPc`), one
per lock that `server.rs` and `kernel.rs` take: the slot, the displaced stack, the
grants, the label, the cache. An evaluation (`evalPc`) is a lookup, the pipeline on
the slot it cloned, and the insertion into the cache. `label` is the service's
version, `activeBundle` what the kernel holds. Two administrators may overlap, and
a version may be loaded again. The key of the cache is the request hash and the
version, as in `cache.rs:81`; the subject is not part of it although hard denials
depend on it, so an entry remembers (as history) whom it was computed for.

`VaultBroker`: a call changes the store under its lock, then marks the audit entry,
then emits (`vaultTask`). A capability can end by revocation, by a use that finds it
expired, and by the sweep. `early` marks a revocation that came before the entry.

`OverrideBroker` keeps test and write in one step, as the code does, and emits
afterwards. `IdentityCatalog` writes groups and the member index in two steps;
`crossed` holds the subjects whose changes overlapped.

### Recovery

`RecoveryBoundary` has two locks. `EnterRecovery` and `WriteToken` are the two
halves of an entry, `ExitRecovery` and `ClearToken` of an exit, during which the
token lock is held (`TokenLocked`). `KernelPipeline`, `FirstBoot` and `SelfHealing`
extend it and ask it before they take their own lock, so the answer may be old.

### Service graph

`ServiceUnits`: each of start, stop, restart and mark_failed is a loop of reading
the state, choosing an edge, looking it up in the table of the driver and trying it;
an edge the graph refuses is read again. The verdicts on convergence have the
`Empty` branch of a graph without units.
`ServiceGraph` builds the index from one call per unit while edges are still
declared, and has the code's sort, batches and cycle search as recursive operators; `PlansSound` compares
them with definitions by reachability.

### Hosts and fleet

`NetworkExposure`, `GpuResources`, `AppUpdate`, `CircuitBreaker`, `OutboundGrants`
and `AiosFs` have one step per lock and one record of local state per call
(`xtask`, `gtask`, `utask`, `recPc`, `appending`, `gc`). `FirmwareUpdate` and the
fleet modules have one action per driver call. In `FleetRecovery` heartbeats wait in
a set and are delivered late, repeatedly or never. In `DistributedEvidence` a hash
is the value it hashes, so equal hashes mean equal nodes.

Where the code leaves data to floating point, hash order or machine words, the models
take what the properties tell apart. The canary share of `FleetRollout` is an `f64`
that is multiplied and rounded up: the model takes any number of canary hosts the
following `max` and `min` admit. The list of target hosts may name a host twice. The
tunnels of `ClusterOverlay` are unordered pairs, as the code walks a hash map. The
signatures of an expulsion are a number, as `expel` takes only the length of the list.
The bytes of `GpuResources` are numbers that do not wrap: a `u64` does after 16 EiB.

A call of `record_probe_outcome` (`CircuitBreaker`) is `Record` (which reads the
state), `CountProbe`, `PushOutcome` and the steps of `recompute_state`; the fields a
single decision rests on are read in one step.

## Runs

Components that share no state are checked in one run: its MC module extends all
of them, and a variable chosen initially (`client`, `backend`) says which one a
behaviour is about.

| Run | Checks | Shows |
|---|---|---|
| `dispatch` | `RateEnvelope`, `QueueSound` | Every window of grants fits burst plus refill; racing enrolments overfill no class, and contexts leave a class in the order they came |
| | `ConsumedOnce` | A binding is spent once, over grants, expiries and forced states in every order |
| | `DecisionsJustified` | No gate decision out of the blue, one manual decision per submission, automatic approvals only under a policy in force |
| `runtime_calls` | `CallsReturn` | Every RPC returns |
| `runtime_resume` | `PipelineSound` | With two resumes in flight, both RPC paths follow the table, and a stored context names exactly the receipts of the submission and of the call that stored it |
| | `RecordsFollowLifecycle` | The runtime implements `ActionLifecycle` |
| | `ExecutionAuthorised`, `OneResumePerBinding`, `PersistedChainSound` | Nothing executes without its own authorisation, and a binding pays for one execution |
| `evidence` | `StreamSound`, `LiveDelivers` | A live subscriber misses only what overran it, and receives the rest |
| | `CrashSafe` | Acknowledged receipts survive crashes; recovery is exact and always possible |
| | `CompactionJustified` | Compaction removes only what it may |
| | `LogIsAppendOnly`, `DurableIsAppendOnly` | Both backends implement `AppendOnlyLog` |
| `recovery` | `TokenMatchesSession` | The stored exit token is that of the session in force |
| | `RollbackStackSound` | The rollback stack holds distinct images that were promoted, never the active one |
| | `StagesInOrder` | First-boot stages are accounted in order under two drivers |
| | `HealingProgresses` | A heal cycle ends if the component answers, and one that stays silent is escalated |
| `authority` | `ServedSoundly` | When no flip is under way, what is cached was computed by a call that began after the last one, entries put late excepted; a hard denial is never relaxed for the subject it was computed for |
| | `EndsAudited`, `ConsumedWhileLive`, `IndexAgrees` | A vault capability ends once and store, audit and receipts agree; an override is consumed once while live; the member index agrees with the groups |
| `hosts` | `ContentSafe` | Reference counts are exact and the collector reclaims no chunk of a live version |
| | `TtlCosigned`, `RevokedStaysOut`, `BooksMatchBindings`, `DowngradeWasStale`, `RolledBackSettles`, `CooldownSound` | The same kind of statement for exposure, grants, GPU, firmware, packages and the breaker |
| | `EventsTellState`, `HealthyIsRecent`, `PlanCoversHosts`, `TransferredWasApproved`, `OneLead`, `ReplicasSound` | and for the six fleet drivers |
| `services` | `RefusedMeansRaced`, `DriversReturn` | A unit's refused edge means that another caller moved it; unopposed calls return |
| | `PlansSound` | Sort, batches and cycles of the evaluator are those of their definitions by reachability |

Several of these are conjunctions; the module has one named definition per
conjunct. Type invariants are conjuncts of the property of their module, or are
proved.

Four runs expect a violation. Each states what a comment of the code says, and
TLC shows the code doing otherwise:

| Run | Property | What TLC finds |
|---|---|---|
| `terminal_overwritten` | `TerminalIsFinal` | Two resumes with two bindings both see `APPROVAL_PENDING`; the second insert replaces `SUCCEEDED` (`runtime.rs:1192`) |
| `ancestry_cycle` | `AncestryEnds` | A node replicated before its parent becomes its parent's parent (`distributed_evidence.rs:511`) |
| `public_rearmed` | `PublicRearms` | A heartbeat that read `PublicActive` before a revocation writes it back after (`exposure_fsm.rs:562`) |
| `breaker_skips_probe` | `NoOpenToClosed` | With two recorders a stale `HALF_OPEN` closes a breaker that reopened (`breaker.rs:197`) |

### Divergences without a run

These definitions state what a comment or document says. TLC refutes each when
it takes the place of the properties in the configuration of its module's passing
run.

- `QueueHoldsInFlight` (`CapabilityRuntime`): only tests call `dequeue`, so
  finished actions stay enrolled, against `dispatch_queue.rs:378`.
- `AgentProposalShare` (`DispatchQueue`): `dispatch_queue.rs:304` measures the
  agent cap against the total enrolment, the code against the total capacity.
- `PersistedChainComplete` (`CapabilityRuntime`): `evidence_emit.rs:8` promises
  the full chain from the stored context; an RPC that fails after an emission drops
  its receipt ids. `ChainTellsItsCalls` is what does hold.
- `FailureReceipted` (`CapabilityRuntime`): `evidence_emit.rs:6` promises a receipt
  per transition; refusals by validation, queue or registry end in `FAILED` without one.
- `ExecutionRouted` (`CapabilityRuntime`): the adapter is looked up twice
  (`pipeline.rs:1108`, `1406`); one registered in between executes unrouted.
- `ExpiresOnlyPending` (`ApprovalGate`): a request approved between the two locks
  of the sweep is denied as well (`approval_gate.rs:523`).
- `DeadlineHonoured` (`ApprovalGate`): the answer counts 300 s from the
  evaluation (`approval_gate.rs:307`), the sweep from the submission (`:512`).
- `ReplayJoinsLive` (`EvidenceStream`): a receipt sent between replay and
  attachment is never delivered (`impl_inmemory.rs:505`).
- `StoreInChainOrder` (`EvidenceStream`): two concurrent seals may store in
  reverse order, against `impl_inmemory.rs:121`.
- `ResumeReplaysMissed` (`EvidenceStream`): a bookmark in a sealed segment
  replays nothing, against `02_design_decisions.md:973` (D9).
- `StreamChronological` (`EvidenceStream`): broadcasts may overtake each other,
  against `03_mvp_golden_path.md:715`.
- `BlankMeansFromNow` (`EvidenceStream`): a blank bookmark replays the open
  chain, against `01_evidence_log.md:317`.
- `ReportedOnce` (`DurableEvidenceLog`): the bookkeeping is volatile, so a
  restarted worker asks again, against `compaction.rs:354`.
- `ForeverReceiptsKept` (`DurableEvidenceLog`): a FOREVER receipt goes with its
  STANDARD_24M segment (`rocksdb_backend.rs:1197`), against `compaction.rs:31`.
- `RefusedRollbackRestores` (`PolicyKernel`): a refused rollback may leave another
  bundle active than the labelled one, against `server.rs:488`.
- `OverrideTimeBounded` (`PolicyKernel`): `override_boundary.rs:34` bounds a grant
  in time; a cached decision outlives it.
- `EveryRevocationAudited` (`VaultBroker`): a revocation before the audit entry
  exists leaves it unmarked, against `audit.rs:29`.
- `GrantRecordedFirst` (`OverrideBroker`): the receipt is emitted after the binding
  is usable, against `05_emergency_override.md:28`.
- `RetiredNotActive` (`KernelPipeline`): slot A may hold a retired image, against
  `kernel.rs:75`.
- `PromotedInRecovery` (`KernelPipeline`): recovery is checked before the locks, so a
  recovery-only image may be promoted after recovery ended, against
  `kernel_pipeline.rs:130`.
- `VersionNeverFalls` (`FirmwareUpdate`): versions are compared when a blob is verified
  and not when it is applied; a plan verified before another blob was installed lowers
  the version, against `04_firmware_trust.md:19` and `:213`.
- `AllPerformedIsCompleted` (`FirstBoot`): a boot all of whose stages were performed
  singly stays unfinished (`first_boot.rs:194`).
- `PurgedNotPromoted` (`AiosFs`): a pointer may move to a version that was purged,
  against `version.rs:77`.
- `NarrowAfterRevoke` (`OutboundGrants`): a revoked grant still forbids a shorter
  one (`grant_registry.rs:116`), against `:65`.
- `SplitBrainNeverSilent` (`FleetRecovery`): the heartbeat of another host may
  be taken for one of the coordinator, against `fleet_recovery.rs:11`.
- `CanaryGate` (`FleetRollout`): the second phase may start before the canary hosts have
  succeeded, against `distribution_rollout.rs:18`.

Behaviour worth knowing that follows from the translation, without a definition of
its own:

- GPU: the sum of bindings is checked under one lock and reserved under another, so
  two requests can exceed the memory (`OvershootBounded` says by how much); a
  release that runs twice subtracts twice; `expires_at` is stored and never read.
- Firmware: a revert leaves the installed version as it is; a deferred plan is never
  applied.
- Policy: the cache key has no subject (`kernel.rs:515`), so a decision computed for one
  subject may be served to another who sends the same request under the same version;
  an evaluation that a flip overtook puts its decision into the cache afterwards, and it
  is served when that version is loaded again.
- Membership: `membership_driver.rs:586` says "Requires a quorum of valid Ed25519
  signatures from enrolled fleet members", while `expel` compares the number of
  signatures with the threshold; and it says "QUARANTINED → EXPELLED", while the table
  also has ENROLLED → EXPELLED.
- Coordinator: `set_coordinator` replaces any coordinator, without a quorum, and leaves
  the deadline of the one before in force.
- Packages: overlapping `activate` calls may overwrite `RolledBack`
  (`update_driver.rs:690` calls it terminal); `hash_match` is constantly true.
- Exposure: the time-to-live is not capped, and `check_heartbeat` has no caller
  outside tests. AIOS-FS: `decrement_chunk_refcount` has none either.
- Self-healing: `reset_on_healthy` is not read, and the delivery of a command has
  no time-out: a component that never answers keeps its cycle waiting.
- Fleet: a rollout can be planned anew at any time, and a report that arrives after
  an abort still changes its host; a job approved first by its target needs the
  target's approval again; a coordinator id may name a host that is no peer, and after a
  re-election another one than the peer with the leading role, until a topology is built; a
  merge that fails half-way keeps the nodes it has stored.
- Service units: start and stop of one unit in lock-step may retry for ever, so
  `DriversReturn` speaks of calls that nobody opposes.

### Bounds

All bounds are constants of the configurations. Two tasks, callers, writers or
capsules are enough for every race here, because each critical section is entered
by one task and the races are between a check and one later write; a third task is
there where a race needs one that submits and two that continue (`runtime_resume`,
package updates, recovery). Capacities are chosen so that limits are reached: one
interactive slot, an agent capacity above its cap with an odd total, a bucket of
two tokens, a one-slot broadcast buffer, a rollback stack of one, a policy cache of
two below three keys, a GPU that two requests overfill. Of two subjects with the same
request one is hard-denied, and bundles are loaded twice, of two versions or of one.
Five target places name three hosts, so that the list is odd, its last batch of two is
short and two hosts are named twice; canary shares come to none, one and more hosts
than there are. An expulsion from a fleet
of two comes with none, one or two signatures, on both sides of the quorum. Seven events
hold the longest path of a member, and repeated withdrawals on the shorter ones. Clocks run far enough for a bucket to
overflow, a binding, grant or override to expire, a request to time out, a segment
to age and a cooldown to double to its maximum. One crash at any point is enough
for recovery, since nothing volatile survives it. Three hosts are the smallest
fleet with a rival beside the coordinator and a third to elect, three units the
smallest graph with a cycle longer than two. The evidence DAG has four
nodes: two hosts that fork and merge. Versions, nodes, loads and calls are bounded by `Max...` constants in the
guards. The breaker has one recorder where its promises are checked, as concurrent
recorders break them (`breaker_skips_probe`). Symmetry is used only in runs without
liveness. Deadlock checking is off because the bounded callers run out of calls,
which is the only way these models stop.

### Fairness

`CallsReturn` assumes weak fairness of each task's steps: tokio keeps polling a
ready task, and no step waits for another task's step. It does not assume that
anybody grants a binding. `LiveDelivers` assumes weak fairness of a writer's
pending broadcast or store, of a subscription's attachment after its replay, and of
an attached stream's receive. `DriversReturn` assumes it of each driver's next step
and `HealingProgresses` of the cycle's. Each is the continuation of a running task;
nothing is assumed of callers, and the answer of a component under repair is a
hypothesis of `CycleReturns`, not an assumption.

## Proofs

The theorems hold for any sets of tasks, subjects, hosts and so on, and any bounds.
Their assumptions are the named `ASSUME`s of the component modules (naturals,
positive rates, finite fleets), which TLC evaluates in the runs. Each proof states an
inductive invariant, shows that every action keeps it, and draws the property from
it. TLC checked the inductive invariants on the instances of the runs before they
were proved.

- `RuntimeProofs`: `ExecutesAuthorised`, `ResumesOnce` and `StoredChainLogged`, for any
  number of calls in flight. `RuntimeInv` says for every stage of the pipeline which
  status the call has and which receipts it has emitted or is about to emit
  (`StatusOK`, `ReceiptsOK`); that a binding that can still be consumed never was
  (`SinkInv`); and what a stored context owes to the log (`StoredOK`). Authorisation
  alone is not inductive: an execution is justified by receipts that were emitted
  several steps earlier.
- `LifecycleProofs`: `PipelineIsSound`, the refinement `RecordsRefine` and, from the
  abstract specification, `SettledRecordsAreFinal`, for any number of overlapping calls.
  `StoryInv` says that the chain of a call under way is what the submission and the call
  itself have written, and a stored chain what the submission and the call that stored it
  have; that a context found in `APPROVAL_PENDING` is the submission's alone is what makes
  it inductive when several resumes start from it.
- `EvidenceProofs`: `StreamIsSound`, `DurableLogIsCrashSafe`,
  `CompactionsAreJustified`, and the refinements `StreamLogRefines` and
  `DurableLogRefines`.
  Both logs are read through `ChainOrder`: the entries of all segments, ranked by
  position. Lemmas say that an append adds one entry of the highest rank and that
  sealing moves none. `DurableInv` adds that the chain on disk is whole, that the rows
  are those of segments not compacted, and what each worker has yet to ask for.
  `StreamInv` adds that every receipt is broadcast once and, for an attached
  connection, what it has received of the window the channel still holds.
- `RecoveryProofs`: for the dispatch queue `TypeCorrect`, `QueueSafe`, `RateSafe`,
  `RefusalsJustified`. The types need `ClockInv` (a bucket's last refill is not in the
  future, or a refill could be negative). `RateEnvelope` needs `RateInv`, which relates
  the tokens left to the grants of every window. For recovery `SessionsCanBeLeft`
  (`TokenInv`: who is between the two locks and what is left to write),
  `ReceiptsAreTruthful` (`ReceiptInv`), `SlotHistorySound` (`KernelInv`: the stack fits
  the active image and the states of its entries), `ProvisioningInOrder` (`BootInv`),
  `CriticalIsEscalated` (`HealInv`).
- `AdmissionProofs`: for the sink `SinkTypeCorrect`, `SingleUse`, `PollIsBacked`,
  `NoRegrant` (`UnspentInv`: a binding still grantable or granted was never spent;
  `SpentInv`: `CONSUMED` is only written by a counted consumption). `CatalogConsistent`
  (`IndexInv`: what a call between the two writes still owes the index; `SessionInv`).
  `VaultTellsTheEnd` (`VaultInv`: an ended capability has told its end, or the call that
  ended it is still going to). `CooldownStaysBounded` says what the breaker keeps although
  recorders overwrite each other: the multiplier stays between one and its cap, and no
  breaker opened in the future. `RecordersInv` says the same of every list of writes still
  to be made.
- `ApprovalProofs`: `AuditJustified` (`GateInv` relates what an evaluation holds, what is
  parked, what a sweep has collected and the audit trail). `PublicEndsAsApproved`,
  `PublicOnlyWhenArmed`, `HistoryAccounts` for exposure (`HistoryInv` counts arrivals and
  departures of a label over the history and the calls that have yet to enter theirs).
  `ConsumedOnceLive` (`OverrideInv`). `EventsTellTheState` for the members of a fleet
  (`EventsInv`: how far the events go, in every state before enrolment).
- `ResourceProofs`: `ServesSoundly` (`ServeInv`: an entry that is neither of the last flip
  nor late has a version that some call in flight is still going to invalidate),
  `GrantsFollowBundle` (`PolicyInv`: whoever swapped the slot
  still has grants to clear). For AIOS-FS `StoreKeepsContent`, where the reference counts
  of `ContentSafe` are cardinalities of the set of live versions that hold the chunk.
  For the GPU `GpuAuthorization`, `BooksAreExact` and `BooksAreSound`. The sums of the
  books are cardinalities of sets of bytes, so that what a step adds to a sum is the
  size of the set it adds; `BooksInv` says which call has which binding, and that an
  idle call leaves the others at most one request of the largest size each.
- `HostProofs`: `GrantsNeverShrink`, `RevocationLasts`, `FirmwareAsVerified`,
  `UpdatesInOrder`, `UnitsKeepToTheTable` (`UnitsInv` needs that no
  unit is ever `Draft`, where `mark_failed` would choose an edge the table does not
  have). For the fleet `ApprovalsHold`, `SwitchesAlwaysHold`, `PlanAlwaysCovers`,
  `OverlaySafe`, `LostPeersStayOut`, `HealthRestsOnHeartbeats`,
  `SplitBrainFreezesDeadline`. `PlanAlwaysCovers` is about integer division: batches leave no
  host out and take none twice for any list of hosts, nor do canary shares, whatever number
  of hosts they come to.

A module of proofs covers several components where their names allow it. Its leaves
name the prover that finds them (`Zenon` for the first-order ones): the prover spends
its time on the definitions in sight more than on the step.

Only model-checked:

- liveness (`CallsReturn`, `LiveDelivers`, `HealingProgresses`, `DriversReturn`), which
  is outside the prover's reach;
- `ReplicasSound`: Merkle roots and merges are recursive operators and folds;
- `PlansSound`: the sort, the batches and the cycle search are recursive;
- `CooldownSound`, which holds of a single recorder only, and the four runs that expect a
  violation.

## Not modelled

- Cryptography and encodings: receipts, segments and hashes are identities.
- The partially wired runtime constructors, dry runs, the runtime's override
  transitions and recovery hook.
- Read-only RPCs, and the verdicts inside policy kernel, validator and verifier.
- Most crates, each listed in `PROJECT.json` with its reason. The workspace has
  some 226,000 lines of Rust, of which the map covers a twentieth: the parts with
  shared mutable state and a protocol to get wrong. The rest is typed data with
  its encoding, command lines and renderers, wrappers over devices and kernel
  interfaces, report generators, and generated code.

## Plan

1. Extend the model: capsule lifecycle, scheduler, snapshots and the rollback
   engine; containers; backup; autonomous consensus; profile merge and the
   verification grammar as pure algorithms against a reference definition.
2. Compose more: policy cache with `CapabilityRuntime`, evidence emission with
   `DurableEvidenceLog`.
3. Prove more: type correctness where it is only checked.
