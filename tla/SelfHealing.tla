----------------------------- MODULE SelfHealing -----------------------------
(* The self-healing driver of aios-recovery (self_healing_driver.rs): health   *)
(* observations, panics and watchdog deadlines feed a registry and a failure   *)
(* tracker, each under its own lock; a heal cycle flags what is overdue,       *)
(* decides one action per component inside the open recovery boundary and      *)
(* executes them one by one, waiting for a component to answer a shutdown.     *)
(*                                                                             *)
(* Abstractions: the boundary queries of one gate are one step; failure counts *)
(* above MaxRetries are alike, so the counter saturates there; sequence        *)
(* numbers, checkpoints and receipts decide nothing and are left out.          *)
EXTENDS RecoveryBoundary

CONSTANTS
    Components,     \* component ids with a configuration
    MeshRouted,     \* those whose allowed scopes include MESH_ROUTING
    ScopeOf,        \* sub-boundary that the first allowed scope maps to
    MaxRetries,     \* RestartPolicy.max_retries
    Observers,      \* concurrent reporters of health
    NoComponent

VARIABLES
    healPolicy,     \* SelfHealingPolicy: enabled, minimum_mode
    isolation,      \* isolation level of each component, below the threshold of
                    \* RestartPolicy.escalate_after, at it, or CRITICAL
    health,         \* health_registry
    failures,       \* ComponentHealingTracker.consecutive_failures
    overdue,        \* components whose watchdog deadline has passed
    channels,       \* components with a command channel that is not dropped
    observing,      \* observation whose tracker write is still to come
    cycle           \* where the heal cycle is, and its local data

healVars == <<healPolicy, isolation, health, failures, overdue, channels, observing, cycle>>

NeedsIntervention == {"DEGRADED", "FAILED"}
Reported == {"HEALTHY"} \union NeedsIntervention
HealthStates == {"UNKNOWN", "HEALTHY"} \union NeedsIntervention
NoObservation == [c |-> NoComponent, state |-> "UNKNOWN"]
NoAction == [c |-> NoComponent, kind |-> "NONE"]
IdleCycle == [at |-> "idle", left |-> {}, cur |-> NoAction, todo |-> <<>>,
              health |-> <<>>, failures |-> <<>>]

HealInit ==
    /\ healPolicy = [enabled |-> FALSE, minimum |-> "RECOVERY"]
    /\ isolation \in [Components -> {"BELOW", "AT_THRESHOLD", "CRITICAL"}]
    /\ health = [c \in Components |-> "UNKNOWN"]
    /\ failures = [c \in Components |-> 0]
    /\ overdue = {}
    /\ channels = {}
    /\ observing = [o \in Observers |-> NoObservation]
    /\ cycle = IdleCycle

Bump(n) == IF n > MaxRetries THEN n ELSE n + 1

\* record_observation
Recorded(n, state) ==
    CASE state \in NeedsIntervention -> Bump(n)
      [] state = "HEALTHY" -> 0
      [] OTHER -> n

-----------------------------------------------------------------------------
\* set_policy; evaluate holds the policy lock while it decides
SetPolicy ==
    /\ cycle.at # "decide"
    /\ healPolicy' \in [enabled : BOOLEAN, minimum : {"DEGRADED", "RECOVERY", "FIRST_BOOT"}]
    /\ UNCHANGED <<isolation, health, failures, overdue, channels, observing, cycle>>

\* observe_health and observe_panic (FAILED): the registry write
ObserveHealth(o, c, state) ==
    /\ observing[o] = NoObservation
    /\ health' = [health EXCEPT ![c] = state]
    /\ observing' = [observing EXCEPT ![o] = [c |-> c, state |-> state]]
    /\ UNCHANGED <<healPolicy, isolation, failures, overdue, channels, cycle>>

\* observe_health and observe_panic: the tracker write
TrackObservation(o) ==
    LET obs == observing[o] IN
    /\ obs # NoObservation
    /\ failures' = [failures EXCEPT ![obs.c] = Recorded(@, obs.state)]
    /\ observing' = [observing EXCEPT ![o] = NoObservation]
    /\ UNCHANGED <<healPolicy, isolation, health, overdue, channels, cycle>>

\* register_watchdog and ping_watchdog set a deadline, which passes unless renewed
PingWatchdog(c) ==
    /\ overdue' = overdue \ {c}
    /\ UNCHANGED <<healPolicy, isolation, health, failures, channels, observing, cycle>>

DeadlinePasses(c) ==
    /\ overdue' = overdue \union {c}
    /\ UNCHANGED <<healPolicy, isolation, health, failures, channels, observing, cycle>>

\* register_command_channel, and the component dropping its receiver
RegisterCommandChannel(c) ==
    /\ channels' = channels \union {c}
    /\ UNCHANGED <<healPolicy, isolation, health, failures, overdue, observing, cycle>>

DropCommandChannel(c) ==
    /\ channels' = channels \ {c}
    /\ UNCHANGED <<healPolicy, isolation, health, failures, overdue, observing, cycle>>

-----------------------------------------------------------------------------
\* heal_cycle: watchdog_check collects the expired deadlines
StartCycle ==
    /\ cycle.at = "idle"
    /\ cycle' = [cycle EXCEPT !.at = "flag", !.left = overdue]
    /\ UNCHANGED <<healPolicy, isolation, health, failures, overdue, channels, observing>>

\* watchdog_check: observe_health(DEGRADED), its two writes
FlagExpired(c) ==
    /\ cycle.at = "flag" /\ c \in cycle.left
    /\ health' = [health EXCEPT ![c] = "DEGRADED"]
    /\ cycle' = [cycle EXCEPT !.at = "track", !.cur = [NoAction EXCEPT !.c = c]]
    /\ UNCHANGED <<healPolicy, isolation, failures, overdue, channels, observing>>

\* A flag that leaves the failure counter alone.
TrackExpiredUncounted ==
    /\ cycle.at = "track"
    /\ failures' = failures
    /\ cycle' = [cycle EXCEPT !.at = "flag", !.left = @ \ {cycle.cur.c}, !.cur = NoAction]
    /\ UNCHANGED <<healPolicy, isolation, health, overdue, channels, observing>>

TrackExpired ==
    /\ cycle.at = "track"
    /\ failures' = [failures EXCEPT ![cycle.cur.c] = Recorded(@, "DEGRADED")]
    /\ cycle' = [cycle EXCEPT !.at = "flag", !.left = @ \ {cycle.cur.c}, !.cur = NoAction]
    /\ UNCHANGED <<healPolicy, isolation, health, overdue, channels, observing>>

\* evaluate: mode_satisfied.  The boundary is in no other mode than NORMAL and RECOVERY.
ModeSatisfied == IsRecoveryActive /\ healPolicy.minimum # "FIRST_BOOT"

\* evaluate: the policy, mode and sub-boundary gate
Evaluate ==
    /\ cycle.at = "flag" /\ cycle.left = {}
    /\ cycle' = IF healPolicy.enabled /\ (ModeSatisfied \/ subs # {})
                THEN [cycle EXCEPT !.at = "snapshot"] ELSE IdleCycle
    /\ UNCHANGED <<healPolicy, isolation, health, failures, overdue, channels, observing>>

\* evaluate: both registries are copied under their locks
SnapshotRegistries ==
    /\ cycle.at = "snapshot"
    /\ cycle' = [cycle EXCEPT !.at = "decide", !.left = Components,
                              !.health = health, !.failures = failures]
    /\ UNCHANGED <<healPolicy, isolation, health, failures, overdue, channels, observing>>

\* evaluate: some allowed scope of the component lies in an open sub-boundary
ScopeGranted(c) ==
    IsSubRecoveryActive(ScopeOf[c]) \/ (c \in MeshRouted /\ IsSubRecoveryActive("NETWORK"))

\* decide_for_component
Decision(c, state, failed) ==
    IF isolation[c] # "BELOW" \/ failed + 1 > MaxRetries THEN "ESCALATE"
    ELSE IF state = "FAILED" /\ failed + 1 > MaxRetries \div 2
         THEN IF c \in MeshRouted THEN "FAILOVER" ELSE "ISOLATE"
         ELSE "RESTART"

\* evaluate: one component's scope gate and decision
DecideForComponent(c) ==
    /\ cycle.at = "decide" /\ c \in cycle.left
    /\ cycle' = [cycle EXCEPT !.left = @ \ {c}, !.todo =
          IF ScopeGranted(c) /\ cycle.health[c] \in NeedsIntervention
          THEN Append(@, [c |-> c, kind |-> Decision(c, cycle.health[c], cycle.failures[c])])
          ELSE @]
    /\ UNCHANGED <<healPolicy, isolation, health, failures, overdue, channels, observing>>

\* heal_cycle: the next action, or the end of the cycle
NextAction ==
    /\ cycle.at = "decide" /\ cycle.left = {}
    /\ cycle' = IF cycle.todo = <<>> THEN IdleCycle
                ELSE [cycle EXCEPT !.at = "execute", !.cur = Head(cycle.todo), !.todo = Tail(@),
                                       !.health = <<>>, !.failures = <<>>]
    /\ UNCHANGED <<healPolicy, isolation, health, failures, overdue, channels, observing>>

\* execute_heal: denied (INV-012), sent to the component, or done
ExecuteHeal ==
    LET required == IF isolation[cycle.cur.c] = "CRITICAL" THEN "COMPUTE" ELSE ScopeOf[cycle.cur.c]
        granted == \/ IsSubRecoveryActive(required) \/ IsRecoveryActive
                   \/ healPolicy.minimum # "RECOVERY"
        awaited == cycle.cur.kind = "RESTART" /\ cycle.cur.c \in channels
    IN
    /\ cycle.at = "execute"
    /\ cycle' = IF granted /\ awaited THEN [cycle EXCEPT !.at = "await"]
                ELSE [cycle EXCEPT !.at = "decide", !.cur = NoAction]
    /\ UNCHANGED <<healPolicy, isolation, health, failures, overdue, channels, observing>>

\* deliver_heal_command: Ack, Nack, or the receiver is dropped with the command
ComponentAnswers ==
    /\ cycle.at = "await"
    /\ cycle' = [cycle EXCEPT !.at = "decide", !.cur = NoAction]
    /\ UNCHANGED <<healPolicy, isolation, health, failures, overdue, channels, observing>>

CycleStep ==
    \/ TrackExpired \/ Evaluate \/ SnapshotRegistries \/ NextAction \/ ExecuteHeal
    \/ \E c \in Components : FlagExpired(c) \/ DecideForComponent(c)

HealNext ==
    \/ SetPolicy
    \/ \E o \in Observers : TrackObservation(o)
    \/ \E o \in Observers, c \in Components, s \in Reported : ObserveHealth(o, c, s)
    \/ \E c \in Components :
          \/ PingWatchdog(c) \/ DeadlinePasses(c)
          \/ RegisterCommandChannel(c) \/ DropCommandChannel(c)
    \/ StartCycle \/ CycleStep \/ ComponentAnswers

HealSpec == HealInit /\ [][HealNext]_healVars

\* A cycle that was started runs on; nothing makes a component answer a command.
HealFairness == WF_healVars(CycleStep)

-----------------------------------------------------------------------------
Kinds == {"NONE", "RESTART", "ISOLATE", "FAILOVER", "ESCALATE"}

\* Types; the failure counter stops one above the retries (record_observation).
HealTypeOK ==
    /\ health \in [Components -> HealthStates]
    /\ failures \in [Components -> 0..(MaxRetries + 1)]
    /\ overdue \subseteq Components /\ channels \subseteq Components
    /\ cycle.at \in {"idle", "flag", "track", "snapshot", "decide", "execute", "await"}
    /\ cycle.cur \in [c : Components \union {NoComponent}, kind : Kinds]

(* "Critical components MUST escalate immediately - the driver is never        *)
(* allowed to restart or kill them" (self_healing_driver.rs:397): whatever was *)
(* observed, a critical component is never sent a shutdown, isolated or failed *)
(* over.                                                                       *)
CriticalOnlyEscalated ==
    \A c \in {d \in Components : isolation[d] = "CRITICAL"} :
        /\ cycle.cur.c = c => cycle.cur.kind \in {"NONE", "ESCALATE"}
        /\ \A k \in DOMAIN cycle.todo : cycle.todo[k].c = c => cycle.todo[k].kind = "ESCALATE"

(* A heal cycle returns (heal_cycle, self_healing_driver.rs:734) if components *)
(* answer or drop the commands they took, although channels are replaced and   *)
(* dropped meanwhile: deliver_heal_command waits without a time-out and is the *)
(* only step that can hold a cycle up.                                         *)
CycleReturns ==
    (cycle.at = "await" ~> cycle.at # "await") => (cycle.at # "idle" ~> cycle.at = "idle")

\* The watchdog deadline of c stays expired, nobody reports it healthy and the
\* driver may act on it.
Silent(c) ==
    /\ c \in overdue
    /\ health[c] \in NeedsIntervention
    /\ healPolicy.enabled /\ ScopeGranted(c)

(* A component that fell silent is escalated (self_healing_driver.rs:245 and   *)
(* :415): if from some point on it is Silent and cycles are run again and      *)
(* again, the retries are used up and the cycles escalate it again and again.  *)
SilentEscalated ==
    \A c \in Components :
        (<>[]Silent(c) /\ []<>(cycle.at = "flag"))
            => []<>(cycle.cur = [c |-> c, kind |-> "ESCALATE"])

\* The driver keeps its counters in range and makes progress: every cycle returns, and
\* with cycles going on a silent component is escalated again and again
\* (heal_cycle, watchdog_check, evaluate).
HealingProgresses == []HealTypeOK /\ CycleReturns /\ SilentEscalated
=============================================================================
