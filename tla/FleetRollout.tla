------------------------------ MODULE FleetRollout ------------------------------
(* FleetDistributionRollout: the phases of a rollout over a list of hosts, the     *)
(* reports of the hosts and the operator's pause, resume and abort.  Calls go      *)
(* through &mut self and are one step each; hosts report in any order and late.    *)
(* Downloading, verifying and installing are one status, as are failed and rolled  *)
(* back: the code only asks whether a status is terminal and whether it succeeded. *)
(* The list may name a host twice: phases hold places of the list, and two places  *)
(* of one host share its state, as in host_states.                                 *)
EXTENDS Naturals, Sequences, FiniteSets

CONSTANTS
    Targets,         \* target_hosts, a sequence
    Strategies,      \* the strategies to try
    CanaryShares,    \* what the canary share of the hosts may round up to
    BatchSize,       \* Rolling.batch_size
    Threshold        \* canary_success_threshold

VARIABLES
    strategy,
    phases,          \* sequence of [hosts |-> places of the list, state]
    hostStatus,      \* host_states[h].install_status
    paused,
    aborted

rolloutVars == <<strategy, phases, hostStatus, paused, aborted>>

HostCount == Len(Targets)
TargetHosts == {Targets[i] : i \in 1..HostCount}

\* rolling_phases refuses a batch size of zero. The percentage of a canary is an f64 that
\* nothing restricts; its share is cast to usize, where NaN and what is negative become 0.
ASSUME RolloutBounds ==
    /\ HostCount \in Nat
    /\ Strategies \subseteq {"ALL_AT_ONCE", "CANARY", "ROLLING", "BLUE_GREEN"}
    /\ CanaryShares \subseteq Nat
    /\ BatchSize \in Nat \ {0}

Phase(first, last) == [hosts |-> first..last, state |-> "PENDING"]
HostStatuses == {"PENDING", "BUSY", "ACTIVATED", "FAILED"}
PhaseTerminal(state) == state \in {"COMPLETED", "FAILED"}
HostTerminal(h) == hostStatus[h] \in {"ACTIVATED", "FAILED"}

RolloutInit ==
    /\ strategy \in Strategies
    /\ phases = <<>>
    /\ hostStatus = [h \in TargetHosts |-> "PENDING"]
    /\ paused = FALSE
    /\ aborted = FALSE

CeilDiv(a, b) == (a + b - 1) \div b

\* max(1), then min(target_hosts.len())
CanaryCount(share) ==
    LET c == IF share < 1 THEN 1 ELSE share IN IF c > HostCount THEN HostCount ELSE c

\* The number of full batches: a short last batch is forgotten.
FullBatchCount == HostCount \div BatchSize

\* chunks(batch_size): the last batch may be short.
BatchCount == CeilDiv(HostCount, BatchSize)

\* canary_phases, rolling_phases, blue_green_phases.
Plan(share) ==
    LET canary == CanaryCount(share) IN
    CASE strategy = "ALL_AT_ONCE" -> <<Phase(1, HostCount)>>
      [] strategy = "CANARY" /\ canary < HostCount -> <<Phase(1, canary), Phase(canary + 1, HostCount)>>
      [] strategy = "CANARY" /\ ~(canary < HostCount) -> <<Phase(1, HostCount)>>
      [] strategy = "ROLLING" -> [b \in 1..BatchCount |->
                                     Phase((b - 1) * BatchSize + 1,
                                           IF b * BatchSize > HostCount THEN HostCount ELSE b * BatchSize)]
      [] strategy = "BLUE_GREEN" -> <<Phase(1, HostCount \div 2), Phase(HostCount \div 2 + 1, HostCount)>>

\* plan_phases: at any time, and the phases planned before are replaced.
PlanPhases ==
    /\ HostCount > 0
    /\ \E share \in CanaryShares : phases' = Plan(share)
    /\ UNCHANGED <<strategy, hostStatus, paused, aborted>>

\* start_phase: the phase before it must be terminal, failed or not.
StartPhase(k) ==
    /\ ~aborted
    /\ ~paused
    /\ k > 1 => PhaseTerminal(phases[k - 1].state)
    /\ phases[k].state # "IN_PROGRESS"
    /\ phases' = [phases EXCEPT ![k].state = "IN_PROGRESS"]
    /\ hostStatus' = [h \in TargetHosts |->
                       IF hostStatus[h] = "PENDING" /\ \E i \in phases[k].hosts : Targets[i] = h
                       THEN "BUSY" ELSE hostStatus[h]]
    /\ UNCHANGED <<strategy, paused, aborted>>

\* auto_complete_phases under the statuses st: failed when more hosts failed than
\* succeeded.
AutoCompleted(st) ==
    [k \in DOMAIN phases |->
        LET hosts == phases[k].hosts
            ok == {i \in hosts : st[Targets[i]] = "ACTIVATED"}
            bad == {i \in hosts : st[Targets[i]] = "FAILED"}
        IN  IF phases[k].state # "IN_PROGRESS" \/ hosts # ok \cup bad THEN phases[k]
            ELSE [phases[k] EXCEPT !.state = IF Cardinality(bad) > Cardinality(ok)
                                               THEN "FAILED" ELSE "COMPLETED"]]

\* report_host_status: any status at any time, so also before the host's phase has
\* started and after an abort has marked it failed.
ReportHostStatus(h, status) ==
    /\ hostStatus' = [hostStatus EXCEPT ![h] = status]
    /\ phases' = AutoCompleted(hostStatus')
    /\ UNCHANGED <<strategy, paused, aborted>>

\* report_host_error: the status only; no phase is completed.
ReportHostError(h) ==
    /\ hostStatus' = [hostStatus EXCEPT ![h] = "FAILED"]
    /\ UNCHANGED <<strategy, phases, paused, aborted>>

RetryHost(h) ==
    /\ HostTerminal(h)
    /\ hostStatus' = [hostStatus EXCEPT ![h] = "PENDING"]
    /\ UNCHANGED <<strategy, phases, paused, aborted>>

Restate(from, to) ==
    [k \in DOMAIN phases |-> IF phases[k].state = from THEN [phases[k] EXCEPT !.state = to] ELSE phases[k]]

PauseRollout ==
    /\ ~aborted
    /\ paused' = TRUE
    /\ phases' = Restate("IN_PROGRESS", "PAUSED")
    /\ UNCHANGED <<strategy, hostStatus, aborted>>

ResumeRollout ==
    /\ ~aborted
    /\ paused
    /\ paused' = FALSE
    /\ phases' = Restate("PAUSED", "IN_PROGRESS")
    /\ UNCHANGED <<strategy, hostStatus, aborted>>

AbortRollout ==
    /\ ~aborted
    /\ aborted' = TRUE
    /\ paused' = FALSE
    /\ hostStatus' = [h \in TargetHosts |-> IF HostTerminal(h) THEN hostStatus[h] ELSE "FAILED"]
    /\ phases' = [k \in DOMAIN phases |->
                    IF PhaseTerminal(phases[k].state) THEN phases[k]
                                                      ELSE [phases[k] EXCEPT !.state = "FAILED"]]
    /\ UNCHANGED strategy

RolloutNext ==
    \/ PlanPhases
    \/ PauseRollout
    \/ ResumeRollout
    \/ AbortRollout
    \/ \E k \in DOMAIN phases : StartPhase(k)
    \/ \E h \in TargetHosts :
        \/ ReportHostError(h)
        \/ RetryHost(h)
        \/ \E status \in HostStatuses : ReportHostStatus(h, status)

RolloutSpec == RolloutInit /\ [][RolloutNext]_rolloutVars

--------------------------------------------------------------------------------
\* The operator's switches and the phases agree, whatever is planned, started and
\* reported in between: while the rollout is paused nothing is in progress, while it
\* is not nothing is held, and after an abort neither ever happens again.
SwitchesHold ==
    \A k \in DOMAIN phases :
        /\ phases[k].state = "IN_PROGRESS" => ~paused /\ ~aborted
        /\ phases[k].state = "PAUSED" => paused /\ ~aborted

\* Every place of the target list is planned into exactly one phase, however often it is
\* planned and whatever was started, held or aborted since (the four planners; a canary
\* share that rounds to nothing or to too many, a short last batch, an odd list).
PlanCoversHosts ==
    phases # <<>> =>
        \A i \in 1..HostCount : \E k \in DOMAIN phases :
            \A j \in DOMAIN phases : i \in phases[j].hosts <=> j = k

\* "Canary cannot proceed to full rollout without >= threshold success": when the
\* second phase of a canary rollout is started, the canary hosts have succeeded.
CanaryGate ==
    [][\A k \in DOMAIN phases :
          /\ strategy = "CANARY"
          /\ k = 2
          /\ DOMAIN phases' = DOMAIN phases
          /\ phases[k].state = "PENDING"
          /\ phases'[k].state = "IN_PROGRESS"
          => 100 * Cardinality({i \in phases[1].hosts : hostStatus[Targets[i]] = "ACTIVATED"})
                >= Threshold * Cardinality(phases[1].hosts)]_rolloutVars
================================================================================
