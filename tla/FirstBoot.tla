------------------------------ MODULE FirstBoot ------------------------------
(* First-boot provisioning of aios-recovery (first_boot.rs): fourteen phases   *)
(* in order, driven by whole runs or stage by stage. A run and mark_complete   *)
(* ask the recovery boundary before they take the state lock, and hold it to   *)
(* the end; an evidence append that fails returns at once.                     *)
(*                                                                             *)
(* Abstractions: a phase is its index in FIRST_BOOT_PROVISIONING_PHASES, the   *)
(* failure phase is one more; times and reasons are left out.                  *)
EXTENDS RecoveryBoundary

CONSTANTS
    NPhases,        \* provisioning phases, the last one StageFirstBootComplete
    MaxStageRecords,\* bound on the stage records
    Provisioners    \* concurrent callers of run_provisioning and mark_complete

ASSUME PhasesAssumption == NPhases \in Nat \ {0}

VARIABLES
    bootStatus,     \* FirstBootContext.status
    performed,      \* FirstBootContext.performed_phases
    stageStatus,    \* status of each of the stage_records
    provPc          \* "run" or "mark" past the recovery check, else "idle"

firstBootVars == <<bootStatus, performed, stageStatus, provPc>>

FailedPhase == NPhases + 1          \* StageFailedRequiresRecovery
Terminal == {"COMPLETED", "FAILED"}

FirstBootInit ==
    /\ bootStatus = "NOT_STARTED"
    /\ performed = <<>>
    /\ stageStatus = <<>>
    /\ provPc = [p \in Provisioners |-> "idle"]

\* next_phase, 0 for None
NextPhase ==
    CASE bootStatus = "FAILED" -> FailedPhase
      [] bootStatus # "FAILED" /\ Len(performed) < NPhases -> Len(performed) + 1
      [] OTHER -> 0

\* record_stage for each of the phases, with one status
Record(phases, status) ==
    /\ Len(performed) + Len(phases) <= MaxStageRecords
    /\ performed' = performed \o phases
    /\ stageStatus' = stageStatus \o [k \in DOMAIN phases |-> status]

\* The phases still to perform, up to the k-th.
PhasesUpTo(k) == [n \in 1..(k - Len(performed)) |-> Len(performed) + n]

-----------------------------------------------------------------------------
\* run_provisioning and mark_complete up to the recovery check
CheckRecovery(p, call) ==
    /\ provPc[p] = "idle"
    /\ call = "run" => bootStatus \notin Terminal
    /\ ~IsRecoveryActive
    /\ provPc' = [provPc EXCEPT ![p] = call]
    /\ UNCHANGED <<bootStatus, performed, stageStatus>>

(* run_provisioning under the lock: the evidence append of phase k fails (of   *)
(* FIRST_BOOT_STARTED for the k already performed), or every append succeeds.  *)
RunProvisioning(p) ==
    /\ provPc[p] = "run"
    /\ provPc' = [provPc EXCEPT ![p] = "idle"]
    /\ \/ bootStatus \in Terminal /\ UNCHANGED <<bootStatus, performed, stageStatus>>
       \/ /\ bootStatus \notin Terminal
          /\ \E k \in Len(performed)..NPhases : Record(PhasesUpTo(k), "SUCCESS")
          /\ bootStatus' = "IN_PROGRESS"
       \/ /\ bootStatus \notin Terminal
          /\ Len(performed) < NPhases
          /\ Record(PhasesUpTo(NPhases), "SUCCESS")
          /\ bootStatus' = "COMPLETED"

\* A mark_complete that accepts any phase before the last one.
MarkCompleteEarly(p) ==
    /\ provPc[p] = "mark"
    /\ provPc' = [provPc EXCEPT ![p] = "idle"]
    /\ NextPhase \in 1..NPhases
    /\ Record(<<NPhases>>, "SUCCESS")
    /\ bootStatus' = "COMPLETED"

\* mark_complete under the lock; an append that fails leaves the status.
MarkComplete(p) ==
    /\ provPc[p] = "mark"
    /\ provPc' = [provPc EXCEPT ![p] = "idle"]
    /\ IF NextPhase = NPhases /\ bootStatus # "COMPLETED"
       THEN /\ Record(<<NPhases>>, "SUCCESS")
            /\ bootStatus' \in {bootStatus, "COMPLETED"}
       ELSE UNCHANGED <<bootStatus, performed, stageStatus>>

SkipStage(phase) ==
    /\ phase \notin {NPhases, FailedPhase}
    /\ phase = NextPhase
    /\ bootStatus' = "IN_PROGRESS"
    /\ Record(<<phase>>, "SKIPPED")
    /\ UNCHANGED provPc

FailStage(phase) ==
    /\ phase = NextPhase
    /\ Record(<<phase, FailedPhase>>, "FAILED")
    /\ bootStatus' = "FAILED"
    /\ UNCHANGED provPc

FirstBootNext ==
    \/ \E p \in Provisioners :
          \/ \E call \in {"run", "mark"} : CheckRecovery(p, call)
          \/ RunProvisioning(p) \/ MarkComplete(p)
    \/ \E phase \in 1..FailedPhase : SkipStage(phase) \/ FailStage(phase)

FirstBootSpec == FirstBootInit /\ [][FirstBootNext]_firstBootVars

-----------------------------------------------------------------------------
\* Types; every performed phase has its stage record (record_stage).
FirstBootTypeOK ==
    /\ bootStatus \in {"NOT_STARTED", "IN_PROGRESS"} \union Terminal
    /\ performed \in Seq(Nat)
    /\ stageStatus \in Seq({"SUCCESS", "SKIPPED", "FAILED"})
    /\ Len(performed) = Len(stageStatus)
    /\ provPc \in [Provisioners -> {"idle", "run", "mark"}]

(* Stages are accounted in order: the phases performed are 1, 2, ... without a *)
(* gap or a repeat, then the marks of a failure and nothing else; a boot that  *)
(* completed performed all of them and failed none, with two drivers, skips    *)
(* and failures interleaved (first_boot.rs:133-237, :376-399).                 *)
StagesInOrder ==
    /\ \E n \in 0..NPhases : \A k \in DOMAIN performed :
          /\ performed[k] = (IF k <= n THEN k ELSE FailedPhase)
          /\ k < n => stageStatus[k] # "FAILED"
    /\ bootStatus = "COMPLETED" =>
          /\ Len(performed) = NPhases
          /\ \A k \in DOMAIN stageStatus : stageStatus[k] # "FAILED"
    /\ bootStatus = "FAILED" <=> \E k \in DOMAIN stageStatus : stageStatus[k] = "FAILED"

(* A boot that completed or failed stays so and a completed one records no     *)
(* further stage: a driver that passed its recovery check before the end       *)
(* changes nothing when it gets the lock (first_boot.rs:141-150).              *)
BootOutcomeFinal ==
    [][/\ bootStatus \in Terminal => bootStatus' = bootStatus
       /\ bootStatus = "COMPLETED" => UNCHANGED performed]_firstBootVars

(* first_boot.rs:193-199 lets mark_complete fail only when a prior stage was   *)
(* not performed in order: a boot whose stages are all performed is completed. *)
AllPerformedIsCompleted ==
    Len(performed) = NPhases /\ bootStatus # "FAILED" => bootStatus = "COMPLETED"
=============================================================================
