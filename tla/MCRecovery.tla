------------------------------ MODULE MCRecovery ------------------------------
(* The recovery crate: the boundary composed with its three clients. The       *)
(* clients read the boundary and share nothing else, so a behaviour runs the   *)
(* boundary with one of them, chosen at the start.  One session and the scopes *)
(* of the component are all that the pipeline and the driver can tell apart;   *)
(* a component at the threshold is treated as a critical one.                  *)
EXTENDS KernelPipeline, FirstBoot, SelfHealing

VARIABLE client

MCScopeOf == [c \in Components |-> "COMPUTE"]

recoveryVars == <<boundaryVars, kernelVars, firstBootVars, healVars, client>>

RecoveryInit ==
    /\ BoundaryInit /\ KernelInit /\ FirstBootInit /\ HealInit
    /\ client \in {"none", "kernel", "first_boot", "healing"}
    /\ isolation \in [Components -> IF client = "healing" THEN {"BELOW", "CRITICAL"} ELSE {"BELOW"}]

RecoveryNext ==
    \/ /\ \/ client = "none" /\ BoundaryNext
          \/ client = "kernel" /\ SessionStep(1) /\ session' = 1
          \/ client = "first_boot" /\ SessionStep(1)
          \/ client = "healing" /\ SubBoundaryStep(1) /\ "STORAGE" \notin subs'
       /\ UNCHANGED <<kernelVars, firstBootVars, healVars, client>>
    \/ /\ client = "kernel" /\ KernelNext
       /\ UNCHANGED <<boundaryVars, firstBootVars, healVars, client>>
    \/ /\ client = "first_boot" /\ FirstBootNext
       /\ UNCHANGED <<boundaryVars, kernelVars, healVars, client>>
    \/ /\ client = "healing" /\ HealNext
       /\ UNCHANGED <<boundaryVars, kernelVars, firstBootVars, client>>

RecoverySpec == RecoveryInit /\ [][RecoveryNext]_recoveryVars /\ HealFairness
===============================================================================
