---------------------------- MODULE KernelPipeline ----------------------------
(* The kernel candidate pipeline of aios-recovery (kernel_pipeline.rs), the    *)
(* slot A image it activates and the bounded stack of images it can roll back  *)
(* to. Promotion reads the candidate and asks the recovery boundary first, and *)
(* takes the candidate and slot locks afterwards.                              *)
(*                                                                             *)
(* Abstractions: a candidate is an id and whether its manifest asks for a      *)
(* recovery install; an unsigned manifest is refused and changes nothing; the  *)
(* receipts of the pipeline are left out.                                      *)
EXTENDS RecoveryBoundary

CONSTANTS
    Candidates,             \* ids the pipeline may register
    RecoveryOnly,           \* those whose manifest has requires_recovery_install
    Installers,             \* concurrent callers of activate_candidate
    RollbackStackCapacity,  \* ROLLBACK_STACK_CAPACITY
    NoCandidate             \* Option::None for a candidate id

ASSUME KernelAssumption == RollbackStackCapacity \in Nat /\ NoCandidate \notin Candidates

VARIABLES
    candState,      \* KernelCandidate.state, "NONE" before registration
    activeId,       \* active_id
    rollbackStack,  \* rollback_stack, oldest first
    installing      \* candidate an installer was cleared to promote

kernelVars == <<candState, activeId, rollbackStack, installing>>

CandidateState == {"BUILT", "GATE_PASSED", "A_PROMOTED", "ROLLBACK", "RETIRED"}

KernelInit ==
    /\ candState = [c \in Candidates |-> "NONE"]
    /\ activeId = NoCandidate
    /\ rollbackStack = <<>>
    /\ installing = [i \in Installers |-> NoCandidate]

\* transition_allowed, over the states the pipeline gives a candidate
TransitionAllowed(from, to) ==
    <<from, to>> \in
        {<<"BUILT", "GATE_PASSED">>,
         <<"GATE_PASSED", "A_PROMOTED">>, <<"GATE_PASSED", "RETIRED">>,
         <<"A_PROMOTED", "ROLLBACK">>, <<"A_PROMOTED", "RETIRED">>,
         <<"ROLLBACK", "RETIRED">>}

Transition(c, to) ==
    /\ TransitionAllowed(candState[c], to)
    /\ candState' = [candState EXCEPT ![c] = to]

\* trim_rollback_stack
Trim(stack) ==
    LET overflow == IF Len(stack) > RollbackStackCapacity
                    THEN Len(stack) - RollbackStackCapacity ELSE 0
    IN  SubSeq(stack, overflow + 1, Len(stack))

-----------------------------------------------------------------------------
RegisterCandidate(c) ==
    /\ candState[c] = "NONE"
    /\ candState' = [candState EXCEPT ![c] = "BUILT"]
    /\ UNCHANGED <<activeId, rollbackStack, installing>>

\* BUILT -> GATING -> GATE_PASSED under one lock
VerifyCandidate(c) ==
    /\ Transition(c, "GATE_PASSED")
    /\ UNCHANGED <<activeId, rollbackStack, installing>>

\* activate_candidate: the recovery check, before the locks
CheckActivation(i, c) ==
    /\ installing[i] = NoCandidate
    /\ candState[c] # "NONE"
    /\ c \in RecoveryOnly => IsRecoveryActive
    /\ installing' = [installing EXCEPT ![i] = c]
    /\ UNCHANGED <<candState, activeId, rollbackStack>>

\* activate_candidate under the candidate and slot locks
ActivateCandidate(i) ==
    LET c == installing[i] IN
    /\ c # NoCandidate
    /\ IF TransitionAllowed(candState[c], "A_PROMOTED")
       THEN /\ candState' = [candState EXCEPT ![c] = "A_PROMOTED"]
            /\ rollbackStack' = IF activeId \in {NoCandidate, c} THEN rollbackStack
                                ELSE Trim(Append(rollbackStack, activeId))
            /\ activeId' = c
       ELSE UNCHANGED <<candState, rollbackStack, activeId>>
    /\ installing' = [installing EXCEPT ![i] = NoCandidate]

\* A rollback that leaves the restored image on the stack.
RollbackKeepsEntry(c) ==
    /\ activeId = c
    /\ rollbackStack # <<>>
    /\ Transition(c, "ROLLBACK")
    /\ activeId' = rollbackStack[Len(rollbackStack)]
    /\ UNCHANGED <<rollbackStack, installing>>

RollbackCandidate(c) ==
    /\ activeId = c
    /\ rollbackStack # <<>>
    /\ Transition(c, "ROLLBACK")
    /\ activeId' = rollbackStack[Len(rollbackStack)]
    /\ rollbackStack' = SubSeq(rollbackStack, 1, Len(rollbackStack) - 1)
    /\ UNCHANGED installing

RetireCandidate(c) ==
    /\ activeId # c
    /\ Transition(c, "RETIRED")
    /\ UNCHANGED <<activeId, rollbackStack, installing>>

KernelNext ==
    \/ \E c \in Candidates :
          \/ RegisterCandidate(c) \/ VerifyCandidate(c)
          \/ RollbackCandidate(c) \/ RetireCandidate(c)
          \/ \E i \in Installers : CheckActivation(i, c)
    \/ \E i \in Installers : ActivateCandidate(i)

KernelSpec == KernelInit /\ [][KernelNext]_kernelVars

-----------------------------------------------------------------------------
StackSet == {rollbackStack[k] : k \in DOMAIN rollbackStack}

\* Types; the rollback stack stays within its capacity (trim_rollback_stack).
KernelTypeOK ==
    /\ candState \in [Candidates -> CandidateState \union {"NONE"}]
    /\ activeId \in Candidates \union {NoCandidate}
    /\ rollbackStack \in Seq(Candidates)
    /\ Len(rollbackStack) <= RollbackStackCapacity
    /\ installing \in [Installers -> Candidates \union {NoCandidate}]

(* The rollback stack is the history of slot A: an image is on it at most once,*)
(* the active one is not on it, and every image on it or active was promoted   *)
(* and never rolled back, however promotions cleared at the same time, later   *)
(* rollbacks and retirements interleave (kernel_pipeline.rs:157-173, :213-240).*)
RollbackStackSound ==
    /\ \A i, j \in DOMAIN rollbackStack : rollbackStack[i] = rollbackStack[j] => i = j
    /\ activeId \notin StackSet
    /\ \A c \in StackSet \union ({activeId} \ {NoCandidate}) :
          candState[c] \in {"A_PROMOTED", "RETIRED"}

(* kernel.rs:75 "RETIRED - image is archived and no longer bootable": the      *)
(* image in slot A is never a retired one.                                     *)
RetiredNotActive == activeId # NoCandidate => candState[activeId] # "RETIRED"

(* kernel_pipeline.rs:130 "promotion is admitted only while the S9.1 boundary  *)
(* reports recovery mode active": a recovery-only image becomes active by a    *)
(* promotion during recovery.                                                  *)
PromotedInRecovery ==
    [][\A c \in RecoveryOnly :
          candState[c] # "A_PROMOTED" /\ candState'[c] = "A_PROMOTED" => IsRecoveryActive]_kernelVars
=============================================================================
