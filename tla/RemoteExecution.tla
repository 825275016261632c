---------------------------- MODULE RemoteExecution ----------------------------
(* RemoteWorkloadRouter: a workload is routed to another host once the origin and  *)
(* the target have both approved.  Calls go through &mut self; the two hosts call  *)
(* in any order and as often as they like.                                         *)
EXTENDS Naturals

CONSTANT Jobs

VARIABLES
    jobState,     \* active_jobs[j].state; "ABSENT" before propose_route
    decision      \* decision[j][side]: origin_decision and target_decision

jobVars == <<jobState, decision>>

Sides == {"ORIGIN", "TARGET"}
Approved(side) == IF side = "ORIGIN" THEN "ORIGIN_APPROVED" ELSE "TARGET_APPROVED"

RemoteInit ==
    /\ jobState = [j \in Jobs |-> "ABSENT"]
    /\ decision = [j \in Jobs |-> [s \in Sides |-> "NONE"]]

\* can_transition_to.
CanTransitionTo(from, to) ==
    <<from, to>> \in {<<"PROPOSED", "ORIGIN_APPROVED">>, <<"PROPOSED", "TARGET_APPROVED">>,
                      <<"PROPOSED", "REJECTED">>, <<"ORIGIN_APPROVED", "TARGET_APPROVED">>,
                      <<"TARGET_APPROVED", "ORIGIN_APPROVED">>, <<"ORIGIN_APPROVED", "REJECTED">>,
                      <<"TARGET_APPROVED", "REJECTED">>, <<"TARGET_APPROVED", "TRANSFERRING">>,
                      <<"TRANSFERRING", "RUNNING">>, <<"TRANSFERRING", "FAILED">>,
                      <<"RUNNING", "COMPLETED">>, <<"RUNNING", "FAILED">>}

TransitionTo(j, to) ==
    /\ CanTransitionTo(jobState[j], to)
    /\ jobState' = [jobState EXCEPT ![j] = to]

\* propose_route, for a class that is not BLOCKED_ROUTE.
ProposeRoute(j) ==
    /\ jobState[j] = "ABSENT"
    /\ jobState' = [jobState EXCEPT ![j] = "PROPOSED"]
    /\ UNCHANGED decision

\* origin_approve and target_approve, recording the decision before the transition.
RecordThenDecide(j, side, verdict) ==
    LET to == IF verdict = "APPROVE" THEN Approved(side) ELSE "REJECTED"
    IN  /\ jobState[j] # "ABSENT"
        /\ jobState' = IF CanTransitionTo(jobState[j], to) THEN [jobState EXCEPT ![j] = to] ELSE jobState
        /\ decision' = [decision EXCEPT ![j][side] = verdict]

\* origin_approve and target_approve with a decision that is not an AI's.
Decide(j, side, verdict) ==
    /\ TransitionTo(j, IF verdict = "APPROVE" THEN Approved(side) ELSE "REJECTED")
    /\ decision' = [decision EXCEPT ![j][side] = verdict]

\* transfer_workload: both_approved.
TransferWorkload(j) ==
    /\ jobState[j] = "TARGET_APPROVED"
    /\ \A s \in Sides : decision[j][s] = "APPROVE"
    /\ TransitionTo(j, "TRANSFERRING")
    /\ UNCHANGED decision

MarkRunning(j) == TransitionTo(j, "RUNNING") /\ UNCHANGED decision

\* report_result: zero completes, anything else fails.
ReportResult(j, exitCode) ==
    /\ TransitionTo(j, IF exitCode = 0 THEN "COMPLETED" ELSE "FAILED")
    /\ UNCHANGED decision

\* reject: each side that has not decided is recorded as rejecting.
Reject(j) ==
    /\ TransitionTo(j, "REJECTED")
    /\ decision' = [decision EXCEPT ![j] =
                       [s \in Sides |-> IF @[s] = "NONE" THEN "REJECT" ELSE @[s]]]

RemoteNext ==
    \E j \in Jobs :
        \/ ProposeRoute(j)
        \/ TransferWorkload(j)
        \/ MarkRunning(j)
        \/ Reject(j)
        \/ \E side \in Sides, verdict \in {"APPROVE", "REJECT"} : Decide(j, side, verdict)
        \/ \E exitCode \in 0..1 : ReportResult(j, exitCode)

RemoteSpec == RemoteInit /\ [][RemoteNext]_jobVars

--------------------------------------------------------------------------------
\* A workload that was transferred had both approvals, and still has them whatever
\* the two sides call afterwards: a late veto is refused and leaves no trace in the
\* record (origin_approve, target_approve, transfer_workload).
TransferredWasApproved ==
    \A j \in Jobs :
        jobState[j] \in {"TRANSFERRING", "RUNNING", "COMPLETED", "FAILED"} =>
            \A s \in Sides : decision[j][s] = "APPROVE"

\* A rejection by either side ends the job, and no other
\* decision is recorded over it.
VetoIsFinal ==
    \A j \in Jobs : (\E s \in Sides : decision[j][s] = "REJECT") => jobState[j] = "REJECTED"
================================================================================
