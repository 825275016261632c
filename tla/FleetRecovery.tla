------------------------------ MODULE FleetRecovery ------------------------------
(* FleetRecoveryCoordinator of one host: the coordinator it follows, the deadline *)
(* that heartbeats set, promotion of a backup, election and split brain.  The      *)
(* instances of different hosts share nothing but heartbeats, which travel over a *)
(* network that loses, delays, repeats and reorders them; any host may take itself *)
(* for the coordinator and send them.  Clocks are synchronised.  Left out are the  *)
(* signatures, and last_health_status, which is only ever written.                 *)
EXTENDS Naturals, Sequences, FiniteSets

CONSTANTS
    Hosts,
    HostOrder,       \* Hosts in the order of their ids (enrolled_member_ids sorts)
    Backups,         \* backup_coordinators
    QuorumSize,      \* quorum_size
    Timeout,         \* heartbeat_timeout_secs
    MaxTime,         \* bound on the clock
    MaxHeartbeats,   \* bound on the heartbeats sent
    Nobody           \* current_coordinator = None

ASSUME TimeoutAssumption == Timeout \in Nat

VARIABLES
    time,
    coordinator,     \* current_coordinator
    deadline,        \* coordinator_heartbeat_deadline; 0 stands for None
    lastSequence,    \* last_heartbeat_sequence
    claimed,         \* claimed_coordinators: <<id, timestamp>>
    enrolled,        \* the members whose state is ENROLLED in memberships
    heartbeats       \* every heartbeat sent: loss and repetition need no step

recVars == <<time, coordinator, deadline, lastSequence, claimed, enrolled, heartbeats>>

FleetRecoveryInit ==
    /\ time = 1
    /\ coordinator = Nobody
    /\ deadline = 0
    /\ lastSequence = 0
    /\ claimed = <<>>
    /\ enrolled = Hosts
    /\ heartbeats = {}

\* A host sends its next heartbeat; the senders are not part of the crate.
SendHeartbeat(h) ==
    LET sent == Cardinality({b \in heartbeats : b.from = h})
    IN  /\ Cardinality(heartbeats) < MaxHeartbeats
        /\ heartbeats' = heartbeats \cup {[from |-> h, sequence |-> sent + 1, at |-> time]}
        /\ UNCHANGED <<time, coordinator, deadline, lastSequence, claimed, enrolled>>

\* record_claimed_coordinator: one claim for each claimant.
WithClaim(b) ==
    IF \E i \in DOMAIN claimed : claimed[i][1] = b.from THEN claimed
                                                       ELSE Append(claimed, <<b.from, b.at>>)

\* The deadline counted from the arrival.
DeadlineFromArrival(b) == time + Timeout

\* The deadline a heartbeat sets, counted from its timestamp.
DeadlineOf(b) == b.at + Timeout

\* detect_split_brain, asked only about a heartbeat of another host.
SplitBrainDetected(foreign, claims) == foreign /\ Len(claims) >= 2

\* receive_heartbeat: a heartbeat of another host is a claim; with two claims known
\* the call ends in SplitBrainDetected, with one it goes on as if it came from the
\* coordinator.  A sequence that does not advance is refused, after the claim.
ReceiveHeartbeat(b) ==
    LET foreign == coordinator # Nobody /\ b.from # coordinator
        claims == IF foreign THEN WithClaim(b) ELSE claimed
        accepted == ~SplitBrainDetected(foreign, claims) /\ b.sequence > lastSequence
    IN  /\ b \in heartbeats
        /\ claimed' = claims
        /\ lastSequence' = IF accepted THEN b.sequence ELSE lastSequence
        /\ deadline' = IF accepted THEN DeadlineOf(b) ELSE deadline
        /\ UNCHANGED <<time, coordinator, enrolled, heartbeats>>

\* check_coordinator_alive.
CheckCoordinatorAlive ==
    IF coordinator = Nobody \/ deadline = 0 \/ time > deadline THEN "DEGRADED"
    ELSE IF Cardinality(enrolled) < QuorumSize THEN "QUORUM_LOST" ELSE "HEALTHY"

\* A change of coordinator forgets the deadline and the sequence of the old one.
Follow(c) ==
    /\ coordinator' = c
    /\ deadline' = 0
    /\ lastSequence' = 0

\* set_coordinator: the owner names a coordinator, whoever is followed now; the deadline
\* and the sequence of the old one stay.
SetCoordinator(c) ==
    /\ coordinator' = c
    /\ UNCHANGED <<time, deadline, lastSequence, claimed, enrolled, heartbeats>>

EnrolledBackups == SelectSeq(Backups, LAMBDA b : b \in enrolled)
EnrolledMemberIds == SelectSeq(HostOrder, LAMBDA m : m \in enrolled)

\* promote_coordinator.
PromoteCoordinator ==
    /\ coordinator = Nobody \/ CheckCoordinatorAlive # "HEALTHY"
    /\ Cardinality(enrolled) >= QuorumSize
    /\ EnrolledBackups # <<>>
    /\ Follow(Head(EnrolledBackups))
    /\ UNCHANGED <<time, claimed, enrolled, heartbeats>>

\* elect_new_coordinator: whatever the health, and any member when no backup is left.
ElectNewCoordinator ==
    /\ Cardinality(enrolled) >= QuorumSize
    /\ enrolled # {}
    /\ Follow(Head(EnrolledBackups \o EnrolledMemberIds))
    /\ UNCHANGED <<time, claimed, enrolled, heartbeats>>

\* recover_from_split_brain: the claimant with the latest timestamp; the sort is
\* stable, so the earlier claim wins a tie.
RecoverFromSplitBrain ==
    /\ Len(claimed) >= 2
    /\ \E i \in DOMAIN claimed :
          /\ \A j \in DOMAIN claimed : \/ claimed[i][2] > claimed[j][2]
                                       \/ claimed[i][2] = claimed[j][2] /\ i <= j
          /\ Follow(claimed[i][1])
    /\ claimed' = <<>>
    /\ UNCHANGED <<time, enrolled, heartbeats>>

\* The table of memberships is a public field; its owner drops a member from it.
DropMember(m) ==
    /\ m \in enrolled
    /\ enrolled' = enrolled \ {m}
    /\ UNCHANGED <<time, coordinator, deadline, lastSequence, claimed, heartbeats>>

FleetTick ==
    /\ time < MaxTime
    /\ time' = time + 1
    /\ UNCHANGED <<coordinator, deadline, lastSequence, claimed, enrolled, heartbeats>>

FleetRecoveryNext ==
    \/ FleetTick
    \/ PromoteCoordinator
    \/ ElectNewCoordinator
    \/ RecoverFromSplitBrain
    \/ \E b \in heartbeats : ReceiveHeartbeat(b)
    \/ \E h \in Hosts : SendHeartbeat(h) \/ SetCoordinator(h) \/ DropMember(h)

FleetRecoverySpec == FleetRecoveryInit /\ [][FleetRecoveryNext]_recVars

--------------------------------------------------------------------------------
\* A host that reports a healthy fleet rests on a heartbeat that was sent no longer
\* than the timeout ago, however late, often or out of order the network delivered
\* it (check_coordinator_alive, receive_heartbeat).
HealthyIsRecent ==
    CheckCoordinatorAlive = "HEALTHY" => \E b \in heartbeats : b.at + Timeout >= time

\* Once two other hosts have claimed to be coordinator, only the coordinator's own
\* heartbeats move the deadline, until the split brain is resolved.
SplitBrainHolds ==
    [][Len(claimed) >= 2 /\ coordinator # Nobody /\ deadline' \notin {0, deadline} =>
          \E b \in heartbeats : b.from = coordinator /\ DeadlineOf(b) = deadline']_recVars

\* "Split-brain is always detected, never silently resolved": no heartbeat of another
\* host is taken for one of the coordinator.
SplitBrainNeverSilent ==
    [][coordinator # Nobody /\ deadline' \notin {0, deadline} =>
          \E b \in heartbeats : b.from = coordinator /\ DeadlineOf(b) = deadline']_recVars
================================================================================
