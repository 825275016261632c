---------------------------- MODULE FleetMembership ----------------------------
(* FleetMembershipDriver: the coordinator's table of fleet memberships and the    *)
(* events it emits.  The driver is used through &mut self, so a call is one step. *)
(* Keys, signatures and PCR values are left out: a proof verifies or the call     *)
(* returns its error and changes nothing.                                         *)
EXTENDS Naturals, Sequences, FiniteSets

CONSTANTS
    Members,         \* membership ids
    PostureFloor,    \* posture_floor
    MaxScore,        \* bound on the posture scores
    MaxSignatures,   \* bound on the signatures that come with an expulsion
    MaxEvents        \* bound on the events of a membership that is withdrawn again

ASSUME FleetIsFinite == IsFiniteSet(Members)

VARIABLES
    memberState,     \* memberships[m].state; "ABSENT" before discover
    events,          \* the events emitted for each membership, in order
    score            \* posture_scores: MaxScore + 1 stands for no entry

fleetVars == <<memberState, events, score>>

MemberStates == {"DISCOVERED", "INVITED", "ATTESTING", "ENROLLED", "SUSPENDED",
                 "QUARANTINED", "WITHDRAWN", "EXPELLED"}
Enrolled == {m \in Members : memberState[m] = "ENROLLED"}

FleetInit ==
    /\ memberState = [m \in Members |-> "ABSENT"]
    /\ events = [m \in Members |-> <<>>]
    /\ score = [m \in Members |-> MaxScore + 1]

\* The invitation alone enrols.
MayMoveUnattested(from, to) ==
    \/ to = "WITHDRAWN"
    \/ <<from, to>> \in {<<"DISCOVERED", "INVITED">>, <<"INVITED", "ATTESTING">>,
                         <<"INVITED", "ENROLLED">>,
                         <<"ATTESTING", "ENROLLED">>, <<"ENROLLED", "SUSPENDED">>,
                         <<"ENROLLED", "EXPELLED">>, <<"ENROLLED", "QUARANTINED">>,
                         <<"QUARANTINED", "EXPELLED">>}

\* FleetMembership::transition.  WITHDRAWN is reached from every state.
MayMove(from, to) ==
    \/ to = "WITHDRAWN"
    \/ <<from, to>> \in {<<"DISCOVERED", "INVITED">>, <<"INVITED", "ATTESTING">>,
                         <<"ATTESTING", "ENROLLED">>, <<"ENROLLED", "SUSPENDED">>,
                         <<"ENROLLED", "EXPELLED">>, <<"ENROLLED", "QUARANTINED">>,
                         <<"QUARANTINED", "EXPELLED">>}

\* transition_to, followed by the event of the new state.
MoveTo(m, to) ==
    /\ memberState[m] # "ABSENT"
    /\ MayMove(memberState[m], to)
    /\ memberState' = [memberState EXCEPT ![m] = to]
    /\ events' = [events EXCEPT ![m] = Append(@, to)]

Discover(m) ==
    /\ memberState[m] = "ABSENT"
    /\ memberState' = [memberState EXCEPT ![m] = "DISCOVERED"]
    /\ events' = [events EXCEPT ![m] = <<"DISCOVERED">>]
    /\ UNCHANGED score

\* invite, attest, enroll, suspend, quarantine, withdraw.
Invite(m) == MoveTo(m, "INVITED") /\ UNCHANGED score
Attest(m) == MoveTo(m, "ATTESTING") /\ UNCHANGED score
Enroll(m) == MoveTo(m, "ENROLLED") /\ UNCHANGED score
Suspend(m) == MoveTo(m, "SUSPENDED") /\ UNCHANGED score
Quarantine(m) == MoveTo(m, "QUARANTINED") /\ UNCHANGED score

\* A second withdrawal is accepted and repeats the event.
Withdraw(m) ==
    /\ Len(events[m]) < MaxEvents
    /\ MoveTo(m, "WITHDRAWN")
    /\ UNCHANGED score

\* quorum_threshold: ceil(2n / 3), at least one.
QuorumThreshold(n) == IF n = 0 THEN 1 ELSE (2 * n + 2) \div 3

\* expel with a list of k signatures, of which the code takes the length alone: whose
\* they are and whether two are the same is not looked at. The quorum is taken over the
\* members enrolled now, the one to be expelled included.
Expel(m, k) ==
    /\ k >= QuorumThreshold(Cardinality(Enrolled))
    /\ MoveTo(m, "EXPELLED")
    /\ UNCHANGED score

SetPostureScore(m, s) ==
    /\ memberState[m] # "ABSENT"
    /\ score' = [score EXCEPT ![m] = s]
    /\ UNCHANGED <<memberState, events>>

\* enforce_posture_floor: a member under the floor is suspended; a member that
\* cannot be suspended is reported and left as it is.
EnforcePostureFloor(m) ==
    /\ score[m] < PostureFloor
    /\ MayMove(memberState[m], "SUSPENDED")
    /\ Suspend(m)

FleetNext ==
    \E m \in Members :
        \/ Discover(m)
        \/ Invite(m)
        \/ Attest(m)
        \/ Enroll(m)
        \/ Suspend(m)
        \/ Quarantine(m)
        \/ Withdraw(m)
        \/ EnforcePostureFloor(m)
        \/ \E k \in 0..MaxSignatures : Expel(m, k)
        \/ \E s \in 0..MaxScore : SetPostureScore(m, s)

FleetSpec == FleetInit /\ [][FleetNext]_fleetVars

--------------------------------------------------------------------------------
\* The events of a membership tell its state, and a member that was ever enrolled
\* has been discovered, invited and attested first, in that order, whatever calls
\* were refused in between (transition_to, emit_event).
EventsTellState ==
    \A m \in Members :
        /\ memberState[m] # "ABSENT" => events[m][Len(events[m])] = memberState[m]
        /\ \A i \in DOMAIN events[m] :
              events[m][i] = "ENROLLED" =>
                  /\ i = 4
                  /\ events[m][1] = "DISCOVERED"
                  /\ events[m][2] = "INVITED"
                  /\ events[m][3] = "ATTESTING"
================================================================================
