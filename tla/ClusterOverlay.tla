----------------------------- MODULE ClusterOverlay -----------------------------
(* ClusterOverlayController: the peers of the overlay, their roles and tunnels and *)
(* the coordinator.  One mutex guards the state; re_elect_on_coordinator_lost lets *)
(* go of it between disconnecting the failed coordinator and electing another, so  *)
(* it is two steps.  Membership lists are arguments and may be out of date.  The   *)
(* clock is left out: a connected peer may be found silent at any time.            *)
EXTENDS Naturals, FiniteSets

CONSTANTS
    OverlayHosts,    \* numbers; the election sorts by host id
    OverlayModes,
    NoCoordinator

VARIABLES
    mode,
    peerState,       \* peers[h].state; "ABSENT" when not a peer
    role,            \* peers[h].role; "SPOKE" when not a peer
    mesh,            \* mesh_connections: the pairs joined; which of the two comes first in
                     \* the key is up to the order of a hash map and decides nothing
    coordinatorId,
    reElection       \* candidates of a re-election that has dropped the lock; {} for none

overlayVars == <<mode, peerState, role, mesh, coordinatorId, reElection>>

Peers == {h \in OverlayHosts : peerState[h] # "ABSENT"}
LeadRoles == {"HUB", "COORDINATOR"}

OverlayInit ==
    /\ mode \in OverlayModes
    /\ peerState = [h \in OverlayHosts |-> "ABSENT"]
    /\ role = [h \in OverlayHosts |-> "SPOKE"]
    /\ mesh = {}
    /\ coordinatorId = NoCoordinator
    /\ reElection = {}

\* add_peer, of a host that is not a peer.
AddPeer(h) ==
    /\ h \notin Peers
    /\ peerState' = [peerState EXCEPT ![h] = "DISCOVERED"]
    /\ UNCHANGED <<mode, role, mesh, coordinatorId, reElection>>

PeerKeyExchange(h) ==
    /\ peerState[h] \in {"DISCOVERED", "KEY_EXCHANGE"}
    /\ peerState' = [peerState EXCEPT ![h] = "CONNECTED"]
    /\ UNCHANGED <<mode, role, mesh, coordinatorId, reElection>>

\* heartbeat, where it changes the state.
Heartbeat(h) ==
    /\ peerState[h] = "HEARTBEAT_LOST"
    /\ peerState' = [peerState EXCEPT ![h] = "CONNECTED"]
    /\ UNCHANGED <<mode, role, mesh, coordinatorId, reElection>>

\* detect_heartbeat_lost, past the timeout.
DetectHeartbeatLost(h) ==
    /\ peerState[h] = "CONNECTED"
    /\ peerState' = [peerState EXCEPT ![h] = "HEARTBEAT_LOST"]
    /\ UNCHANGED <<mode, role, mesh, coordinatorId, reElection>>

\* The tunnels remove_peer retains.
TunnelsWithout(h) == {e \in mesh : h \notin e}

RemovePeer(h) ==
    /\ h \in Peers
    /\ peerState' = [peerState EXCEPT ![h] = "ABSENT"]
    /\ role' = [role EXCEPT ![h] = "SPOKE"]
    /\ mesh' = TunnelsWithout(h)
    /\ coordinatorId' = IF coordinatorId = h THEN NoCoordinator ELSE coordinatorId
    /\ UNCHANGED <<mode, reElection>>

\* elect_coordinator: the smallest enrolled host id, whether or not it is a peer.
ElectCoordinator(enrolled) ==
    /\ coordinatorId' = CHOOSE h \in enrolled : \A g \in enrolled : h <= g
    /\ UNCHANGED <<mode, peerState, role, mesh>>

Elect(enrolled) == enrolled # {} /\ ElectCoordinator(enrolled) /\ UNCHANGED reElection

\* re_elect_on_coordinator_lost up to drop(inner); with no candidate left the call
\* fails here, with no coordinator.
ReElectBegin(failed, enrolled) ==
    /\ reElection = {}
    /\ peerState' = [peerState EXCEPT ![failed] = IF @ = "ABSENT" THEN @ ELSE "DISCONNECTED"]
    /\ coordinatorId' = NoCoordinator
    /\ reElection' = enrolled \ {failed}
    /\ UNCHANGED <<mode, role, mesh>>

ReElectFinish == reElection # {} /\ ElectCoordinator(reElection) /\ reElection' = {}

\* The role loop over the new hub alone.
RolesKeepingOthers(lead, leadRole) == [role EXCEPT ![lead] = leadRole]

\* The role loop over all peers.
RolesOf(lead, leadRole) == [h \in OverlayHosts |-> IF h = lead THEN leadRole ELSE "SPOKE"]

EstablishHubAndSpoke(h) ==
    /\ mode = "HUB_AND_SPOKE"
    /\ h \in Peers
    /\ role' = RolesOf(h, "HUB")
    /\ mesh' = {}
    /\ coordinatorId' = h
    /\ UNCHANGED <<mode, peerState, reElection>>

\* establish_full_mesh: one tunnel for every two peers.
EstablishFullMesh ==
    /\ mode = "FULL_MESH"
    /\ Peers # {}
    /\ role' = [h \in OverlayHosts |-> IF h \in Peers THEN "MESH_MEMBER" ELSE "SPOKE"]
    /\ mesh' = {e \in SUBSET Peers : Cardinality(e) = 2}
    /\ UNCHANGED <<mode, peerState, coordinatorId, reElection>>

EstablishHybridRelayedMesh ==
    /\ mode = "HYBRID_RELAYED_MESH"
    /\ coordinatorId \in Peers
    /\ role' = RolesOf(coordinatorId, "COORDINATOR")
    /\ mesh' = {}
    /\ UNCHANGED <<mode, peerState, coordinatorId, reElection>>

OverlayNext ==
    \/ EstablishFullMesh
    \/ EstablishHybridRelayedMesh
    \/ ReElectFinish
    \/ \E enrolled \in SUBSET OverlayHosts : Elect(enrolled)
    \/ \E h \in OverlayHosts :
        \/ AddPeer(h)
        \/ PeerKeyExchange(h)
        \/ Heartbeat(h)
        \/ DetectHeartbeatLost(h)
        \/ RemovePeer(h)
        \/ EstablishHubAndSpoke(h)
        \/ \E enrolled \in SUBSET OverlayHosts : ReElectBegin(h, enrolled)

OverlaySpec == OverlayInit /\ [][OverlayNext]_overlayVars

--------------------------------------------------------------------------------
\* Every tunnel joins two hosts that are peers now, whatever was added and removed
\* since the mesh was built (establish_full_mesh, remove_peer).
TunnelsJoinPeers == \A e \in mesh : e \subseteq Peers

\* At most one peer leads: after any sequence of elections, removals and topology
\* changes no two peers hold the hub or coordinator role.
OneLead == \A g, h \in OverlayHosts : role[g] \in LeadRoles /\ role[h] \in LeadRoles => g = h

\* A coordinator that was declared lost stays out: its late heartbeats do not bring
\* it back, only removing it and adding it again does (heartbeat, re_elect).
LostStaysOut ==
    [][\A h \in OverlayHosts :
          peerState[h] = "DISCONNECTED" => peerState'[h] \in {"DISCONNECTED", "ABSENT"}]_overlayVars
================================================================================
