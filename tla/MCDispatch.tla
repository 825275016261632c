------------------------------ MODULE MCDispatch ------------------------------
(* The dispatch queue, the approval sink and the approval gate of the capability *)
(* runtime.  They share no state, so a behaviour runs one of them, chosen at the *)
(* start.  Requests and bindings are two each, so that a request can hold two    *)
(* bindings; two capsules may propose the same action id while a sweep runs.     *)
EXTENDS DispatchQueue, ApprovalSink, ApprovalGate, TLC

CONSTANTS q1, q2, b1, b2, h1, g1, c1, c2

VARIABLE client

\* An odd total (5): AGENT_PROPOSAL is configured above its 50 % cap, so the
\* cap (2) is the tighter rule; RECOVERY_PRIORITY has no slots at all.
MCCapacity == [c \in QueueClass |->
                 CASE c = "Interactive" -> 1
                   [] c = "AgentProposal" -> 3
                   [] c = "Background" -> 1
                   [] c = "RecoveryPriority" -> 0]

MCKinds == {[classified |-> b, in_scope |-> ~b] : b \in BOOLEAN}

MCSymmetry == Permutations(Tasks) \cup Permutations({c1, c2})

DispatchInit ==
    /\ Init /\ SinkInit /\ GateInit
    /\ client \in {"queue", "sink", "gate"}
    /\ client # "gate" => policy = "AutoDeny"

DispatchNext ==
    /\ UNCHANGED client
    /\ \/ client = "queue" /\ Next /\ UNCHANGED <<sinkVars, gateVars>>
       \/ client = "sink" /\ SinkNext /\ UNCHANGED <<vars, gateVars>>
       \/ client = "gate" /\ GateNext /\ UNCHANGED <<vars, sinkVars>>

DispatchSpec == DispatchInit /\ [][DispatchNext]_<<vars, sinkVars, gateVars, client>>
===============================================================================
