---------------------------- MODULE ApprovalGate ----------------------------
(***************************************************************************)
(* The INV-002 approval gate (aios-capability-runtime/src/approval_gate.rs)*)
(* between AI capsules, which propose actions, and the people who decide   *)
(* about them.  The gate has three independent locks: policy, pending and  *)
(* audit_trail.  evaluate takes them one after the other, and the sweep    *)
(* expire_stale_pending takes `pending' twice, so each of the two is       *)
(* several actions; approving, denying and escalating hold `pending' while *)
(* they append to the trail, and are one action each.                      *)
(***************************************************************************)
EXTENDS Integers, Sequences, FiniteSets

CONSTANTS
  Capsules,        \* AI capsules; each submits one request
  Sweepers,        \* tasks that call expire_stale_pending
  Actions,         \* action ids, the keys of the pending map
  Policies,        \* the policies the operator uses
  Kinds,           \* what is proposed: is it classified, is it in scope
  Timeout,         \* the 300 seconds of evaluate and expire_stale_pending
  GateMaxTime,         \* bound on the wall clock
  MaxEscalations,  \* bound on the number of escalations
  None             \* an empty slot

ASSUME InputAssumption ==
  /\ Policies \subseteq {"AutoDeny", "HumanRequired", "ClassifiedOnly", "Delegated"}
  /\ Kinds \subseteq [classified: BOOLEAN, in_scope: BOOLEAN]
ASSUME GateBounds ==
  /\ IsFiniteSet(Actions)
  /\ Timeout \in Nat \ {0} /\ GateMaxTime \in Nat /\ MaxEscalations \in Nat

VARIABLES
  policy,       \* the ApprovalPolicy in force
  pending,      \* action id -> parked request, or None
  audit,        \* audit_trail
  evaluating,   \* capsule -> progress of its evaluate call
  sweep,        \* sweeper -> the requests it found stale, and when
  gclock,       \* Utc::now()
  escalations,  \* number of escalations so far
  inForce       \* history: the policies in force since a capsule's proposal

gateVars == <<policy, pending, audit, evaluating, sweep, gclock, escalations, inForce>>

\* in_scope: the request's delegated_scope_tag is the one of the policy.
GateRequest == [id: Actions, by: Capsules, kind: Kinds, submitted_at: Nat]

Decision == {"Approved", "Denied", "Escalated", "Pending"}

\* by: who decided; until: the deadline of a Pending decision.
Entry == [request: GateRequest, decision: Decision, by: {"policy", "human", "timeout"},
          at: Nat, until: Nat]

NewEntry(r, decision, by, at) ==
  [request |-> r, decision |-> decision, by |-> by, at |-> at, until |-> at + Timeout]

GateIdle == [pc |-> "idle"]
NoSweep == [at |-> 0, stale |-> {}]

GateInit ==
  /\ policy \in Policies
  /\ pending = [a \in Actions |-> None]
  /\ audit = <<>>
  /\ evaluating = [c \in Capsules |-> GateIdle]
  /\ sweep = [s \in Sweepers |-> NoSweep]
  /\ gclock = 0
  /\ escalations = 0
  /\ inForce = [c \in Capsules |-> {}]

-----------------------------------------------------------------------------
(* The capsule side: GateApprovalRequest::new stamps submitted_at, then      *)
(* evaluate reads the policy, appends to the trail, and parks the request.   *)

Propose(c) ==
  /\ evaluating[c] = GateIdle
  /\ \E a \in Actions, k \in Kinds :
       evaluating' = [evaluating EXCEPT ![c] =
         [pc |-> "proposed",
          request |-> [id |-> a, by |-> c, kind |-> k, submitted_at |-> gclock]]]
  /\ inForce' = [inForce EXCEPT ![c] = {policy}]
  /\ UNCHANGED <<policy, pending, audit, sweep, gclock, escalations>>

Decide(p, r) ==
  CASE p = "AutoDeny" -> "Denied"
    [] p = "HumanRequired" -> "Pending"
    [] p = "ClassifiedOnly" -> IF r.kind.classified THEN "Pending" ELSE "Approved"
    [] p = "Delegated" -> IF r.kind.in_scope THEN "Approved" ELSE "Pending"

Evaluate(c) ==
  /\ evaluating[c].pc = "proposed"
  /\ LET r == evaluating[c].request IN
       evaluating' = [evaluating EXCEPT ![c] =
         [pc |-> "decided", request |-> r,
          entry |-> NewEntry(r, Decide(policy, r), "policy", gclock)]]
  /\ UNCHANGED <<policy, pending, audit, sweep, gclock, escalations, inForce>>

RecordDecision(c) ==
  /\ evaluating[c].pc = "decided"
  /\ audit' = Append(audit, evaluating[c].entry)
  /\ evaluating' = [evaluating EXCEPT ![c] =
       [pc |-> IF evaluating[c].entry.decision = "Pending" THEN "recorded" ELSE "done",
        request |-> evaluating[c].request]]
  /\ UNCHANGED <<policy, pending, sweep, gclock, escalations, inForce>>

Park(c) ==
  /\ evaluating[c].pc = "recorded"
  /\ pending' = [pending EXCEPT ![evaluating[c].request.id] = evaluating[c].request]
  /\ evaluating' = [evaluating EXCEPT ![c].pc = "done"]
  /\ UNCHANGED <<policy, audit, sweep, gclock, escalations, inForce>>

-----------------------------------------------------------------------------
(* The human side. *)

SetPolicy(p) ==
  /\ policy' = p
  /\ inForce' = [c \in Capsules |-> IF evaluating[c].pc = "proposed"
                                    THEN inForce[c] \cup {p} ELSE inForce[c]]
  /\ UNCHANGED <<pending, audit, evaluating, sweep, gclock, escalations>>

\* Mutant of Resolve: the request stays parked.
ResolveKeepsParked(a, decision) ==
  /\ pending[a] # None
  /\ Len(audit) < 4
  /\ audit' = Append(audit, NewEntry(pending[a], decision, "human", gclock))
  /\ UNCHANGED <<policy, pending, evaluating, sweep, gclock, escalations, inForce>>

\* approve_manually and deny_manually, by an approver that is not an AI.
Resolve(a, decision) ==
  /\ pending[a] # None
  /\ pending' = [pending EXCEPT ![a] = None]
  /\ audit' = Append(audit, NewEntry(pending[a], decision, "human", gclock))
  /\ UNCHANGED <<policy, evaluating, sweep, gclock, escalations, inForce>>

ApproveManually(a) == Resolve(a, "Approved")
DenyManually(a) == Resolve(a, "Denied")

Escalate(a) ==
  /\ pending[a] # None
  /\ escalations < MaxEscalations
  /\ escalations' = escalations + 1
  /\ audit' = Append(audit, NewEntry(pending[a], "Escalated", "human", gclock))
  /\ UNCHANGED <<policy, pending, evaluating, sweep, gclock, inForce>>

-----------------------------------------------------------------------------
(* expire_stale_pending *)

Stale(r) == gclock >= r.submitted_at + Timeout

\* Under the read lock: note the stale requests and release the lock.
CollectStale(s) ==
  /\ sweep[s] = NoSweep
  /\ LET stale == {pending[a] : a \in {b \in Actions : pending[b] # None /\ Stale(pending[b])}} IN
       /\ stale # {}
       /\ sweep' = [sweep EXCEPT ![s] = [at |-> gclock, stale |-> stale]]
  /\ UNCHANGED <<policy, pending, audit, evaluating, gclock, escalations, inForce>>

\* Under the write lock: remove the ids noted and append a denial for each,
\* in the order of the map's iteration.
RemoveStale(s) ==
  /\ sweep[s] # NoSweep
  /\ LET stale == sweep[s].stale IN
       /\ pending' = [a \in Actions |-> IF \E r \in stale : r.id = a THEN None ELSE pending[a]]
       /\ \E order \in [1..Cardinality(stale) -> stale] :
            /\ \A r \in stale : \E i \in DOMAIN order : order[i] = r
            /\ audit' = audit \o [i \in DOMAIN order |->
                                   NewEntry(order[i], "Denied", "timeout", sweep[s].at)]
  /\ sweep' = [sweep EXCEPT ![s] = NoSweep]
  /\ UNCHANGED <<policy, evaluating, gclock, escalations, inForce>>

GateTick ==
  /\ gclock < GateMaxTime
  /\ gclock' = gclock + 1
  /\ UNCHANGED <<policy, pending, audit, evaluating, sweep, escalations, inForce>>

GateNext ==
  \/ \E c \in Capsules : Propose(c) \/ Evaluate(c) \/ RecordDecision(c) \/ Park(c)
  \/ \E p \in Policies : SetPolicy(p)
  \/ \E a \in Actions : ApproveManually(a) \/ DenyManually(a) \/ Escalate(a)
  \/ \E s \in Sweepers : CollectStale(s) \/ RemoveStale(s)
  \/ GateTick

GateSpec == GateInit /\ [][GateNext]_gateVars

-----------------------------------------------------------------------------
(***************************************************************************)
(* Types of the gate's three stores.                                       *)
(***************************************************************************)
GateTypeOK ==
  /\ policy \in Policies
  /\ pending \in [Actions -> GateRequest \cup {None}]
  /\ audit \in Seq(Entry)
  /\ sweep \in [Sweepers -> [at: Nat, stale: SUBSET GateRequest]]
  /\ gclock \in Nat
  /\ \A a \in Actions : pending[a] # None => pending[a].id = a

(***************************************************************************)
(* Nothing is decided out of the blue: every decision of a person and      *)
(* every timeout denial in the trail comes after a Pending decision about  *)
(* the same submission, although evaluate appends to the trail and parks   *)
(* the request under different locks.                                      *)
(***************************************************************************)
DecisionFollowsPending ==
  \A i \in DOMAIN audit : audit[i].by # "policy" =>
    \E j \in 1..(i-1) : /\ audit[j].decision = "Pending"
                        /\ audit[j].request = audit[i].request

(***************************************************************************)
(* Racing approvals and denials: a submission is approved or denied by a   *)
(* person at most once.                                                    *)
(***************************************************************************)
OneManualDecision ==
  \A i, j \in DOMAIN audit :
    /\ audit[i].by = "human" /\ audit[i].decision # "Escalated"
    /\ audit[j].by = "human" /\ audit[j].decision # "Escalated"
    /\ audit[i].request = audit[j].request
    => i = j

(***************************************************************************)
(* An approval without a person (by: policy) is one that a policy in force *)
(* between the proposal and its evaluation grants to such a request, even  *)
(* if set_policy runs before the decision reaches the trail.               *)
(***************************************************************************)
AutoApprovalJustified ==
  \A i \in DOMAIN audit :
    LET e == audit[i] IN
      e.by = "policy" /\ e.decision = "Approved" =>
        \/ "ClassifiedOnly" \in inForce[e.request.by] /\ ~e.request.kind.classified
        \/ "Delegated" \in inForce[e.request.by] /\ e.request.kind.in_scope

\* Every decision in the audit is justified: it answers a request that was pending,
\* people decide a request once, and a policy approves only what it covers
\* (evaluate, approve, deny, escalate and expire_stale_pending in any order).
DecisionsJustified ==
  GateTypeOK /\ DecisionFollowsPending /\ OneManualDecision /\ AutoApprovalJustified

(***************************************************************************)
(* "Expire all pending requests whose timeout has elapsed.  Each expired   *)
(* request is removed from the pending map": the sweep denies, and         *)
(* removes, only requests that are still parked.                           *)
(***************************************************************************)
ExpiresOnlyPending ==
  [][\A s \in Sweepers : RemoveStale(s) =>
       \A r \in sweep[s].stale : pending[r.id] = r]_gateVars

(***************************************************************************)
(* evaluate answers Pending(now + 300s): a request is not timed out before *)
(* the deadline its capsule was told.                                      *)
(***************************************************************************)
DeadlineHonoured ==
  \A i, j \in DOMAIN audit :
    /\ audit[i].decision = "Pending"
    /\ audit[j].by = "timeout"
    /\ audit[i].request = audit[j].request
    => audit[j].at >= audit[i].until
=============================================================================
