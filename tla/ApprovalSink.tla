---------------------------- MODULE ApprovalSink ----------------------------
(***************************************************************************)
(* The approval binding sink of the capability runtime: the in-process     *)
(* InMemoryApprovalSink of aios-capability-runtime/src/approval_sink.rs.   *)
(* The runtime submits approval requests to it, an operator grants         *)
(* bindings for them, and the resume path of the runtime consumes a        *)
(* binding exactly once.  Every method takes the one write lock of the     *)
(* sink for its whole body, so every method is one action.                 *)
(***************************************************************************)
EXTENDS Integers

CONSTANTS
  Requests,       \* ids of approval requests
  Bindings,       \* ids of bindings; inject_granted_binding mints a fresh one
  Hashes,         \* canonical hashes of the request part of an envelope
  Grantors,       \* subjects that grant bindings
  Ttls,           \* values of ApprovalRequirement.ttl_seconds
  DefaultTtl,     \* the 300 seconds used when ttl_seconds is zero
  MaxTime,        \* bound on the wall clock
  Absent          \* stands for a key a map does not hold

ASSUME TimeAssumption ==
  Ttls \subseteq Nat /\ DefaultTtl \in Nat \ {0} /\ MaxTime \in Nat

VARIABLES
  requests,   \* SinkInner.requests: request id -> request, or Absent
  bindings,   \* SinkInner.bindings: binding id -> binding, or Absent
  latest,     \* SinkInner.request_to_binding: the last binding of a request
  now,        \* Utc::now(), which never goes back
  passes      \* history: how often consume_binding(b) has returned Ok

sinkVars == <<requests, bindings, latest, now, passes>>

BindingState == {"Pending", "Granted", "Consumed", "Denied", "Expired"}

Request == [hash: Hashes, ttl: Ttls]

Binding == [state: BindingState, request: Requests, hash: Hashes,
            granted_by: Grantors, expires_at: Int]

ASSUME AbsentAssumption == Absent \notin Request \cup Binding \cup Bindings

SinkInit ==
  /\ requests = [q \in Requests |-> Absent]
  /\ bindings = [b \in Bindings |-> Absent]
  /\ latest = [q \in Requests |-> Absent]
  /\ now = 0
  /\ passes = [b \in Bindings |-> 0]

(***************************************************************************)
(* submit_request: insert, or replace, the request.                        *)
(***************************************************************************)
SubmitRequest(q, r) ==
  /\ requests' = [requests EXCEPT ![q] = r]
  /\ UNCHANGED <<bindings, latest, now, passes>>

EffectiveTtl(r) == IF r.ttl = 0 THEN DefaultTtl ELSE r.ttl

(***************************************************************************)
(* inject_granted_binding: an operator grants a binding.  The id is        *)
(* fresh; a request may be granted several bindings, and then              *)
(* request_to_binding only remembers the last.                             *)
(***************************************************************************)
InjectGrantedBinding(q, b, g) ==
  /\ requests[q] # Absent
  /\ bindings[b] = Absent
  /\ bindings' = [bindings EXCEPT ![b] =
       [state |-> "Granted", request |-> q, hash |-> requests[q].hash,
        granted_by |-> g, expires_at |-> now + EffectiveTtl(requests[q])]]
  /\ latest' = [latest EXCEPT ![q] = b]
  /\ UNCHANGED <<requests, now, passes>>

(***************************************************************************)
(* consume_binding, by outcome.  A binding that is not GRANTED is refused  *)
(* with no change, a GRANTED one whose time is up becomes EXPIRED, and any *)
(* other becomes CONSUMED and is returned.                                 *)
(***************************************************************************)
IsGranted(b) == bindings[b] # Absent /\ bindings[b].state = "Granted"

Consumable(b) == IsGranted(b) /\ bindings[b].expires_at > now

ConsumeRefused(b) ==
  /\ ~IsGranted(b)
  /\ UNCHANGED sinkVars

ConsumeExpired(b) ==
  /\ IsGranted(b)
  /\ ~Consumable(b)
  /\ bindings' = [bindings EXCEPT ![b].state = "Expired"]
  /\ UNCHANGED <<requests, latest, now, passes>>

\* Mutant of ConsumeGranted: the state is left GRANTED.
ConsumeUnmarked(b) ==
  /\ Consumable(b)
  /\ passes' = [passes EXCEPT ![b] = @ + 1]
  /\ UNCHANGED <<requests, bindings, latest, now>>

ConsumeGranted(b) ==
  /\ Consumable(b)
  /\ bindings' = [bindings EXCEPT ![b].state = "Consumed"]
  /\ passes' = [passes EXCEPT ![b] = @ + 1]
  /\ UNCHANGED <<requests, latest, now>>

ConsumeBinding(b) ==
  ConsumeRefused(b) \/ ConsumeExpired(b) \/ ConsumeGranted(b)

(***************************************************************************)
(* poll_state: what a caller is told about a request.                      *)
(***************************************************************************)
PollState(q) ==
  IF latest[q] = Absent THEN "Pending" ELSE bindings[latest[q]].state

(***************************************************************************)
(* The seams through which a test, or an operator console, moves a         *)
(* binding: force_expire, force_denied and force_pending.  None of them    *)
(* looks at the state it overwrites.                                       *)
(***************************************************************************)
ForceExpire(b) ==
  /\ bindings[b] # Absent
  /\ bindings' = [bindings EXCEPT ![b].expires_at = now - 1]
  /\ UNCHANGED <<requests, latest, now, passes>>

ForceDenied(b) ==
  /\ bindings[b] # Absent
  /\ bindings' = [bindings EXCEPT ![b].state = "Denied"]
  /\ UNCHANGED <<requests, latest, now, passes>>

ForcePending(b) ==
  /\ bindings[b] # Absent
  /\ bindings' = [bindings EXCEPT ![b].state = "Pending"]
  /\ UNCHANGED <<requests, latest, now, passes>>

SinkTick ==
  /\ now < MaxTime
  /\ now' = now + 1
  /\ UNCHANGED <<requests, bindings, latest, passes>>

SinkNext ==
  \/ \E q \in Requests, r \in Request : SubmitRequest(q, r)
  \/ \E q \in Requests, b \in Bindings, g \in Grantors :
       InjectGrantedBinding(q, b, g)
  \/ \E b \in Bindings : \/ ConsumeBinding(b)
                         \/ ForceExpire(b)
                         \/ ForceDenied(b)
                         \/ ForcePending(b)
  \/ SinkTick

SinkSpec == SinkInit /\ [][SinkNext]_sinkVars

-----------------------------------------------------------------------------
(***************************************************************************)
(* Types of the sink's three maps, and the structure that relates them:    *)
(* the last binding of a request exists and belongs to that request.       *)
(***************************************************************************)
SinkTypeOK ==
  /\ requests \in [Requests -> {Absent} \cup Request]
  /\ bindings \in [Bindings -> {Absent} \cup Binding]
  /\ latest \in [Requests -> {Absent} \cup Bindings]
  /\ now \in Nat
  /\ passes \in [Bindings -> Nat]
  /\ \A q \in Requests : latest[q] # Absent =>
       bindings[latest[q]] # Absent /\ bindings[latest[q]].request = q

(***************************************************************************)
(* Single use (the "Atomic consume" invariant of the ApprovalBindingSink   *)
(* trait): however consumptions, expiries and forced states interleave,    *)
(* consume_binding returns Ok at most once for a binding.                  *)
(***************************************************************************)
ConsumedOnce == \A b \in Bindings : passes[b] <= 1

(***************************************************************************)
(* A binding that has left GRANTED never returns to it: neither a late     *)
(* consume nor a forced state revives a binding that was consumed, denied, *)
(* put back to pending or expired.                                         *)
(***************************************************************************)
NeverRegranted ==
  [][\A b \in Bindings :
       bindings[b] # Absent /\ bindings[b].state # "Granted"
         => bindings'[b] # Absent /\ bindings'[b].state # "Granted"]_sinkVars

(***************************************************************************)
(* A poll that answers CONSUMED is backed by a successful consumption of   *)
(* a binding of that very request, even when several bindings were granted *)
(* for it.                                                                 *)
(***************************************************************************)
PollConsumedBacked ==
  \A q \in Requests : PollState(q) = "Consumed" =>
    \E b \in Bindings : /\ passes[b] > 0
                        /\ bindings[b] # Absent
                        /\ bindings[b].request = q
=============================================================================
