----------------------------- MODULE OverrideBroker -----------------------------
(* The bindings of the emergency override broker (InMemoryOverrideBroker): a     *)
(* quorum of humans grants a binding, one action consumes it, and it can be      *)
(* revoked or expire.  Every state change is made under the map's lock; the       *)
(* receipt of the change is appended after the lock is released.                  *)
EXTENDS Naturals, Sequences, FiniteSets

CONSTANTS
    Bindings,        \* binding ids
    OverrideTasks,   \* concurrent callers
    OverrideMaxNow   \* bound on the clock

ASSUME OverrideClockBounded == OverrideMaxNow \in Nat

VARIABLES
    ovrNow,          \* Utc::now
    bindings,        \* the map: state and expires_at; consumed: successful consumptions
    ovrLog,          \* the receipts in the order they were appended
    ovrTask          \* the receipt each caller still has to emit

ovrVars == <<ovrNow, bindings, ovrLog, ovrTask>>

NoReceipt == <<"NONE", 0>>
SubjectTypes == {"HUMAN", "AGENT", "APPLICATION", "SERVICE", "LOCAL_OPERATOR"}
Classes == {"STRONG_SOLO", "DUAL_HUMAN", "TRIPLE_HUMAN"}

OverrideInit ==
    /\ ovrNow = 0
    /\ bindings = [b \in Bindings |-> [state |-> "NONE", expires |-> 0, consumed |-> 0]]
    /\ ovrLog = <<>>
    /\ ovrTask = [p \in OverrideTasks |-> NoReceipt]

OvrIdle(p) == ovrTask[p] = NoReceipt

\* The caller leaves the lock and goes on to emit the receipt of its change.
ThenEmit(p, kind, b) == ovrTask' = [ovrTask EXCEPT ![p] = <<kind, b>>]

ExpectedApproverCount(class) ==
    CASE class = "STRONG_SOLO" -> 1
      [] class = "DUAL_HUMAN" -> 2
      [] class = "TRIPLE_HUMAN" -> 3

\* validate_approver_count, reject_ai_granting_subjects, validate_human_approvers.
QuorumAccepted(class, types) ==
    /\ Len(types) = ExpectedApproverCount(class)
    /\ ~ \E i \in DOMAIN types : types[i] \in {"AGENT", "APPLICATION"}
    /\ \A i \in DOMAIN types : types[i] = "HUMAN"

\* grant_override.
GrantOverride(p, b, class, types, expires) ==
    /\ OvrIdle(p)
    /\ bindings[b].state = "NONE"
    /\ QuorumAccepted(class, types)
    /\ bindings' = [bindings EXCEPT ![b].state = "GRANTED", ![b].expires = expires]
    /\ ThenEmit(p, "GRANTED", b)
    /\ UNCHANGED <<ovrNow, ovrLog>>

\* transition_expired_binding.
Expired(bind) == bind.state = "GRANTED" /\ bind.expires <= ovrNow
Expiry(bind) == IF Expired(bind) THEN [bind EXCEPT !.state = "EXPIRED"] ELSE bind

\* A consumption that accepts whatever has not been consumed.
ConsumeUnlessConsumed(p, b) ==
    /\ OvrIdle(p)
    /\ bindings[b].state \notin {"NONE", "CONSUMED"}
    /\ bindings[b].expires > ovrNow
    /\ bindings' = [bindings EXCEPT ![b].state = "CONSUMED", ![b].consumed = @ + 1]
    /\ ThenEmit(p, "CONSUMED", b)
    /\ UNCHANGED <<ovrNow, ovrLog>>

\* consume_override: only a GRANTED binding, and not from its expiry on.
ConsumeOverride(p, b) ==
    /\ OvrIdle(p)
    /\ bindings[b].state = "GRANTED"
    /\ IF Expired(bindings[b])
         THEN bindings' = [bindings EXCEPT ![b] = Expiry(@)] /\ UNCHANGED ovrTask
         ELSE /\ bindings' = [bindings EXCEPT ![b].state = "CONSUMED", ![b].consumed = @ + 1]
              /\ ThenEmit(p, "CONSUMED", b)
    /\ UNCHANGED <<ovrNow, ovrLog>>

\* revoke_override: from any state.
RevokeOverride(p, b) ==
    /\ OvrIdle(p)
    /\ bindings[b].state # "NONE"
    /\ bindings' = [bindings EXCEPT ![b].state = "REVOKED"]
    /\ ThenEmit(p, "REVOKED", b)
    /\ UNCHANGED <<ovrNow, ovrLog>>

\* lookup_override expires the binding it looks up; the two lists expire all.
LookupOverride(b) ==
    /\ Expired(bindings[b])
    /\ bindings' = [bindings EXCEPT ![b] = Expiry(@)]
    /\ UNCHANGED <<ovrNow, ovrLog, ovrTask>>

ListOverrides ==
    /\ \E b \in Bindings : Expired(bindings[b])
    /\ bindings' = [b \in Bindings |-> Expiry(bindings[b])]
    /\ UNCHANGED <<ovrNow, ovrLog, ovrTask>>

\* emit_override_granted, emit_override_consumed, emit_override_revoked: a failed
\* append is returned as the error of a call whose change stands.
EmitOverrideReceipt(p) ==
    /\ ~OvrIdle(p)
    /\ \/ ovrLog' = Append(ovrLog, ovrTask[p])
       \/ UNCHANGED ovrLog
    /\ ovrTask' = [ovrTask EXCEPT ![p] = NoReceipt]
    /\ UNCHANGED <<ovrNow, bindings>>

OverrideTick ==
    /\ ovrNow < OverrideMaxNow
    /\ ovrNow' = ovrNow + 1
    /\ UNCHANGED <<bindings, ovrLog, ovrTask>>

\* Revocations are unlimited in the code: here the log is full at MaxReceipts.
MaxReceipts == 3 * Cardinality(Bindings)

OverrideNext ==
    \/ OverrideTick
    \/ ListOverrides
    \/ \E b \in Bindings : LookupOverride(b)
    \/ \E p \in OverrideTasks :
        \/ EmitOverrideReceipt(p)
        \/ \E b \in Bindings :
            \/ ConsumeOverride(p, b)
            \/ Len(ovrLog) < MaxReceipts /\ RevokeOverride(p, b)
            \/ \E class \in Classes, expires \in 1..OverrideMaxNow, approvers \in 0..3 :
                \E types \in [1..approvers -> SubjectTypes] :
                    GrantOverride(p, b, class, types, expires)

OverrideSpec == OverrideInit /\ [][OverrideNext]_ovrVars

--------------------------------------------------------------------------------
\* Types; a binding counts at most one consumption (consume_override).
OverrideTypeOK ==
    /\ ovrNow \in Nat
    /\ bindings \in [Bindings -> [state : {"NONE", "GRANTED", "CONSUMED", "REVOKED", "EXPIRED"},
                                  expires : Nat, consumed : 0..1]]

\* A binding is consumed at most once, never from its expiry on and never after a
\* revocation or an expiry, whichever tasks race for it: the test and the write of
\* consume_override are one critical section.
ConsumedWhileLive ==
    [][\A b \in Bindings :
          bindings'[b].consumed # bindings[b].consumed =>
              /\ bindings[b].state = "GRANTED"
              /\ bindings[b].consumed = 0
              /\ ovrNow < bindings[b].expires]_ovrVars

\* "If a reconstruction shows a missing record (e.g. an OVERRIDE_CONSUMED without a
\* preceding OVERRIDE_GRANTED), the chain is inconsistent" (emergency override).
GrantRecordedFirst ==
    \A i \in DOMAIN ovrLog :
        ovrLog[i][1] = "CONSUMED" => \E j \in 1..i - 1 : ovrLog[j] = <<"GRANTED", ovrLog[i][2]>>
================================================================================
