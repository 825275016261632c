------------------------------ MODULE VaultBroker ------------------------------
(* The capabilities of the vault broker (InMemoryVaultBroker), the driver that   *)
(* expires them (CapabilityLifecycleDriver) and their audit log.  The state of a *)
(* capability is read and written under the store's lock.  The audit entry and   *)
(* the receipt of the same operation are written after the lock is released, so  *)
(* the calls of other tasks come in between.  Key material, classes and the      *)
(* cryptography are left out: an operation succeeds or fails.                    *)
EXTENDS Integers, FiniteSets

CONSTANTS
    Caps,           \* capability ids that can be issued
    VaultTasks,     \* concurrent callers of the broker and of the driver
    VaultMaxNow,    \* bound on the clock
    MaxUses,        \* bound on the uses of one capability
    NoExpiry        \* expires_at = None

ASSUME VaultClockBounded == VaultMaxNow \in Nat

VARIABLES
    vaultNow,       \* Utc::now
    caps,           \* the store: state, expires_at; early: see Retire
    auditEntries,   \* CapabilityAuditLog.entries
    vaultReceipts,  \* the receipts of the end of each capability, by kind
    vaultTask       \* what each caller still has to audit and to emit

vaultVars == <<vaultNow, caps, auditEntries, vaultReceipts, vaultTask>>

EndKinds == {"REVOKED", "EXPIRED"}
NoEntry == [issued |-> FALSE, uses |-> 0, revoked |-> FALSE, expired |-> FALSE]
IdleTask == [at |-> "idle", kind |-> "USED", todo |-> {}]

VaultInit ==
    /\ vaultNow = 0
    /\ caps = [c \in Caps |-> [state |-> "NONE", expires |-> NoExpiry, early |-> FALSE]]
    /\ auditEntries = [c \in Caps |-> NoEntry]
    /\ vaultReceipts = [c \in Caps |-> [k \in EndKinds |-> 0]]
    /\ vaultTask = [p \in VaultTasks |-> IdleTask]

\* Leave the store's lock with the capabilities cs to be recorded.
ThenRecord(p, at, kind, cs) ==
    vaultTask' = [vaultTask EXCEPT ![p] = [at |-> at, kind |-> kind, todo |-> cs]]

Idle(p) == vaultTask[p].at = "idle"
Overdue(c) == caps[c].expires # NoExpiry /\ caps[c].expires < vaultNow

\* The issuer of c has stored it and not yet opened its audit entry.
BeingIssued(c) ==
    \E p \in VaultTasks :
        vaultTask[p].at = "audit" /\ vaultTask[p].kind = "ISSUED" /\ c \in vaultTask[p].todo

\* A new state for the capabilities cs; early marks those that list_capabilities
\* showed before their issuer had opened the audit entry.
Retire(cs, state) ==
    caps' = [c \in Caps |->
                IF c \in cs THEN [caps[c] EXCEPT !.state = state, !.early = BeingIssued(c)]
                            ELSE caps[c]]

\* issue_capability: store the capability as ACTIVE.
IssueCapability(p, c, expires) ==
    /\ Idle(p)
    /\ caps[c].state = "NONE"
    /\ caps' = [caps EXCEPT ![c].state = "ACTIVE", ![c].expires = expires]
    /\ ThenRecord(p, "audit", "ISSUED", {c})
    /\ UNCHANGED <<vaultNow, auditEntries, vaultReceipts>>

\* use_capability, the part under the lock: an overdue capability expires here and
\* its audit entry is written under the lock, with no receipt.
UseCapability(p, c) ==
    /\ Idle(p)
    /\ caps[c].state = "ACTIVE"
    /\ IF Overdue(c)
         THEN /\ Retire({c}, "EXPIRED")
              /\ auditEntries' = [auditEntries EXCEPT ![c].expired = @ \/ auditEntries[c].issued]
              /\ UNCHANGED vaultTask
         ELSE /\ ThenRecord(p, "execute", "USED", {c})
              /\ UNCHANGED <<caps, auditEntries>>
    /\ UNCHANGED <<vaultNow, vaultReceipts>>

\* execute_operation, outside the lock: an operation that fails ends the call.
ExecuteOperation(p) ==
    /\ vaultTask[p].at = "execute"
    /\ \/ ThenRecord(p, "audit", "USED", vaultTask[p].todo)
       \/ vaultTask' = [vaultTask EXCEPT ![p] = IdleTask]
    /\ UNCHANGED <<vaultNow, caps, auditEntries, vaultReceipts>>

\* A revocation that does not look at the state it replaces.
RevokeAnyState(p, c) ==
    /\ Idle(p)
    /\ caps[c].state # "NONE"
    /\ Retire({c}, "REVOKED")
    /\ ThenRecord(p, "audit", "REVOKED", {c})
    /\ UNCHANGED <<vaultNow, auditEntries, vaultReceipts>>

\* revoke_capability.
RevokeCapability(p, c) ==
    /\ Idle(p)
    /\ caps[c].state = "ACTIVE"
    /\ Retire({c}, "REVOKED")
    /\ ThenRecord(p, "audit", "REVOKED", {c})
    /\ UNCHANGED <<vaultNow, auditEntries, vaultReceipts>>

\* expire_capability: on demand, whatever the expiry.
ExpireCapability(p, c) ==
    /\ Idle(p)
    /\ caps[c].state = "ACTIVE"
    /\ Retire({c}, "EXPIRED")
    /\ ThenRecord(p, "audit", "EXPIRED", {c})
    /\ UNCHANGED <<vaultNow, auditEntries, vaultReceipts>>

\* run_expiration_pass: every overdue capability in one critical section.
RunExpirationPass(p) ==
    LET due == {c \in Caps : caps[c].state = "ACTIVE" /\ Overdue(c)}
    IN  /\ Idle(p)
        /\ due # {}
        /\ Retire(due, "EXPIRED")
        /\ ThenRecord(p, "audit", "EXPIRED", due)
        /\ UNCHANGED <<vaultNow, auditEntries, vaultReceipts>>

\* record_issue replaces the entry; record_use, record_revoke and record_expire
\* only touch an entry that exists.
Recorded(entry, kind) ==
    CASE kind = "ISSUED" -> [NoEntry EXCEPT !.issued = TRUE]
      [] kind = "USED" -> [entry EXCEPT !.uses = IF entry.issued THEN @ + 1 ELSE @]
      [] kind = "REVOKED" -> [entry EXCEPT !.revoked = entry.issued]
      [] OTHER -> [entry EXCEPT !.expired = entry.issued]

RecordAudit(p) ==
    /\ vaultTask[p].at = "audit"
    /\ \E c \in vaultTask[p].todo :
          /\ vaultTask[p].kind = "USED" => auditEntries[c].uses < MaxUses
          /\ auditEntries' = [auditEntries EXCEPT ![c] = Recorded(@, vaultTask[p].kind)]
          /\ vaultTask' = [vaultTask EXCEPT ![p] =
                              [at |-> "emit", kind |-> @.kind, todo |-> @.todo \ {c}, cap |-> c]]
    /\ UNCHANGED <<vaultNow, caps, vaultReceipts>>

\* Emit the receipt of the capability just audited.  A failed append returns the
\* error at once: the rest of an expiration pass is neither audited nor emitted.
\* The receipts of an issue and of a use are not kept.
EmitVaultReceipt(p) ==
    LET c == vaultTask[p].cap
        k == vaultTask[p].kind
        rest == vaultTask[p].todo
    IN  /\ vaultTask[p].at = "emit"
        /\ \/ /\ vaultReceipts' = IF k \in EndKinds THEN [vaultReceipts EXCEPT ![c][k] = @ + 1]
                                                 ELSE vaultReceipts
              /\ IF rest = {} THEN vaultTask' = [vaultTask EXCEPT ![p] = IdleTask]
                              ELSE ThenRecord(p, "audit", k, rest)
           \/ /\ vaultTask' = [vaultTask EXCEPT ![p] = IdleTask]
              /\ UNCHANGED vaultReceipts
        /\ UNCHANGED <<vaultNow, caps, auditEntries>>

VaultTick ==
    /\ vaultNow < VaultMaxNow
    /\ vaultNow' = vaultNow + 1
    /\ UNCHANGED <<caps, auditEntries, vaultReceipts, vaultTask>>

VaultNext ==
    \/ VaultTick
    \/ \E p \in VaultTasks :
        \/ ExecuteOperation(p)
        \/ RunExpirationPass(p)
        \/ RecordAudit(p)
        \/ EmitVaultReceipt(p)
        \/ \E c \in Caps :
            \/ UseCapability(p, c)
            \/ RevokeCapability(p, c)
            \/ ExpireCapability(p, c)
            \/ \E expires \in {NoExpiry} \cup (vaultNow .. VaultMaxNow - 1) : IssueCapability(p, c, expires)

VaultSpec == VaultInit /\ [][VaultNext]_vaultVars

--------------------------------------------------------------------------------
\* Types of the store, the audit log and the receipts; an end of a kind is receipted at
\* most once (InMemoryVaultBroker).
VaultTypeOK ==
    /\ vaultNow \in Nat
    /\ caps \in [Caps -> [state : {"NONE", "ACTIVE", "EXPIRED", "REVOKED"},
                          expires : {NoExpiry} \cup Int, early : BOOLEAN]]
    /\ auditEntries \in [Caps -> [issued : BOOLEAN, uses : Nat,
                                  revoked : BOOLEAN, expired : BOOLEAN]]
    /\ vaultReceipts \in [Caps -> [EndKinds -> 0..1]]
    /\ \A p \in VaultTasks : vaultTask[p].todo \subseteq Caps

\* However many tasks revoke, expire and sweep a capability at once, it ends once:
\* the receipts and the audit entry tell of one end at most, and of the end the
\* store holds (revoke_capability, expire_capability, run_expiration_pass and the
\* lazy expiry of use_capability all test for ACTIVE under the lock).
EndsOnce ==
    \A c \in Caps :
        /\ vaultReceipts[c]["REVOKED"] + vaultReceipts[c]["EXPIRED"] <= 1
        /\ vaultReceipts[c]["REVOKED"] = 1 \/ auditEntries[c].revoked => caps[c].state = "REVOKED"
        /\ vaultReceipts[c]["EXPIRED"] = 1 \/ auditEntries[c].expired => caps[c].state = "EXPIRED"

\* Once every call has returned, a revoked capability is marked revoked in the audit
\* log, whatever became of the receipts.  The exception is a capability that was
\* revoked before its issuer had opened the audit entry: record_revoke finds no entry.
RevocationAudited ==
    (\A p \in VaultTasks : Idle(p)) =>
        \A c \in Caps :
            caps[c].state = "REVOKED" /\ ~caps[c].early => auditEntries[c].revoked

\* The end of a capability is told once and truthfully, by store, audit log and
\* receipts, whichever calls race to end it.
EndsAudited == EndsOnce /\ RevocationAudited

\* The same without the exception ("Subject that revoked the capability, if revoked").
EveryRevocationAudited ==
    (\A p \in VaultTasks : Idle(p)) =>
        \A c \in Caps : caps[c].state = "REVOKED" => auditEntries[c].revoked
================================================================================
