----------------------------- MODULE AdmissionProofs -----------------------------
(* Proofs about what admits a caller: the approval sink, the identity           *)
(* catalogue, the capabilities of the vault and the circuit breaker, for every  *)
(* number of bindings, subjects, capabilities and recorders. Each operation     *)
(* leaves a lock with work still owed (an index to write, an audit entry, a     *)
(* receipt, the fields of the breaker); the inductive invariants say what is    *)
(* owed, by whom, and that nobody else owes the same.                           *)
EXTENDS ApprovalSink, IdentityCatalog, VaultBroker, CircuitBreaker, Integers, TLAPS

--------------------------------------------------------------------------------
(* The circuit breaker under any number of recorders. Its fields are written    *)
(* one by one, from lists that were computed before the first write and that    *)
(* the recorders carry past each other's writes; the invariant therefore        *)
(* bounds what every list may still write.                                      *)

\* The writes that a recorder who took the time t may have pending.
WritesAt(t) ==
    ({"mult"} \X (1..MultCap)) \cup ({"opened"} \X {t, Never})
      \cup ({"state", "succ", "fail"} \X {"CLOSED", "OPEN", "HALF_OPEN", 0})

RecFields == {"at", "ok", "at0", "seen", "writes"}

\* A recorder doing c took its time from the clock, which now shows t.
Pending(c, t) ==
    /\ DOMAIN c = RecFields
    /\ c.at0 \in 0..t
    /\ c.at = "write" => c.writes # <<>> /\ c.writes \in Seq(WritesAt(c.at0))

BreakerFields == {"state", "opened", "mult", "succ", "fail"}

RecordersInv ==
    /\ clock \in Nat
    /\ DOMAIN br = BreakerFields
    /\ CooldownBounded
    /\ DOMAIN recPc = Recorders
    /\ \A r \in Recorders : Pending(recPc[r], clock)

\* The cap allows a multiplier of one, and doubling keeps to it (recompute_state).
LEMMA DoublingIsCapped ==
    /\ MultCap \in Nat \ {0}
    /\ \A m \in 1..MultCap : Lesser(m * 2, MultCap) \in 1..MultCap
<1>1. MultCap \in Nat \ {0}
  <2>1. MultCap = MaxCooldown \div InitialCooldown
    BY CooldownAssumption DEF MultCap, Greater
  <2> QED BY <2>1, CooldownAssumption
<1> QED BY <1>1 DEF Lesser

\* The lists that recompute_state decides on hold such writes only.
LEMMA DecisionIsPending ==
    ASSUME br.mult \in 1..MultCap, NEW seen, NEW t \in Nat
    PROVE  BreakerDecision(seen, t) \in Seq(WritesAt(t))
<1> DEFINE W == WritesAt(t)
<1>1. /\ <<"mult", 1>> \in W /\ <<"mult", Lesser(br.mult * 2, MultCap)>> \in W
      /\ <<"opened", t>> \in W /\ <<"opened", Never>> \in W
  BY DoublingIsCapped DEF WritesAt
<1>2. /\ <<"state", "OPEN">> \in W /\ <<"state", "CLOSED">> \in W /\ <<"state", "HALF_OPEN">> \in W
      /\ <<"succ", 0>> \in W /\ <<"fail", 0>> \in W
  BY DEF WritesAt
<1> HIDE DEF W
<1>3. OpenWrites(t) \in Seq(W)
  BY <1>1, <1>2 DEF OpenWrites
<1>4. HalfOpenWrites \in Seq(W)
  BY <1>1, <1>2 DEF HalfOpenWrites
<1>5. CloseWrites \in Seq(W)
  BY <1>1, <1>2 DEF CloseWrites
<1>6. ReopenWrites(t) \in Seq(W)
  BY <1>1, <1>2 DEF ReopenWrites
<1>7. <<>> \in Seq(W)
  OBVIOUS
<1> QED BY <1>3, <1>4, <1>5, <1>6, <1>7, Zenon DEF BreakerDecision, W

\* A write under the lock of its field keeps the bounds (recompute_state).
LEMMA WriteIsBounded ==
    ASSUME DOMAIN br = BreakerFields, CooldownBounded, clock \in Nat,
           NEW t \in 0..clock, NEW w \in WritesAt(t), NEW b, b = [br EXCEPT ![w[1]] = w[2]]
    PROVE  /\ DOMAIN b = BreakerFields
           /\ b.mult \in 1..MultCap /\ b.opened \in 0..clock \cup {Never}
<1>1. CASE w \in {"mult"} \X (1..MultCap)
  BY <1>1 DEF CooldownBounded, BreakerFields
<1>2. CASE w \in {"opened"} \X {t, Never}
  BY <1>2 DEF CooldownBounded, BreakerFields
<1>3. CASE w \in {"state", "succ", "fail"} \X {"CLOSED", "OPEN", "HALF_OPEN", 0}
  BY <1>3 DEF CooldownBounded, BreakerFields
<1> QED BY <1>1, <1>2, <1>3, Zenon DEF WritesAt

\* What is left of a list of writes (recompute_state).
LEMMA WritesLeft ==
    ASSUME NEW S, NEW v \in Seq(S), v # <<>>
    PROVE  /\ Head(v) \in S
           /\ Len(v) # 1 => Tail(v) # <<>> /\ Tail(v) \in Seq(S)
<1>1. Len(v) \in Nat \ {0} /\ Head(v) \in S /\ Tail(v) \in Seq(S) /\ Len(Tail(v)) = Len(v) - 1
  OBVIOUS
<1>2. Len(v) # 1 => Len(Tail(v)) # 0
  BY <1>1
<1>3. Len(<<>>) = 0
  OBVIOUS
<1> QED BY <1>1, <1>2, <1>3, Zenon

\* RecordersInv is inductive (record_outcome, record_probe_outcome, recompute_state).
LEMMA RecordersStep == RecordersInv /\ [BreakerNext]_breakerVars => RecordersInv'
<1> SUFFICES ASSUME RecordersInv, [BreakerNext]_breakerVars PROVE RecordersInv'
  BY Zenon
<1>0. /\ clock \in Nat /\ DOMAIN br = BreakerFields /\ CooldownBounded
      /\ DOMAIN recPc = Recorders /\ \A r \in Recorders : Pending(recPc[r], clock)
  BY Zenon DEF RecordersInv
\* A step of r that leaves the clock alone.
<1>1. ASSUME NEW r \in Recorders, NEW c, Pending(c, clock), recPc' = [recPc EXCEPT ![r] = c],
             DOMAIN br' = BreakerFields, br'.mult \in 1..MultCap,
             br'.opened \in 0..clock \cup {Never}, clock' = clock
      PROVE  RecordersInv'
  <2>1. DOMAIN recPc' = Recorders /\ \A x \in Recorders : Pending(recPc'[x], clock)
    BY <1>0, <1>1, Zenon
  <2> QED BY <1>0, <1>1, <2>1, Zenon DEF RecordersInv, CooldownBounded
<1>2. br.mult \in 1..MultCap /\ br.opened \in 0..clock \cup {Never}
  BY <1>0, Zenon DEF CooldownBounded
<1>3. CASE BreakerTick
  <2>1. \A c : Pending(c, clock) => Pending(c, clock')
    BY <1>0, <1>3 DEF Pending, BreakerTick
  <2>2. br' = br /\ recPc' = recPc /\ clock' \in Nat /\ CooldownBounded'
    BY <1>0, <1>2, <1>3 DEF BreakerTick, CooldownBounded
  <2> QED BY <1>0, <2>1, <2>2, Zenon DEF RecordersInv
<1>4. ASSUME NEW r \in Recorders, NEW ok \in BOOLEAN, NEW probe \in BOOLEAN, Record(r, ok, probe)
      PROVE  RecordersInv'
  <2>1. PICK a : recPc' = [recPc EXCEPT ![r] = [IdleRec EXCEPT !.at = a, !.ok = ok, !.at0 = clock]]
                 /\ a \in {"count", "push"}
    BY <1>0, <1>4, Zenon DEF Record
  <2>2. Pending([IdleRec EXCEPT !.at = a, !.ok = ok, !.at0 = clock], clock)
    BY <1>0, <2>1 DEF Pending, IdleRec, RecFields
  <2> QED BY <1>0, <1>1, <1>2, <1>4, <2>1, <2>2, Zenon DEF Record
<1>5. ASSUME NEW r \in Recorders, PushOutcome(r) PROVE RecordersInv'
  <2>1. PICK d : d = [recPc[r] EXCEPT !.at = "read", !.ok = FALSE]
    BY Zenon
  <2>2. br' = br /\ clock' = clock /\ recPc' = [recPc EXCEPT ![r] = d]
    BY <1>5, <2>1, Zenon DEF PushOutcome
  <2>3. Pending(d, clock)
    BY <1>0, <2>1, Zenon DEF Pending, RecFields
  <2> QED BY <1>0, <1>1, <1>2, <2>2, <2>3, Zenon
<1>6. ASSUME NEW r \in Recorders, CountProbe(r) PROVE RecordersInv'
  <2>1. DOMAIN br' = BreakerFields /\ br'.mult = br.mult /\ br'.opened = br.opened /\ clock' = clock
    BY <1>0, <1>6, Zenon DEF CountProbe, BreakerFields
  <2>2. PICK c : c = [recPc[r] EXCEPT !.at = "push", !.at0 = clock]
    BY Zenon
  <2>3. recPc' = [recPc EXCEPT ![r] = c]
    BY <1>6, <2>2, Zenon DEF CountProbe
  <2>4. Pending(c, clock)
    BY <1>0, <1>6, <2>2 DEF Pending, RecFields
  <2> QED BY <1>0, <1>1, <1>2, <1>6, <2>1, <2>3, <2>4, Zenon
<1>7. ASSUME NEW r \in Recorders, RecomputeState(r) PROVE RecordersInv'
  <2>1. PICK w : w = BreakerDecision(recPc[r].seen, recPc[r].at0)
    BY Zenon
  <2>2. recPc[r].at0 \in 0..clock /\ DOMAIN recPc[r] = RecFields
    BY <1>0, <1>7, Zenon DEF Pending
  <2>3. w \in Seq(WritesAt(recPc[r].at0))
    BY <1>0, <1>2, <2>1, <2>2, DecisionIsPending
  <2>4. br' = br /\ clock' = clock
    BY <1>7, Zenon DEF RecomputeState
  <2>5. CASE w = <<>>
    <3>1. Pending(IdleRec, clock)
      BY <1>0 DEF Pending, IdleRec, RecFields
    <3>2. recPc' = [recPc EXCEPT ![r] = IdleRec]
      BY <1>7, <2>1, <2>5, Zenon DEF RecomputeState
    <3> QED BY <1>0, <1>1, <1>2, <2>4, <3>1, <3>2, Zenon
  <2>6. CASE w # <<>>
    <3>1. PICK c : c = [recPc[r] EXCEPT !.at = "write", !.writes = w]
      BY Zenon
    <3>2. recPc' = [recPc EXCEPT ![r] = c]
      BY <1>7, <2>1, <2>6, <3>1, Zenon DEF RecomputeState
    <3>3. Pending(c, clock)
      BY <2>2, <2>3, <2>6, <3>1, Zenon DEF Pending, RecFields
    <3> QED BY <1>0, <1>1, <1>2, <2>4, <3>2, <3>3, Zenon
  <2> QED BY <2>5, <2>6, Zenon
<1>8. ASSUME NEW r \in Recorders, WriteField(r) PROVE RecordersInv'
  <2>1. PICK v, t : v = recPc[r].writes /\ t = recPc[r].at0
    BY Zenon
  <2>2. /\ t \in 0..clock /\ DOMAIN recPc[r] = RecFields
        /\ v # <<>> /\ v \in Seq(WritesAt(t))
    BY <1>0, <1>8, <2>1, Zenon DEF Pending, WriteField
  <2>3. Head(v) \in WritesAt(t)
    BY <2>2, WritesLeft, Zenon
  <2>4. /\ br' = [br EXCEPT ![Head(v)[1]] = Head(v)[2]] /\ clock' = clock
        /\ recPc' = [recPc EXCEPT ![r] = IF Len(v) = 1 THEN IdleRec
                                         ELSE [recPc[r] EXCEPT !.writes = Tail(v)]]
    BY <1>0, <1>8, <2>1, Zenon DEF WriteField
  <2>5. /\ DOMAIN br' = BreakerFields
        /\ br'.mult \in 1..MultCap /\ br'.opened \in 0..clock \cup {Never}
    BY <1>0, <2>2, <2>3, <2>4, WriteIsBounded, Zenon
  <2>6. CASE Len(v) = 1
    <3>1. Pending(IdleRec, clock)
      BY <1>0 DEF Pending, IdleRec, RecFields
    <3> QED BY <1>0, <1>1, <2>4, <2>5, <2>6, <3>1, Zenon
  <2>7. CASE Len(v) # 1
    <3>1. PICK c : c = [recPc[r] EXCEPT !.writes = Tail(v)]
      BY Zenon
    <3>2. Tail(v) \in Seq(WritesAt(t)) /\ Tail(v) # <<>>
      BY <2>2, <2>7, WritesLeft, Zenon
    <3>3. Pending(c, clock)
      BY <2>1, <2>2, <3>1, <3>2, Zenon DEF Pending, RecFields
    <3> QED BY <1>0, <1>1, <2>4, <2>5, <2>7, <3>1, <3>3, Zenon
  <2> QED BY <2>6, <2>7, Zenon
<1>9. ASSUME NEW r \in Recorders, ReadState(r) PROVE RecordersInv'
  <2>1. PICK d : d = [recPc[r] EXCEPT !.at = "decide", !.seen = br.state]
    BY Zenon
  <2>2. br' = br /\ clock' = clock /\ recPc' = [recPc EXCEPT ![r] = d]
    BY <1>9, <2>1, Zenon DEF ReadState
  <2>3. Pending(d, clock)
    BY <1>0, <2>1, Zenon DEF Pending, RecFields
  <2> QED BY <1>0, <1>1, <1>2, <2>2, <2>3, Zenon
<1>10. CASE UNCHANGED breakerVars
  BY <1>0, <1>2, <1>10, Zenon DEF breakerVars, RecordersInv, CooldownBounded
<1> QED BY <1>3, <1>4, <1>5, <1>6, <1>7, <1>8, <1>9, <1>10, Zenon DEF BreakerNext, RecorderStep

\* Whatever the number of recorders and however their writes overtake each other, the
\* multiplier stays between one and its cap and the breaker never claims to have opened
\* in the future (recompute_state, effective_cooldown).
THEOREM CooldownStaysBounded == BreakerSpec => []CooldownBounded
<1>1. BreakerInit => RecordersInv
  BY DoublingIsCapped
     DEF BreakerInit, RecordersInv, CooldownBounded, Pending, IdleRec, RecFields, BreakerFields
<1>2. RecordersInv => CooldownBounded
  BY Zenon DEF RecordersInv
<1> QED BY <1>1, <1>2, RecordersStep, PTL DEF BreakerSpec

--------------------------------------------------------------------------------
(* The capabilities of the vault.                                               *)

(* The vault broker: what a call still has to audit or to emit for a capability.    *)

CapStates == {"NONE", "ACTIVE", "EXPIRED", "REVOKED"}
Capability == [state : CapStates, expires : {NoExpiry} \cup Int, early : BOOLEAN]
AuditEntry == [issued : BOOLEAN, uses : Nat, revoked : BOOLEAN, expired : BOOLEAN]
TaskKinds == {"USED", "ISSUED"} \cup EndKinds

\* The call p still has to tell the end of c, to open its entry, to mark it revoked.
EndOwed(p, c) ==
    /\ vaultTask[p].kind \in EndKinds
    /\ \/ vaultTask[p].at \in {"audit", "emit"} /\ c \in vaultTask[p].todo
       \/ vaultTask[p].at = "emit" /\ c = vaultTask[p].cap
AuditOwed(p, kind, c) == vaultTask[p].at = "audit" /\ vaultTask[p].kind = kind /\ c \in vaultTask[p].todo

TaskFits(t) ==
    /\ t.at \in {"idle", "execute", "audit", "emit"}
    /\ t.kind \in TaskKinds
    /\ t.todo \subseteq Caps
    /\ t.at = "execute" => t.kind = "USED"
    /\ t.at = "emit" => t.cap \in Caps \ t.todo
    /\ t.kind \in {"ISSUED", "REVOKED"} /\ t.at = "audit" => \E c \in Caps : t.todo = {c}
    /\ t.kind \in {"ISSUED", "REVOKED"} /\ t.at = "emit" => t.todo = {}

VaultTypes ==
    /\ vaultNow \in Nat
    /\ caps \in [Caps -> Capability]
    /\ auditEntries \in [Caps -> AuditEntry]
    /\ vaultReceipts \in [Caps -> [EndKinds -> {0, 1}]]
    /\ DOMAIN vaultTask = VaultTasks
    /\ \A p \in VaultTasks : TaskFits(vaultTask[p])

\* Store, audit entry and receipts of a capability tell the same end, and the calls
\* under way owe what is missing.
EndTold(c) ==
    /\ \A k \in EndKinds : vaultReceipts[c][k] = 1 => caps[c].state = k
    /\ auditEntries[c].revoked => caps[c].state = "REVOKED"
    /\ auditEntries[c].expired => caps[c].state = "EXPIRED"
    /\ \A p \in VaultTasks : EndOwed(p, c) =>
          caps[c].state = vaultTask[p].kind /\ \A k \in EndKinds : vaultReceipts[c][k] = 0
    /\ \A p, q \in VaultTasks : EndOwed(p, c) /\ EndOwed(q, c) => p = q

EntryTold(c) ==
    /\ \A p, q \in VaultTasks : AuditOwed(p, "ISSUED", c) /\ AuditOwed(q, "ISSUED", c) => p = q
    /\ \A p \in VaultTasks : AuditOwed(p, "ISSUED", c) => ~auditEntries[c].issued /\ caps[c].state # "NONE"
    /\ caps[c].state = "NONE" => ~auditEntries[c].issued
    /\ caps[c].state # "NONE" => auditEntries[c].issued \/ BeingIssued(c)
    /\ caps[c].state = "REVOKED" /\ ~caps[c].early =>
          /\ auditEntries[c].issued
          /\ auditEntries[c].revoked \/ \E p \in VaultTasks : AuditOwed(p, "REVOKED", c)

VaultInv == VaultTypes /\ \A c \in Caps : EndTold(c) /\ EntryTold(c)

\* A step that touches neither the capability nor what is owed for it.
LEMMA VaultFrame ==
    ASSUME NEW c \in Caps, EndTold(c), EntryTold(c),
           caps'[c] = caps[c], auditEntries'[c] = auditEntries[c], vaultReceipts'[c] = vaultReceipts[c],
           \A p \in VaultTasks : /\ EndOwed(p, c)' <=> EndOwed(p, c)
                                 /\ EndOwed(p, c) => vaultTask'[p].kind = vaultTask[p].kind
                                 /\ \A kind \in {"ISSUED", "REVOKED"} :
                                        AuditOwed(p, kind, c)' <=> AuditOwed(p, kind, c)
    PROVE  EndTold(c)' /\ EntryTold(c)'
<1>1. BeingIssued(c)' <=> BeingIssued(c)
  BY Zenon DEF BeingIssued, AuditOwed
<1>2. EndTold(c)'
  BY Zenon DEF EndTold
<1>3. EntryTold(c)'
  BY <1>1, Zenon DEF EntryTold
<1> QED BY <1>2, <1>3, Zenon

\* Ending capabilities that are ACTIVE, with the audit and the receipts to follow
\* (revoke_capability, expire_capability, run_expiration_pass).
LEMMA RetireKeeps ==
    ASSUME VaultInv, NEW p \in VaultTasks, NEW cs \in SUBSET Caps, NEW kind \in EndKinds,
           Idle(p), \A c \in cs : caps[c].state = "ACTIVE", Retire(cs, kind),
           ThenRecord(p, "audit", kind, cs), kind = "REVOKED" => \E c \in Caps : cs = {c},
           UNCHANGED <<vaultNow, auditEntries, vaultReceipts>>
    PROVE  VaultInv'
<1>0. VaultTypes /\ \A c \in Caps : EndTold(c) /\ EntryTold(c)
  BY Zenon DEF VaultInv
<1>1. /\ caps \in [Caps -> Capability] /\ auditEntries \in [Caps -> AuditEntry]
      /\ vaultReceipts \in [Caps -> [EndKinds -> {0, 1}]] /\ DOMAIN vaultTask = VaultTasks
      /\ \A q \in VaultTasks : TaskFits(vaultTask[q])
  BY <1>0, Zenon DEF VaultTypes
<1>2. /\ vaultTask'[p] = [at |-> "audit", kind |-> kind, todo |-> cs]
      /\ \A q \in VaultTasks \ {p} : vaultTask'[q] = vaultTask[q]
      /\ DOMAIN vaultTask' = VaultTasks
  BY <1>1, Zenon DEF ThenRecord
<1>3. TaskFits(vaultTask'[p])
  BY <1>2 DEF TaskFits, TaskKinds, EndKinds
<1>4. \A c \in Caps : /\ c \in cs => /\ caps'[c].state = kind /\ caps'[c].early = BeingIssued(c)
                                     /\ caps'[c] \in Capability
                      /\ c \notin cs => caps'[c] = caps[c]
  BY <1>1, ZenonT(30) DEF Retire, Capability, CapStates, EndKinds, BeingIssued
<1>5. caps' \in [Caps -> Capability]
  BY <1>1, <1>4, Zenon DEF Retire
<1>6. VaultTypes'
  BY <1>0, <1>2, <1>3, <1>5, Zenon DEF VaultTypes
<1>7. \A c \in Caps : /\ ~EndOwed(p, c) /\ ~AuditOwed(p, "ISSUED", c) /\ ~AuditOwed(p, "REVOKED", c)
                      /\ EndOwed(p, c)' <=> c \in cs
                      /\ ~AuditOwed(p, "ISSUED", c)'
                      /\ AuditOwed(p, "REVOKED", c)' <=> c \in cs /\ kind = "REVOKED"
  BY <1>2 DEF Idle, EndOwed, AuditOwed, EndKinds
<1>8. \A c \in Caps, q \in VaultTasks \ {p} :
          /\ EndOwed(q, c)' <=> EndOwed(q, c)
          /\ \A k \in {"ISSUED", "REVOKED"} : AuditOwed(q, k, c)' <=> AuditOwed(q, k, c)
  BY <1>2, Zenon DEF EndOwed, AuditOwed
<1>9. ASSUME NEW c \in Caps PROVE EndTold(c)' /\ EntryTold(c)'
  <2>1. EndTold(c) /\ EntryTold(c)
    BY <1>0, Zenon
  <2>2. CASE c \notin cs
    BY <1>2, <1>4, <1>7, <1>8, <2>1, <2>2, VaultFrame, Zenon
  <2>3. CASE c \in cs
    <3>1. /\ caps[c].state = "ACTIVE" /\ vaultReceipts[c] \in [EndKinds -> {0, 1}]
          /\ caps'[c].state = kind /\ caps'[c].early = BeingIssued(c)
      BY <1>1, <1>4, <2>3, Zenon
    <3>2. \A k \in EndKinds : vaultReceipts[c][k] = 0
      BY <2>1, <3>1, Zenon DEF EndTold, EndKinds
    <3>3. ~auditEntries[c].revoked /\ ~auditEntries[c].expired
      BY <2>1, <3>1, Zenon DEF EndTold
    <3>4. \A q \in VaultTasks : ~EndOwed(q, c)
      BY <2>1, <3>1, Zenon DEF EndTold, EndOwed, EndKinds
    <3>5. \A q \in VaultTasks : EndOwed(q, c)' <=> q = p
      BY <1>7, <1>8, <2>3, <3>4, Zenon
    <3>6. EndTold(c)'
      <4>1. /\ \A k \in EndKinds : vaultReceipts'[c][k] = 0
            /\ ~auditEntries'[c].revoked /\ ~auditEntries'[c].expired
        BY <1>2, <3>2, <3>3, Zenon
      <4>2. \A q \in VaultTasks : EndOwed(q, c)' => caps'[c].state = vaultTask'[q].kind
        BY <1>2, <3>1, <3>5
      <4>3. \A q, u \in VaultTasks : EndOwed(q, c)' /\ EndOwed(u, c)' => q = u
        BY <3>5, Zenon
      <4> QED BY <4>1, <4>2, <4>3 DEF EndTold
    <3>7. BeingIssued(c)' <=> BeingIssued(c)
      BY <1>7, <1>8, ZenonT(30) DEF BeingIssued, AuditOwed
    <3>8. auditEntries[c].issued \/ BeingIssued(c)
      BY <2>1, <3>1, Zenon DEF EntryTold
    <3>9. \A q \in VaultTasks : AuditOwed(q, "ISSUED", c)' <=> AuditOwed(q, "ISSUED", c)
      BY <1>7, <1>8, Zenon
    <3>10. kind = "REVOKED" => AuditOwed(p, "REVOKED", c)'
      BY <1>7, <2>3, Zenon
    <3>11. kind # "NONE"
      BY Zenon DEF EndKinds
    <3>12. EntryTold(c)'
      BY <2>1, <3>1, <3>7, <3>8, <3>9, <3>10, <3>11, Zenon DEF EntryTold
    <3> QED BY <3>6, <3>12, Zenon
  <2> QED BY <2>2, <2>3, Zenon
<1> QED BY <1>6, <1>9, Zenon DEF VaultInv

\* The audit entry of one capability of a call (record_issue, record_use,
\* record_revoke, record_expire).
LEMMA AuditKeeps == ASSUME VaultInv, NEW p \in VaultTasks, RecordAudit(p) PROVE VaultInv'
<1>0. VaultTypes /\ \A c \in Caps : EndTold(c) /\ EntryTold(c)
  BY Zenon DEF VaultInv
<1>1. /\ caps \in [Caps -> Capability] /\ auditEntries \in [Caps -> AuditEntry]
      /\ DOMAIN vaultTask = VaultTasks /\ TaskFits(vaultTask[p])
      /\ \A q \in VaultTasks : TaskFits(vaultTask[q])
  BY <1>0, Zenon DEF VaultTypes
<1>2. PICK d \in vaultTask[p].todo :
          /\ auditEntries' = [auditEntries EXCEPT ![d] = Recorded(auditEntries[d], vaultTask[p].kind)]
          /\ vaultTask' = [vaultTask EXCEPT ![p] = [at |-> "emit", kind |-> vaultTask[p].kind,
                                                    todo |-> vaultTask[p].todo \ {d}, cap |-> d]]
  BY Zenon DEF RecordAudit
<1>3. d \in Caps /\ vaultTask[p].at = "audit" /\ UNCHANGED <<vaultNow, caps, vaultReceipts>>
  BY <1>1, <1>2, Zenon DEF RecordAudit, TaskFits
<1>4. PICK kind \in TaskKinds : kind = vaultTask[p].kind
  BY <1>1, Zenon DEF TaskFits
<1>5. kind \in {"ISSUED", "REVOKED"} => vaultTask[p].todo = {d}
  BY <1>1, <1>2, <1>3, <1>4, Zenon DEF TaskFits
<1>6. /\ vaultTask'[p].at = "emit" /\ vaultTask'[p].kind = kind /\ vaultTask'[p].cap = d
      /\ vaultTask'[p].todo = vaultTask[p].todo \ {d}
      /\ \A q \in VaultTasks \ {p} : vaultTask'[q] = vaultTask[q]
      /\ DOMAIN vaultTask' = VaultTasks
  BY <1>1, <1>2, <1>4, Zenon
<1>7. TaskFits(vaultTask'[p])
  BY <1>1, <1>3, <1>4, <1>5, <1>6, Zenon DEF TaskFits
<1>8. Recorded(auditEntries[d], kind) \in AuditEntry
  <2>1. PICK entry \in AuditEntry : entry = auditEntries[d]
    BY <1>1, <1>3, Zenon
  <2>2. entry.issued \in BOOLEAN /\ entry.uses \in Nat /\ entry.uses + 1 \in Nat
    BY DEF AuditEntry
  <2>3. kind = "USED" => Recorded(entry, kind) \in AuditEntry
    BY <2>2, Zenon DEF Recorded, AuditEntry
  <2>4. kind # "USED" => Recorded(entry, kind) \in AuditEntry
    BY <2>2, Zenon DEF Recorded, AuditEntry, NoEntry
  <2> QED BY <2>1, <2>3, <2>4, Zenon
<1>9. /\ auditEntries' \in [Caps -> AuditEntry] /\ auditEntries'[d] = Recorded(auditEntries[d], kind)
      /\ \A c \in Caps \ {d} : auditEntries'[c] = auditEntries[c]
  BY <1>1, <1>2, <1>3, <1>4, <1>8, Zenon
<1>10. VaultTypes'
  BY <1>0, <1>3, <1>6, <1>7, <1>9, Zenon DEF VaultTypes
<1>11. \A c \in Caps, q \in VaultTasks : /\ EndOwed(q, c)' <=> EndOwed(q, c)
                                         /\ EndOwed(q, c) => vaultTask'[q].kind = vaultTask[q].kind
  BY <1>2, <1>3, <1>4, <1>6 DEF EndOwed
<1>12. \A c \in Caps, q \in VaultTasks : \A k \in {"ISSUED", "REVOKED"} :
          AuditOwed(q, k, c)' <=> AuditOwed(q, k, c) /\ ~(q = p /\ c = d)
  BY <1>3, <1>4, <1>5, <1>6, ZenonT(30) DEF AuditOwed
<1>13. ASSUME NEW c \in Caps PROVE EndTold(c)' /\ EntryTold(c)'
  <2>1. EndTold(c) /\ EntryTold(c)
    BY <1>0, Zenon
  <2>2. CASE c # d
    BY <1>3, <1>9, <1>11, <1>12, <2>1, <2>2, VaultFrame, Zenon
  <2>3. CASE c = d
    <3>1. kind \in EndKinds => EndOwed(p, d)
      BY <1>2, <1>3, <1>4, Zenon DEF EndOwed
    <3>2. kind \in EndKinds => caps[d].state = kind
      BY <1>4, <2>1, <2>3, <3>1, Zenon DEF EndTold
    <3>3. auditEntries[d] \in AuditEntry
      BY <1>1, <1>3, Zenon
    <3>4. /\ auditEntries'[d].revoked => auditEntries[d].revoked \/ kind = "REVOKED"
          /\ auditEntries'[d].expired => auditEntries[d].expired \/ kind = "EXPIRED"
          /\ auditEntries'[d].issued <=> auditEntries[d].issued \/ kind = "ISSUED"
          /\ kind = "REVOKED" => auditEntries'[d].revoked = auditEntries[d].issued
          /\ kind # "ISSUED" /\ auditEntries[d].revoked => auditEntries'[d].revoked \/ kind = "REVOKED"
      BY <1>9, <3>3, ZenonT(30) DEF Recorded, AuditEntry, NoEntry, TaskKinds, EndKinds
    <3>5. EndTold(d)'
      BY <1>3, <1>11, <2>1, <2>3, <3>2, <3>4, Zenon DEF EndTold, EndKinds
    <3>6. kind = "ISSUED" => AuditOwed(p, "ISSUED", d)
      BY <1>2, <1>3, <1>4, Zenon DEF AuditOwed
    <3>7. kind # "ISSUED" => ~AuditOwed(p, "ISSUED", d)
      BY <1>4, Zenon DEF AuditOwed
    <3>8. kind # "REVOKED" => ~AuditOwed(p, "REVOKED", d)
      BY <1>4, Zenon DEF AuditOwed
    <3>9. /\ \A q, r \in VaultTasks : AuditOwed(q, "ISSUED", d)' /\ AuditOwed(r, "ISSUED", d)' => q = r
          /\ \A q \in VaultTasks : AuditOwed(q, "ISSUED", d)' => ~auditEntries'[d].issued /\ caps'[d].state # "NONE"
      BY <1>3, <1>12, <2>1, <2>3, <3>4, <3>6, <3>7, Zenon DEF EntryTold
    <3>10. caps'[d].state = "NONE" => ~auditEntries'[d].issued
      BY <1>3, <2>1, <2>3, <3>4, <3>6, Zenon DEF EntryTold
    <3>11. caps'[d].state # "NONE" => auditEntries'[d].issued \/ BeingIssued(d)'
      <4>1. SUFFICES ASSUME caps[d].state # "NONE", ~auditEntries'[d].issued PROVE BeingIssued(d)'
        BY <1>3, Zenon
      <4>2. kind # "ISSUED" /\ ~auditEntries[d].issued
        BY <3>4, <4>1, Zenon
      <4>3. PICK q \in VaultTasks : AuditOwed(q, "ISSUED", d)
        BY <2>1, <2>3, <4>1, <4>2, Zenon DEF EntryTold, BeingIssued, AuditOwed
      <4>4. AuditOwed(q, "ISSUED", d)'
        BY <1>3, <1>12, <3>7, <4>2, <4>3, Zenon
      <4> QED BY <4>4, Zenon DEF BeingIssued, AuditOwed
    <3>12. ASSUME caps'[d].state = "REVOKED", ~caps'[d].early
           PROVE  /\ auditEntries'[d].issued
                  /\ auditEntries'[d].revoked \/ \E q \in VaultTasks : AuditOwed(q, "REVOKED", d)'
      <4>1. /\ auditEntries[d].issued
            /\ auditEntries[d].revoked \/ \E q \in VaultTasks : AuditOwed(q, "REVOKED", d)
        BY <1>3, <2>1, <2>3, <3>12, Zenon DEF EntryTold
      <4>2. kind # "ISSUED"
        BY <2>1, <2>3, <3>6, <4>1, Zenon DEF EntryTold
      <4>3. CASE kind = "REVOKED"
        BY <3>4, <4>1, <4>3, Zenon
      <4>4. CASE kind # "REVOKED"
        BY <1>3, <1>12, <3>4, <3>8, <4>1, <4>2, <4>4, Zenon
      <4> QED BY <3>4, <4>1, <4>3, <4>4, Zenon
    <3>13. EntryTold(d)'
      BY <3>9, <3>10, <3>11, <3>12, Zenon DEF EntryTold
    <3> QED BY <2>3, <3>5, <3>13, Zenon
  <2> QED BY <2>2, <2>3, Zenon
<1> QED BY <1>10, <1>13, Zenon DEF VaultInv

\* The receipt of the capability just audited, or the failure that ends the call.
LEMMA EmitKeeps == ASSUME VaultInv, NEW p \in VaultTasks, EmitVaultReceipt(p) PROVE VaultInv'
<1>0. VaultTypes /\ \A c \in Caps : EndTold(c) /\ EntryTold(c)
  BY Zenon DEF VaultInv
<1>1. /\ vaultReceipts \in [Caps -> [EndKinds -> {0, 1}]]
      /\ DOMAIN vaultTask = VaultTasks /\ TaskFits(vaultTask[p])
      /\ \A q \in VaultTasks : TaskFits(vaultTask[q])
  BY <1>0, Zenon DEF VaultTypes
<1>2. PICK d, kind, rest : d = vaultTask[p].cap /\ kind = vaultTask[p].kind /\ rest = vaultTask[p].todo
  BY Zenon
<1>3. /\ vaultTask[p].at = "emit" /\ d \in Caps \ rest /\ rest \subseteq Caps /\ kind \in TaskKinds
      /\ kind \in {"ISSUED", "REVOKED"} => rest = {}
      /\ UNCHANGED <<vaultNow, caps, auditEntries>>
  BY <1>1, <1>2, Zenon DEF EmitVaultReceipt, TaskFits
<1>4. /\ vaultTask'[p] = IdleTask \/ (rest # {} /\ vaultTask'[p] = [at |-> "audit", kind |-> kind, todo |-> rest])
      /\ \A q \in VaultTasks \ {p} : vaultTask'[q] = vaultTask[q]
      /\ DOMAIN vaultTask' = VaultTasks
  BY <1>1, <1>2, Zenon DEF EmitVaultReceipt, ThenRecord
<1>5. TaskFits(vaultTask'[p])
  BY <1>3, <1>4 DEF TaskFits, IdleTask, TaskKinds
<1>6. \/ vaultReceipts' = vaultReceipts
      \/ kind \in EndKinds /\ vaultReceipts' = [vaultReceipts EXCEPT ![d][kind] = @ + 1]
  BY <1>2, Zenon DEF EmitVaultReceipt
<1>7. kind \in EndKinds => /\ EndOwed(p, d) /\ caps[d].state = kind
                           /\ \A k \in EndKinds : vaultReceipts[d][k] = 0
  BY <1>0, <1>2, <1>3, Zenon DEF EndOwed, EndTold
<1>8. /\ vaultReceipts' \in [Caps -> [EndKinds -> {0, 1}]]
      /\ \A c \in Caps \ {d} : vaultReceipts'[c] = vaultReceipts[c]
      /\ \A k \in EndKinds : vaultReceipts'[d][k] = 1 => vaultReceipts[d][k] = 1 \/ k = kind
  <2>1. CASE vaultReceipts' = vaultReceipts
    BY <1>1, <2>1, Zenon
  <2>2. CASE kind \in EndKinds /\ vaultReceipts' = [vaultReceipts EXCEPT ![d][kind] = @ + 1]
    <3>1. vaultReceipts[d][kind] + 1 = 1
      BY <1>7, <2>2
    <3>2. vaultReceipts' = [vaultReceipts EXCEPT ![d] = [vaultReceipts[d] EXCEPT ![kind] = 1]]
      BY <2>2, <3>1, Zenon
    <3>3. [vaultReceipts[d] EXCEPT ![kind] = 1] \in [EndKinds -> {0, 1}]
      BY <1>1, <1>3, Zenon
    <3>4. vaultReceipts'[d] = [vaultReceipts[d] EXCEPT ![kind] = 1]
      BY <1>1, <1>3, <3>2, Zenon
    <3>5. vaultReceipts' \in [Caps -> [EndKinds -> {0, 1}]]
      BY <1>1, <1>3, <3>2, <3>3, Zenon
    <3> QED BY <1>1, <1>3, <3>2, <3>4, <3>5, Zenon
  <2> QED BY <1>6, <2>1, <2>2, Zenon
<1>9. VaultTypes'
  BY <1>0, <1>3, <1>4, <1>5, <1>8, Zenon DEF VaultTypes
<1>10. \A c \in Caps, q \in VaultTasks :
          /\ EndOwed(q, c)' => EndOwed(q, c) /\ vaultTask'[q].kind = vaultTask[q].kind /\ ~(q = p /\ c = d)
          /\ \A k \in {"ISSUED", "REVOKED"} : AuditOwed(q, k, c)' <=> AuditOwed(q, k, c)
  <2>1. ASSUME NEW c \in Caps
        PROVE  /\ EndOwed(p, c)' => EndOwed(p, c) /\ vaultTask'[p].kind = vaultTask[p].kind /\ c # d
               /\ \A k \in {"ISSUED", "REVOKED"} : AuditOwed(p, k, c)' <=> AuditOwed(p, k, c)
    <3>1. CASE vaultTask'[p] = IdleTask
      BY <1>3, <3>1 DEF EndOwed, AuditOwed, IdleTask
    <3>2. CASE rest # {} /\ vaultTask'[p] = [at |-> "audit", kind |-> kind, todo |-> rest]
      <4>1. kind \notin {"ISSUED", "REVOKED"}
        BY <1>3, <3>2, Zenon
      <4>2. EndOwed(p, c)' => EndOwed(p, c) /\ vaultTask'[p].kind = vaultTask[p].kind /\ c # d
        BY <1>2, <1>3, <3>2 DEF EndOwed
      <4> QED BY <1>3, <3>2, <4>1, <4>2 DEF AuditOwed
    <3> QED BY <1>4, <3>1, <3>2, Zenon
  <2>2. ASSUME NEW c \in Caps, NEW q \in VaultTasks \ {p}
        PROVE  /\ EndOwed(q, c)' => EndOwed(q, c) /\ vaultTask'[q].kind = vaultTask[q].kind
               /\ \A k \in {"ISSUED", "REVOKED"} : AuditOwed(q, k, c)' <=> AuditOwed(q, k, c)
    BY <1>4, Zenon DEF EndOwed, AuditOwed
  <2> QED BY <2>1, <2>2, Zenon
<1>11. ASSUME NEW c \in Caps PROVE EndTold(c)' /\ EntryTold(c)'
  <2>1. EndTold(c) /\ EntryTold(c)
    BY <1>0, Zenon
  <2>2. BeingIssued(c)' <=> BeingIssued(c)
    BY <1>10, Zenon DEF BeingIssued, AuditOwed
  <2>3. EntryTold(c)'
    BY <1>3, <1>10, <2>1, <2>2, Zenon DEF EntryTold
  <2>4. CASE c # d
    BY <1>3, <1>8, <1>10, <2>1, <2>3, <2>4, ZenonT(30) DEF EndTold
  <2>5. CASE c = d
    <3>1. \A k \in EndKinds : vaultReceipts'[d][k] = 1 => caps'[d].state = k
      BY <1>3, <1>7, <1>8, <2>1, <2>5, Zenon DEF EndTold
    <3>2. \A q \in VaultTasks : ~EndOwed(q, d)' \/ (kind \notin EndKinds /\ EndOwed(q, d))
      BY <1>7, <1>10, <2>1, <2>5, Zenon DEF EndTold
    <3>3. kind \notin EndKinds => vaultReceipts' = vaultReceipts
      BY <1>6, Zenon
    <3> QED BY <1>3, <1>10, <2>1, <2>3, <2>5, <3>1, <3>2, <3>3, Zenon DEF EndTold
  <2> QED BY <2>4, <2>5, Zenon
<1> QED BY <1>9, <1>11, Zenon DEF VaultInv

\* VaultInv is inductive.
LEMMA VaultInductive == VaultInv /\ [VaultNext]_vaultVars => VaultInv'
<1> SUFFICES ASSUME VaultInv, [VaultNext]_vaultVars PROVE VaultInv'
  BY Zenon
<1>0. VaultTypes /\ \A c \in Caps : EndTold(c) /\ EntryTold(c)
  BY Zenon DEF VaultInv
<1>1. /\ vaultNow \in Nat /\ caps \in [Caps -> Capability] /\ auditEntries \in [Caps -> AuditEntry]
      /\ vaultReceipts \in [Caps -> [EndKinds -> {0, 1}]] /\ DOMAIN vaultTask = VaultTasks
      /\ \A q \in VaultTasks : TaskFits(vaultTask[q])
  BY <1>0, Zenon DEF VaultTypes
\* Steps of a call that is about a use: nothing is owed before or after.
<1>2. ASSUME NEW p \in VaultTasks, NEW t, TaskFits(t), vaultTask' = [vaultTask EXCEPT ![p] = t],
             vaultTask[p].at \in {"idle", "execute"}, t.kind = "USED",
             UNCHANGED <<vaultNow, caps, auditEntries, vaultReceipts>>
      PROVE  VaultInv'
  <2>1. vaultTask'[p] = t /\ DOMAIN vaultTask' = VaultTasks /\ \A q \in VaultTasks \ {p} : vaultTask'[q] = vaultTask[q]
    BY <1>1, <1>2, Zenon
  <2>2. VaultTypes'
    BY <1>0, <1>2, <2>1, Zenon DEF VaultTypes
  <2>3. \A c \in Caps, q \in VaultTasks :
          /\ EndOwed(q, c)' <=> EndOwed(q, c)
          /\ EndOwed(q, c) => vaultTask'[q].kind = vaultTask[q].kind
          /\ \A kind \in {"ISSUED", "REVOKED"} : AuditOwed(q, kind, c)' <=> AuditOwed(q, kind, c)
    BY <1>2, <2>1 DEF EndOwed, AuditOwed, EndKinds
  <2>4. ASSUME NEW c \in Caps PROVE EndTold(c)' /\ EntryTold(c)'
    BY <1>0, <1>2, <2>3, VaultFrame, Zenon
  <2> QED BY <2>2, <2>4, Zenon DEF VaultInv
<1>3. TaskFits(IdleTask) /\ IdleTask.kind = "USED"
  BY Zenon DEF TaskFits, IdleTask, TaskKinds
<1>4. ASSUME NEW p \in VaultTasks, ExecuteOperation(p) PROVE VaultInv'
  <2>1. PICK cs \in SUBSET Caps : cs = vaultTask[p].todo
    BY <1>1, Zenon DEF TaskFits
  <2>2. TaskFits([at |-> "audit", kind |-> "USED", todo |-> cs])
    BY Zenon DEF TaskFits, TaskKinds
  <2> QED BY <1>2, <1>3, <1>4, <2>1, <2>2, Zenon DEF ExecuteOperation, ThenRecord
<1>5. ASSUME NEW p \in VaultTasks, NEW c \in Caps, UseCapability(p, c), ~Overdue(c) PROVE VaultInv'
  <2>1. TaskFits([at |-> "execute", kind |-> "USED", todo |-> {c}])
    BY Zenon DEF TaskFits, TaskKinds
  <2> QED BY <1>2, <1>5, <2>1, Zenon DEF UseCapability, ThenRecord, Idle
<1>6. ASSUME NEW p \in VaultTasks, NEW d \in Caps, UseCapability(p, d), Overdue(d) PROVE VaultInv'
  <2>1. /\ caps[d].state = "ACTIVE" /\ Retire({d}, "EXPIRED") /\ UNCHANGED <<vaultNow, vaultReceipts, vaultTask>>
        /\ auditEntries' = [auditEntries EXCEPT ![d].expired = @ \/ auditEntries[d].issued]
    BY <1>6, Zenon DEF UseCapability
  <2>2. /\ caps' \in [Caps -> Capability] /\ caps'[d].state = "EXPIRED"
        /\ \A c \in Caps \ {d} : caps'[c] = caps[c]
    BY <1>1, <2>1, ZenonT(30) DEF Retire, Capability, CapStates, BeingIssued
  <2>3. /\ auditEntries' \in [Caps -> AuditEntry]
        /\ \A c \in Caps \ {d} : auditEntries'[c] = auditEntries[c]
        /\ auditEntries'[d].issued = auditEntries[d].issued /\ auditEntries'[d].revoked = auditEntries[d].revoked
    BY <1>1, <2>1, Zenon DEF AuditEntry
  <2>4. VaultTypes'
    BY <1>0, <2>1, <2>2, <2>3, Zenon DEF VaultTypes
  <2>5. \A c \in Caps, q \in VaultTasks :
          /\ EndOwed(q, c)' <=> EndOwed(q, c)
          /\ \A kind \in {"ISSUED", "REVOKED"} : AuditOwed(q, kind, c)' <=> AuditOwed(q, kind, c)
    BY <2>1, Zenon DEF EndOwed, AuditOwed
  <2>6. ASSUME NEW c \in Caps PROVE EndTold(c)' /\ EntryTold(c)'
    <3>1. EndTold(c) /\ EntryTold(c)
      BY <1>0, Zenon
    <3>2. CASE c # d
      BY <2>1, <2>2, <2>3, <2>5, <3>1, <3>2, VaultFrame, Zenon
    <3>3. CASE c = d
      <4>1. /\ \A k \in EndKinds : vaultReceipts[d][k] # 1
            /\ ~auditEntries[d].revoked /\ \A q \in VaultTasks : ~EndOwed(q, d)
        BY <2>1, <3>1, <3>3, Zenon DEF EndTold, EndOwed, EndKinds
      <4>2. EndTold(d)'
        BY <2>1, <2>2, <2>3, <2>5, <4>1, Zenon DEF EndTold
      <4>3. BeingIssued(d)' <=> BeingIssued(d)
        BY <2>1, Zenon DEF BeingIssued
      <4>4. EntryTold(d)'
        BY <2>1, <2>2, <2>3, <2>5, <3>1, <3>3, <4>3, Zenon DEF EntryTold
      <4> QED BY <3>3, <4>2, <4>4, Zenon
    <3> QED BY <3>2, <3>3, Zenon
  <2> QED BY <2>4, <2>6, Zenon DEF VaultInv
<1>7. ASSUME NEW p \in VaultTasks, NEW d \in Caps,
             NEW expires \in {NoExpiry} \cup (vaultNow .. VaultMaxNow - 1), IssueCapability(p, d, expires)
      PROVE  VaultInv'
  <2>1. /\ Idle(p) /\ caps[d].state = "NONE" /\ UNCHANGED <<vaultNow, auditEntries, vaultReceipts>>
        /\ caps' = [caps EXCEPT ![d].state = "ACTIVE", ![d].expires = expires]
        /\ vaultTask' = [vaultTask EXCEPT ![p] = [at |-> "audit", kind |-> "ISSUED", todo |-> {d}]]
    BY <1>7, Zenon DEF IssueCapability, ThenRecord
  <2>2. expires \in {NoExpiry} \cup Int
    BY <1>1, VaultClockBounded
  <2>3. /\ caps' \in [Caps -> Capability] /\ caps'[d].state = "ACTIVE"
        /\ \A c \in Caps \ {d} : caps'[c] = caps[c]
    BY <1>1, <2>1, <2>2, ZenonT(30) DEF Capability, CapStates
  <2>4. /\ vaultTask'[p] = [at |-> "audit", kind |-> "ISSUED", todo |-> {d}] /\ DOMAIN vaultTask' = VaultTasks
        /\ \A q \in VaultTasks \ {p} : vaultTask'[q] = vaultTask[q]
    BY <1>1, <2>1, Zenon
  <2>5. TaskFits(vaultTask'[p])
    BY <2>4 DEF TaskFits, TaskKinds
  <2>6. VaultTypes'
    BY <1>0, <2>1, <2>3, <2>4, <2>5, Zenon DEF VaultTypes
  <2>7. \A c \in Caps, q \in VaultTasks :
          /\ EndOwed(q, c)' <=> EndOwed(q, c)
          /\ EndOwed(q, c) => vaultTask'[q].kind = vaultTask[q].kind
          /\ AuditOwed(q, "REVOKED", c)' <=> AuditOwed(q, "REVOKED", c)
          /\ AuditOwed(q, "ISSUED", c)' <=> AuditOwed(q, "ISSUED", c) \/ (q = p /\ c = d)
    BY <2>1, <2>4 DEF EndOwed, AuditOwed, EndKinds, Idle
  <2>8. ASSUME NEW c \in Caps PROVE EndTold(c)' /\ EntryTold(c)'
    <3>1. EndTold(c) /\ EntryTold(c)
      BY <1>0, Zenon
    <3>2. CASE c # d
      BY <2>1, <2>3, <2>7, <3>1, <3>2, VaultFrame
    <3>3. CASE c = d
      <4>1. /\ \A k \in EndKinds : vaultReceipts[d][k] # 1
            /\ ~auditEntries[d].revoked /\ ~auditEntries[d].expired
            /\ \A q \in VaultTasks : ~EndOwed(q, d)
        BY <2>1, <3>1, <3>3, Zenon DEF EndTold, EndOwed, EndKinds
      <4>2. EndTold(d)'
        BY <2>1, <2>7, <4>1, Zenon DEF EndTold
      <4>3. ~auditEntries[d].issued /\ \A q \in VaultTasks : ~AuditOwed(q, "ISSUED", d)
        BY <2>1, <3>1, <3>3, Zenon DEF EntryTold
      <4>4. AuditOwed(p, "ISSUED", d)'
        BY <2>7, Zenon
      <4>5. BeingIssued(d)'
        BY <4>4, Zenon DEF BeingIssued, AuditOwed
      <4>6. EntryTold(d)'
        BY <2>1, <2>3, <2>7, <4>3, <4>5 DEF EntryTold
      <4> QED BY <3>3, <4>2, <4>6, Zenon
    <3> QED BY <3>2, <3>3, Zenon
  <2> QED BY <2>6, <2>8, Zenon DEF VaultInv
<1>8. ASSUME NEW p \in VaultTasks, NEW c \in Caps, RevokeCapability(p, c) \/ ExpireCapability(p, c) PROVE VaultInv'
  <2>1. PICK kind \in EndKinds : /\ Idle(p) /\ caps[c].state = "ACTIVE" /\ Retire({c}, kind)
                                 /\ ThenRecord(p, "audit", kind, {c})
                                 /\ UNCHANGED <<vaultNow, auditEntries, vaultReceipts>>
    BY <1>8, Zenon DEF RevokeCapability, ExpireCapability, EndKinds
  <2>2. {c} \in SUBSET Caps /\ \E e \in Caps : {c} = {e}
    BY Zenon
  <2>3. \A e \in {c} : caps[e].state = "ACTIVE"
    BY <2>1, Zenon
  <2> QED BY <2>1, <2>2, <2>3, RetireKeeps, Zenon
<1>9. ASSUME NEW p \in VaultTasks, RunExpirationPass(p) PROVE VaultInv'
  <2>1. PICK due \in SUBSET Caps : due = {c \in Caps : caps[c].state = "ACTIVE" /\ Overdue(c)}
    BY Zenon
  <2>2. /\ Idle(p) /\ Retire(due, "EXPIRED") /\ ThenRecord(p, "audit", "EXPIRED", due)
        /\ UNCHANGED <<vaultNow, auditEntries, vaultReceipts>>
    BY <1>9, <2>1, Zenon DEF RunExpirationPass
  <2>3. "EXPIRED" \in EndKinds /\ \A c \in due : caps[c].state = "ACTIVE"
    BY <2>1, Zenon DEF EndKinds
  <2> QED BY <2>2, <2>3, RetireKeeps, Zenon
<1>10. CASE VaultTick \/ UNCHANGED vaultVars
  <2>1. UNCHANGED <<caps, auditEntries, vaultReceipts, vaultTask>> /\ vaultNow' \in Nat
    BY <1>1, <1>10 DEF VaultTick, vaultVars
  <2>2. VaultTypes'
    BY <1>0, <2>1, Zenon DEF VaultTypes
  <2>3. \A c \in Caps, q \in VaultTasks :
          /\ EndOwed(q, c)' <=> EndOwed(q, c)
          /\ \A kind \in {"ISSUED", "REVOKED"} : AuditOwed(q, kind, c)' <=> AuditOwed(q, kind, c)
    BY <2>1, Zenon DEF EndOwed, AuditOwed
  <2>4. ASSUME NEW c \in Caps PROVE EndTold(c)' /\ EntryTold(c)'
    BY <1>0, <2>1, <2>3, VaultFrame, Zenon
  <2> QED BY <2>2, <2>4, Zenon DEF VaultInv
<1> QED BY <1>4, <1>5, <1>6, <1>7, <1>8, <1>9, <1>10, AuditKeeps, EmitKeeps, Zenon DEF VaultNext

\* A capability ends once, and store, audit log and receipts tell the same end, for any
\* number of capabilities and callers (InMemoryVaultBroker, CapabilityLifecycleDriver).
THEOREM VaultTellsTheEnd == VaultSpec => [](VaultTypeOK /\ EndsAudited)
<1>1. VaultInit => VaultInv
  <2> SUFFICES ASSUME VaultInit PROVE VaultInv
    BY Zenon
  <2>1. TaskFits(IdleTask)
    BY Zenon DEF TaskFits, IdleTask, TaskKinds
  <2>2. VaultTypes
    BY <2>1, Zenon DEF VaultInit, VaultTypes, Capability, CapStates, AuditEntry, NoEntry
  <2>3. \A p \in VaultTasks, c \in Caps : ~EndOwed(p, c) /\ \A k : ~AuditOwed(p, k, c)
    BY Zenon DEF VaultInit, EndOwed, AuditOwed, IdleTask
  <2>4. \A c \in Caps : EndTold(c)
    BY <2>3 DEF VaultInit, EndTold, NoEntry
  <2>5. \A c \in Caps : EntryTold(c)
    BY <2>3, Zenon DEF VaultInit, EntryTold, NoEntry
  <2> QED BY <2>2, <2>4, <2>5, Zenon DEF VaultInv
<1>2. VaultInv => EndsAudited
  <2> SUFFICES ASSUME VaultInv, NEW c \in Caps
               PROVE  /\ vaultReceipts[c]["REVOKED"] + vaultReceipts[c]["EXPIRED"] <= 1
                      /\ vaultReceipts[c]["REVOKED"] = 1 \/ auditEntries[c].revoked => caps[c].state = "REVOKED"
                      /\ vaultReceipts[c]["EXPIRED"] = 1 \/ auditEntries[c].expired => caps[c].state = "EXPIRED"
                      /\ (\A p \in VaultTasks : Idle(p)) /\ caps[c].state = "REVOKED" /\ ~caps[c].early
                            => auditEntries[c].revoked
    BY Zenon DEF EndsAudited, EndsOnce, RevocationAudited
  <2>1. EndTold(c) /\ EntryTold(c) /\ vaultReceipts \in [Caps -> [EndKinds -> {0, 1}]]
    BY Zenon DEF VaultInv, VaultTypes
  <2>2. vaultReceipts[c]["REVOKED"] \in {0, 1} /\ vaultReceipts[c]["EXPIRED"] \in {0, 1}
    BY <2>1, Zenon DEF EndKinds
  <2>3. ~(vaultReceipts[c]["REVOKED"] = 1 /\ vaultReceipts[c]["EXPIRED"] = 1)
    BY <2>1, Zenon DEF EndTold, EndKinds
  <2>4. vaultReceipts[c]["REVOKED"] + vaultReceipts[c]["EXPIRED"] <= 1
    BY <2>2, <2>3
  <2>5. (\A p \in VaultTasks : Idle(p)) => \A p \in VaultTasks : ~AuditOwed(p, "REVOKED", c)
    BY Zenon DEF Idle, AuditOwed
  <2>6. /\ vaultReceipts[c]["REVOKED"] = 1 \/ auditEntries[c].revoked => caps[c].state = "REVOKED"
        /\ vaultReceipts[c]["EXPIRED"] = 1 \/ auditEntries[c].expired => caps[c].state = "EXPIRED"
    BY <2>1, Zenon DEF EndTold, EndKinds
  <2>7. (\A p \in VaultTasks : Idle(p)) /\ caps[c].state = "REVOKED" /\ ~caps[c].early
            => auditEntries[c].revoked
    BY <2>1, <2>5, Zenon DEF EntryTold
  <2> QED BY <2>4, <2>6, <2>7, Zenon
<1>3. VaultInv => VaultTypeOK
  BY DEF VaultInv, VaultTypes, VaultTypeOK, Capability, CapStates, AuditEntry, TaskFits
<1> QED BY <1>1, <1>2, <1>3, VaultInductive, PTL DEF VaultSpec

--------------------------------------------------------------------------------
(* The approval sink. Single use is not inductive by itself: it needs that a    *)
(* binding which can still be consumed never has been, which in turn needs that *)
(* ids are minted fresh. SinkInv adds that, and that CONSUMED is only written   *)
(* by a consumption that is counted.                                            *)

(* Fresh and GRANTED bindings have never been returned to a caller. *)
UnspentInv ==
  \A b \in Bindings :
    (bindings[b] = Absent \/ bindings[b].state = "Granted") => passes[b] = 0

(* A CONSUMED binding has been returned to a caller. *)
SpentInv ==
  \A b \in Bindings :
    (bindings[b] # Absent /\ bindings[b].state = "Consumed") => passes[b] > 0

SinkInv == SinkTypeOK /\ UnspentInv /\ SpentInv /\ ConsumedOnce

-----------------------------------------------------------------------------
(* What InjectGrantedBinding stores is a binding. *)
LEMMA GrantedIsBinding ==
  ASSUME NEW q \in Requests, NEW b \in Bindings, NEW g \in Grantors,
         SinkTypeOK, InjectGrantedBinding(q, b, g)
  PROVE  /\ bindings'[b] \in Binding
         /\ bindings'[b].request = q /\ bindings'[b].state = "Granted"
         /\ \A c \in Bindings : c # b => bindings'[c] = bindings[c]
<1>1. requests[q] \in Request BY Zenon DEF SinkTypeOK, InjectGrantedBinding
<1>2. EffectiveTtl(requests[q]) \in Nat
  BY <1>1, TimeAssumption, Zenon DEF EffectiveTtl, Request
<1>3. now + EffectiveTtl(requests[q]) \in Int BY <1>2 DEF SinkTypeOK
<1>4. requests[q].hash \in Hashes BY <1>1, Zenon DEF Request
<1>5. bindings'[b] = [state |-> "Granted", request |-> q, hash |-> requests[q].hash,
                      granted_by |-> g, expires_at |-> now + EffectiveTtl(requests[q])]
  BY Zenon DEF SinkTypeOK, InjectGrantedBinding
<1>6. \A c \in Bindings : c # b => bindings'[c] = bindings[c]
  BY Zenon DEF SinkTypeOK, InjectGrantedBinding
<1>7. bindings'[b] \in Binding BY <1>3, <1>4, <1>5 DEF Binding, BindingState
<1>8. QED BY <1>5, <1>6, <1>7

(* An update that only moves the state, or the expiry, of an existing       *)
(* binding keeps the type and the request of every binding.                 *)
LEMMA UpdateKeepsType ==
  ASSUME SinkTypeOK, NEW b \in Bindings, bindings[b] # Absent,
         NEW s \in BindingState, NEW e \in Int,
         bindings' = [bindings EXCEPT ![b] = [@ EXCEPT !.state = s, !.expires_at = e]],
         UNCHANGED <<requests, latest>>, now' \in Nat, passes' \in [Bindings -> Nat]
  PROVE  /\ SinkTypeOK'
         /\ bindings'[b] # Absent /\ bindings'[b].state = s
         /\ \A c \in Bindings : c # b => bindings'[c] = bindings[c]
<1>1. bindings[b] \in Binding BY Zenon DEF SinkTypeOK
<1>2. /\ bindings'[b] \in Binding
      /\ bindings'[b].state = s /\ bindings'[b].request = bindings[b].request
  BY <1>1, Zenon DEF SinkTypeOK, Binding
<1>3. \A c \in Bindings : c # b => bindings'[c] = bindings[c] BY Zenon DEF SinkTypeOK
<1>4. bindings'[b] # Absent BY <1>2, AbsentAssumption, Zenon
<1>5. bindings' \in [Bindings -> {Absent} \cup Binding] BY <1>2, <1>3, Zenon DEF SinkTypeOK
<1>6. ASSUME NEW q \in Requests, latest'[q] # Absent
      PROVE  bindings'[latest'[q]] # Absent /\ bindings'[latest'[q]].request = q
  <2>1. latest'[q] = latest[q] /\ latest[q] \in Bindings BY <1>6, Zenon DEF SinkTypeOK
  <2>2. bindings[latest[q]] # Absent /\ bindings[latest[q]].request = q
    BY <1>6, <2>1, Zenon DEF SinkTypeOK
  <2>3. QED BY <1>2, <1>3, <1>4, <2>1, <2>2, Zenon
<1>7. SinkTypeOK' BY <1>5, <1>6, Zenon DEF SinkTypeOK
<1>8. QED BY <1>2, <1>3, <1>4, <1>7, Zenon

-----------------------------------------------------------------------------
\* The empty sink satisfies the invariant.
LEMMA SinkInitInv == SinkInit => SinkInv
<1> SUFFICES ASSUME SinkInit PROVE SinkInv BY Zenon
<1>1. SinkTypeOK BY Zenon DEF SinkInit, SinkTypeOK
<1>2. QED BY <1>1 DEF SinkInit, SinkInv, UnspentInv, SpentInv, ConsumedOnce

\* submit_request preserves the invariant.
LEMMA SubmitRequestInv ==
  ASSUME SinkInv, NEW q \in Requests, NEW r \in Request, SubmitRequest(q, r)
  PROVE  SinkInv'
<1>1. SinkTypeOK' BY Zenon DEF SinkInv, SinkTypeOK, SubmitRequest
<1>2. QED BY <1>1, Zenon DEF SinkInv, UnspentInv, SpentInv, ConsumedOnce, SubmitRequest

\* inject_granted_binding preserves the invariant.
LEMMA InjectInv ==
  ASSUME SinkInv, NEW q \in Requests, NEW b \in Bindings, NEW g \in Grantors,
         InjectGrantedBinding(q, b, g)
  PROVE  SinkInv'
<1>1. SinkTypeOK BY Zenon DEF SinkInv
<1>2. /\ bindings'[b] \in Binding
      /\ bindings'[b].request = q /\ bindings'[b].state = "Granted"
      /\ \A c \in Bindings : c # b => bindings'[c] = bindings[c]
  BY <1>1, GrantedIsBinding, Zenon
<1>3. bindings' \in [Bindings -> {Absent} \cup Binding]
  BY <1>1, <1>2, Zenon DEF SinkTypeOK, InjectGrantedBinding
<1>4. bindings'[b] # Absent BY <1>2, AbsentAssumption, Zenon
<1>5. ASSUME NEW p \in Requests, latest'[p] # Absent
      PROVE  bindings'[latest'[p]] # Absent /\ bindings'[latest'[p]].request = p
  <2>1. CASE p = q
    <3>1. latest'[p] = b BY <2>1, <1>1, Zenon DEF InjectGrantedBinding, SinkTypeOK
    <3>2. QED BY <3>1, <2>1, <1>2, <1>4, Zenon
  <2>2. CASE p # q
    <3>1. latest'[p] = latest[p] /\ latest[p] \in Bindings
      BY <2>2, <1>1, <1>5, Zenon DEF InjectGrantedBinding, SinkTypeOK
    <3>2. bindings[latest[p]] # Absent /\ bindings[latest[p]].request = p
      BY <3>1, <1>1, <1>5, Zenon DEF SinkTypeOK
    <3>3. latest[p] # b BY <3>2, Zenon DEF InjectGrantedBinding
    <3>4. QED BY <3>1, <3>2, <3>3, <1>2, Zenon
  <2>3. QED BY <2>1, <2>2, Zenon
<1>6. /\ requests' \in [Requests -> {Absent} \cup Request]
      /\ latest' \in [Requests -> {Absent} \cup Bindings]
      /\ now' \in Nat /\ passes' \in [Bindings -> Nat]
  BY <1>1, Zenon DEF SinkTypeOK, InjectGrantedBinding
<1>7. SinkTypeOK' BY <1>3, <1>5, <1>6, Zenon DEF SinkTypeOK
<1>8. passes' = passes /\ bindings[b] = Absent BY Zenon DEF InjectGrantedBinding
<1>9. UnspentInv' BY <1>2, <1>8, Zenon DEF SinkInv, UnspentInv
<1>10. SpentInv' BY <1>2, <1>8, Zenon DEF SinkInv, SpentInv
<1>11. ConsumedOnce' BY <1>8, Zenon DEF SinkInv, ConsumedOnce
<1>12. QED BY <1>7, <1>9, <1>10, <1>11, Zenon DEF SinkInv

(* A step that moves binding b to a state that is neither GRANTED nor       *)
(* CONSUMED, or only its expiry, and counts nothing.                        *)
LEMMA QuietUpdateInv ==
  ASSUME SinkInv, NEW b \in Bindings, bindings[b] # Absent,
         NEW s \in BindingState, NEW e \in Int,
         s \in {"Pending", "Denied", "Expired"} \/ s = bindings[b].state,
         bindings' = [bindings EXCEPT ![b] = [@ EXCEPT !.state = s, !.expires_at = e]],
         UNCHANGED <<requests, latest, now, passes>>
  PROVE  SinkInv'
<1>1. SinkTypeOK /\ now' \in Nat /\ passes' \in [Bindings -> Nat]
  BY Zenon DEF SinkInv, SinkTypeOK
<1>2. /\ SinkTypeOK'
      /\ bindings'[b] # Absent /\ bindings'[b].state = s
      /\ \A c \in Bindings : c # b => bindings'[c] = bindings[c]
  BY <1>1, UpdateKeepsType, Zenon
<1>3. UnspentInv' BY <1>2, Zenon DEF SinkInv, UnspentInv
<1>4. SpentInv' BY <1>2, Zenon DEF SinkInv, SpentInv
<1>5. QED BY <1>2, <1>3, <1>4, Zenon DEF SinkInv, ConsumedOnce

(* An assignment to one field, read as an update of both. *)
LEMMA OneFieldUpdate ==
  ASSUME SinkTypeOK, NEW b \in Bindings, bindings[b] # Absent, NEW s, NEW e
  PROVE  /\ bindings[b].state \in BindingState /\ bindings[b].expires_at \in Int
         /\ [bindings EXCEPT ![b].state = s]
              = [bindings EXCEPT ![b] = [@ EXCEPT !.state = s,
                                                  !.expires_at = bindings[b].expires_at]]
         /\ [bindings EXCEPT ![b].expires_at = e]
              = [bindings EXCEPT ![b] = [@ EXCEPT !.state = bindings[b].state,
                                                  !.expires_at = e]]
<1>1. bindings[b] \in Binding BY Zenon DEF SinkTypeOK
<1>2. bindings[b].state \in BindingState /\ bindings[b].expires_at \in Int
  BY <1>1, Zenon DEF Binding
<1>3. [bindings[b] EXCEPT !.state = s]
        = [bindings[b] EXCEPT !.state = s, !.expires_at = bindings[b].expires_at]
  BY <1>1, Zenon DEF Binding
<1>4. [bindings[b] EXCEPT !.expires_at = e]
        = [bindings[b] EXCEPT !.state = bindings[b].state, !.expires_at = e]
  BY <1>1, Zenon DEF Binding
<1>5. QED BY <1>2, <1>3, <1>4, Zenon

\* A successful consume_binding preserves the invariant.
LEMMA ConsumeGrantedInv ==
  ASSUME SinkInv, NEW b \in Bindings, ConsumeGranted(b)
  PROVE  SinkInv'
<1>1. SinkTypeOK /\ bindings[b] # Absent /\ bindings[b].state = "Granted"
  BY Zenon DEF SinkInv, ConsumeGranted, Consumable, IsGranted
<1>2. passes[b] = 0 BY <1>1, Zenon DEF SinkInv, UnspentInv
<1>3. /\ passes' \in [Bindings -> Nat] /\ passes'[b] = 1
      /\ \A c \in Bindings : c # b => passes'[c] = passes[c]
  BY <1>1, <1>2 DEF SinkTypeOK, ConsumeGranted
<1>4. /\ SinkTypeOK'
      /\ bindings'[b] # Absent /\ bindings'[b].state = "Consumed"
      /\ \A c \in Bindings : c # b => bindings'[c] = bindings[c]
  <2>1. bindings[b].expires_at \in Int /\ "Consumed" \in BindingState
    BY <1>1, OneFieldUpdate, Zenon DEF BindingState
  <2>2. bindings' = [bindings EXCEPT ![b] = [@ EXCEPT !.state = "Consumed",
                                               !.expires_at = bindings[b].expires_at]]
    BY <1>1, OneFieldUpdate, Zenon DEF ConsumeGranted
  <2>3. UNCHANGED <<requests, latest>> /\ now' \in Nat
    BY <1>1, Zenon DEF ConsumeGranted, SinkTypeOK
  <2>4. QED BY <1>1, <1>3, <2>1, <2>2, <2>3, UpdateKeepsType, Zenon
<1>5. UnspentInv' BY <1>3, <1>4, Zenon DEF SinkInv, UnspentInv
<1>6. SpentInv' BY <1>3, <1>4 DEF SinkInv, SpentInv
<1>7. ConsumedOnce' BY <1>3 DEF SinkInv, ConsumedOnce
<1>8. QED BY <1>4, <1>5, <1>6, <1>7, Zenon DEF SinkInv

\* Every step of the sink preserves the invariant.
LEMMA SinkNextInv == SinkInv /\ [SinkNext]_sinkVars => SinkInv'
<1> SUFFICES ASSUME SinkInv, [SinkNext]_sinkVars PROVE SinkInv' BY Zenon
<1>0. SinkTypeOK BY Zenon DEF SinkInv
<1>1. CASE UNCHANGED sinkVars
  BY <1>1, Zenon DEF sinkVars, SinkInv, SinkTypeOK, UnspentInv, SpentInv, ConsumedOnce
<1>2. ASSUME NEW q \in Requests, NEW r \in Request, SubmitRequest(q, r) PROVE SinkInv'
  BY <1>2, SubmitRequestInv, Zenon
<1>3. ASSUME NEW q \in Requests, NEW b \in Bindings, NEW g \in Grantors,
             InjectGrantedBinding(q, b, g)
      PROVE  SinkInv'
  BY <1>3, InjectInv, Zenon
<1>4. ASSUME NEW b \in Bindings, ConsumeBinding(b) PROVE SinkInv'
  <2>1. CASE ConsumeRefused(b)
    BY <2>1, Zenon DEF ConsumeRefused, sinkVars, SinkInv, SinkTypeOK, UnspentInv, SpentInv, ConsumedOnce
  <2>2. CASE ConsumeExpired(b)
    <3>1. bindings[b] # Absent BY <2>2, Zenon DEF ConsumeExpired, IsGranted
    <3>2. /\ bindings[b].expires_at \in Int
          /\ bindings' = [bindings EXCEPT ![b] = [@ EXCEPT !.state = "Expired",
                                                    !.expires_at = bindings[b].expires_at]]
      BY <1>0, <2>2, <3>1, OneFieldUpdate, Zenon DEF ConsumeExpired
    <3>3. QED BY <2>2, <3>1, <3>2, QuietUpdateInv, Zenon DEF ConsumeExpired, BindingState
  <2>3. CASE ConsumeGranted(b) BY <2>3, ConsumeGrantedInv, Zenon
  <2>4. QED BY <1>4, <2>1, <2>2, <2>3, Zenon DEF ConsumeBinding
<1>5. ASSUME NEW b \in Bindings, ForceExpire(b) PROVE SinkInv'
  <2>1. bindings[b] # Absent /\ now - 1 \in Int BY <1>0, <1>5 DEF ForceExpire, SinkTypeOK
  <2>2. /\ bindings[b].state \in BindingState
        /\ bindings' = [bindings EXCEPT ![b] = [@ EXCEPT !.state = bindings[b].state,
                                                  !.expires_at = now - 1]]
    BY <1>0, <1>5, <2>1, OneFieldUpdate, Zenon DEF ForceExpire
  <2>3. QED BY <1>5, <2>1, <2>2, QuietUpdateInv, Zenon DEF ForceExpire
<1>6. ASSUME NEW b \in Bindings, ForceDenied(b) \/ ForcePending(b) PROVE SinkInv'
  <2>1. bindings[b] # Absent BY <1>6, Zenon DEF ForceDenied, ForcePending
  <2>2. PICK s \in {"Denied", "Pending"} : bindings' = [bindings EXCEPT ![b].state = s]
    BY <1>6, Zenon DEF ForceDenied, ForcePending
  <2>3. /\ bindings[b].expires_at \in Int
        /\ bindings' = [bindings EXCEPT ![b] = [@ EXCEPT !.state = s,
                                                  !.expires_at = bindings[b].expires_at]]
    BY <1>0, <2>1, <2>2, OneFieldUpdate, Zenon
  <2>4. UNCHANGED <<requests, latest, now, passes>> BY <1>6, Zenon DEF ForceDenied, ForcePending
  <2>5. QED BY <2>1, <2>3, <2>4, QuietUpdateInv, Zenon DEF BindingState
<1>7. CASE SinkTick
  BY <1>7 DEF SinkTick, SinkInv, SinkTypeOK, UnspentInv, SpentInv, ConsumedOnce
<1>8. QED BY <1>1, <1>2, <1>3, <1>4, <1>5, <1>6, <1>7, Zenon DEF SinkNext

-----------------------------------------------------------------------------
(* SinkInv holds in every reachable state of the sink. *)
LEMMA SinkInvariant == SinkSpec => []SinkInv
BY SinkInitInv, SinkNextInv, PTL DEF SinkSpec

(* The sink's maps keep their types, and request_to_binding always names    *)
(* an existing binding of its own request.                                  *)
THEOREM SinkTypeCorrect == SinkSpec => []SinkTypeOK
<1>1. SinkInv => SinkTypeOK BY Zenon DEF SinkInv
<1>2. QED BY SinkInvariant, <1>1, PTL

(* consume_binding returns Ok at most once for a binding, whatever the      *)
(* number of callers and however expiry and forced states interleave.       *)
THEOREM SingleUse == SinkSpec => []ConsumedOnce
<1>1. SinkInv => ConsumedOnce BY Zenon DEF SinkInv
<1>2. QED BY SinkInvariant, <1>1, PTL

(* poll_state answers CONSUMED only for a request one of whose bindings     *)
(* was really consumed.                                                     *)
THEOREM PollIsBacked == SinkSpec => []PollConsumedBacked
<1>1. SinkInv => PollConsumedBacked
  <2> SUFFICES ASSUME SinkInv, NEW q \in Requests, PollState(q) = "Consumed"
               PROVE  \E b \in Bindings : /\ passes[b] > 0
                                          /\ bindings[b] # Absent
                                          /\ bindings[b].request = q
    BY Zenon DEF PollConsumedBacked
  <2>1. latest[q] # Absent /\ bindings[latest[q]].state = "Consumed" BY Zenon DEF PollState
  <2>2. /\ latest[q] \in Bindings /\ bindings[latest[q]] # Absent
        /\ bindings[latest[q]].request = q
    BY <2>1, Zenon DEF SinkInv, SinkTypeOK
  <2>3. passes[latest[q]] > 0 BY <2>1, <2>2, Zenon DEF SinkInv, SpentInv
  <2>4. QED BY <2>2, <2>3, Zenon
<1>2. QED BY SinkInvariant, <1>1, PTL

(* No step brings a binding that left GRANTED back to it. *)
THEOREM NoRegrant == SinkSpec => NeverRegranted
<1>1. ASSUME SinkInv, [SinkNext]_sinkVars, NEW b \in Bindings,
             bindings[b] # Absent, bindings[b].state # "Granted"
      PROVE  bindings'[b] # Absent /\ bindings'[b].state # "Granted"
  <2>0. SinkTypeOK BY <1>1, Zenon DEF SinkInv
  <2>1. ASSUME NEW c \in Bindings, bindings[c] # Absent,
               NEW s \in BindingState \ {"Granted"},
               bindings' = [bindings EXCEPT ![c].state = s]
        PROVE  bindings'[b] # Absent /\ bindings'[b].state # "Granted"
    <3>1. CASE c # b BY <3>1, <2>0, <2>1, <1>1, Zenon DEF SinkTypeOK
    <3>2. CASE c = b
      <4>1. bindings[b] \in Binding BY <2>0, <1>1, Zenon DEF SinkTypeOK
      <4>2. bindings'[b] = [bindings[b] EXCEPT !.state = s] BY <3>2, <2>0, <2>1, Zenon DEF SinkTypeOK
      <4>3. bindings'[b] \in Binding /\ bindings'[b].state = s BY <4>1, <4>2, Zenon DEF Binding
      <4>4. QED BY <4>3, AbsentAssumption, Zenon
    <3>3. QED BY <3>1, <3>2, Zenon
  <2>2. CASE UNCHANGED bindings BY <2>2, <1>1, Zenon
  <2>3. ASSUME NEW q \in Requests, NEW c \in Bindings, NEW g \in Grantors,
               InjectGrantedBinding(q, c, g)
        PROVE  bindings'[b] # Absent /\ bindings'[b].state # "Granted"
    BY <2>0, <2>3, <1>1, GrantedIsBinding DEF InjectGrantedBinding
  <2>4. ASSUME NEW c \in Bindings, ForceExpire(c)
        PROVE  bindings'[b] # Absent /\ bindings'[b].state # "Granted"
    <3>1. CASE c # b BY <3>1, <2>0, <2>4, <1>1, Zenon DEF SinkTypeOK, ForceExpire
    <3>2. CASE c = b
      <4>1. bindings[b] \in Binding /\ now - 1 \in Int BY <2>0, <1>1 DEF SinkTypeOK
      <4>2. bindings'[b] = [bindings[b] EXCEPT !.expires_at = now - 1]
        BY <3>2, <2>0, <2>4, Zenon DEF SinkTypeOK, ForceExpire
      <4>3. bindings'[b] \in Binding /\ bindings'[b].state = bindings[b].state
        BY <4>1, <4>2, Zenon DEF Binding
      <4>4. QED BY <1>1, <4>3, AbsentAssumption, Zenon
    <3>3. QED BY <3>1, <3>2, Zenon
  <2>5. ASSUME NEW c \in Bindings, ConsumeExpired(c) \/ ConsumeGranted(c)
                                     \/ ForceDenied(c) \/ ForcePending(c)
        PROVE  bindings'[b] # Absent /\ bindings'[b].state # "Granted"
    <3>1. bindings[c] # Absent
      BY <2>5, Zenon DEF ConsumeExpired, ConsumeGranted, Consumable, IsGranted, ForceDenied, ForcePending
    <3>2. PICK s \in BindingState \ {"Granted"} : bindings' = [bindings EXCEPT ![c].state = s]
      BY <2>5, Zenon DEF ConsumeExpired, ConsumeGranted, ForceDenied, ForcePending, BindingState
    <3>3. QED BY <3>1, <3>2, <2>1, Zenon
  <2>6. QED BY <1>1, <2>2, <2>3, <2>4, <2>5, Zenon
             DEF SinkNext, sinkVars, SubmitRequest, ConsumeBinding, ConsumeRefused, SinkTick
<1>2. SinkInv /\ [SinkNext]_sinkVars =>
        [\A b \in Bindings : bindings[b] # Absent /\ bindings[b].state # "Granted"
           => bindings'[b] # Absent /\ bindings'[b].state # "Granted"]_sinkVars
  BY <1>1, Zenon
<1>3. QED BY SinkInvariant, <1>2, PTL DEF SinkSpec, NeverRegranted

--------------------------------------------------------------------------------
(* The identity catalog.                                                            *)

SessionStates == {"NONE", "ACTIVE", "SUSPENDED", "REVOKED", "EXPIRED"}
Session == [subject : Subjects \cup {0}, state : SessionStates, expires : Int]
Live(sess, time) == sess.state = "ACTIVE" /\ sess.expires >= time

SessionInv ==
    /\ catNow \in Nat
    /\ sessions \in [SessionIds -> Session]
    /\ OneActiveSession

\* An index write that a call still owes for the subject.
Owes(p, s) == catTask[p].op # "none" /\ catTask[p].subject = s

\* What the index says of a subject whose changes never crossed.
IndexTells(s) ==
    /\ \A p, q \in CatalogTasks : Owes(p, s) /\ Owes(q, s) => p = q
    /\ (\A p \in CatalogTasks : ~Owes(p, s)) => (s \in memberIndex <=> inGroup[s])
    /\ \A p \in CatalogTasks : Owes(p, s) =>
          /\ catTask[p].op = "add" => inGroup[s]
          /\ catTask[p].op = "remove" => ~inGroup[s]
          /\ catTask[p].op = "keep" => ~inGroup[s] /\ s \notin memberIndex

IndexInv ==
    /\ inGroup \in [DOMAIN inGroup -> BOOLEAN]
    /\ catTask \in [CatalogTasks -> [op : {"none", "keep", "add", "remove"}, subject : Subjects \cup {0}]]
    /\ \A p \in CatalogTasks : catTask[p].op = "none" => catTask[p] = NothingOwed
    /\ \A p \in CatalogTasks : catTask[p].op # "none" => catTask[p].subject \in DOMAIN inGroup
    /\ memberIndex \subseteq DOMAIN inGroup
    /\ \A s \in DOMAIN inGroup \ crossed : IndexTells(s)

\* The first half of a change of groups: the new group and the write owed agree.
LEMMA OwingKeeps ==
    ASSUME IndexInv, NEW p \in CatalogTasks, NEW s \in Subjects, NEW member \in BOOLEAN,
           NEW op \in {"keep", "add", "remove"}, Owe(p, op, s),
           inGroup' = [t \in DOMAIN inGroup \cup {s} |-> IF t = s THEN member ELSE inGroup[t]],
           op = "add" <=> member, op = "keep" => s \notin DOMAIN inGroup
    PROVE  IndexInv'
<1>0. /\ inGroup \in [DOMAIN inGroup -> BOOLEAN]
      /\ catTask \in [CatalogTasks -> [op : {"none", "keep", "add", "remove"}, subject : Subjects \cup {0}]]
      /\ \A q \in CatalogTasks : catTask[q].op = "none" => catTask[q] = NothingOwed
      /\ \A q \in CatalogTasks : catTask[q].op # "none" => catTask[q].subject \in DOMAIN inGroup
      /\ memberIndex \subseteq DOMAIN inGroup
      /\ \A t \in DOMAIN inGroup \ crossed : IndexTells(t)
  BY Zenon DEF IndexInv
<1>1. /\ catTask[p] = NothingOwed /\ memberIndex' = memberIndex
      /\ catTask' = [catTask EXCEPT ![p] = [op |-> op, subject |-> s]]
      /\ crossed' = IF \E q \in CatalogTasks : Owes(q, s) THEN crossed \cup {s} ELSE crossed
  BY Zenon DEF Owe, Owes
<1>2. /\ DOMAIN inGroup' = DOMAIN inGroup \cup {s} /\ inGroup'[s] = member
      /\ \A t \in DOMAIN inGroup \ {s} : inGroup'[t] = inGroup[t]
      /\ inGroup' \in [DOMAIN inGroup' -> BOOLEAN]
  BY <1>0, Zenon
<1>3. /\ catTask' \in [CatalogTasks -> [op : {"none", "keep", "add", "remove"}, subject : Subjects \cup {0}]]
      /\ catTask'[p] = [op |-> op, subject |-> s]
      /\ \A q \in CatalogTasks \ {p} : catTask'[q] = catTask[q]
  BY <1>0, <1>1, Zenon
<1>4. /\ \A q \in CatalogTasks : catTask'[q].op = "none" => catTask'[q] = NothingOwed
      /\ \A q \in CatalogTasks : catTask'[q].op # "none" => catTask'[q].subject \in DOMAIN inGroup'
      /\ memberIndex' \subseteq DOMAIN inGroup'
  BY <1>0, <1>1, <1>2, <1>3, Zenon
<1>5. ASSUME NEW t \in DOMAIN inGroup' \ crossed' PROVE IndexTells(t)'
  <2>1. CASE t = s
    <3>1. \A q \in CatalogTasks : ~Owes(q, s)
      BY <1>1, <1>5, <2>1, Zenon
    <3>2. \A q \in CatalogTasks : Owes(q, s)' <=> q = p
      BY <1>3, <3>1 DEF Owes
    <3>3. op = "keep" => s \notin memberIndex'
      BY <1>0, <1>1, Zenon
    <3>4. catTask'[p].op = op
      BY <1>3
    <3> QED BY <1>2, <2>1, <3>2, <3>3, <3>4, Zenon DEF IndexTells
  <2>2. CASE t # s
    <3>1. t \in DOMAIN inGroup \ crossed /\ inGroup'[t] = inGroup[t]
      BY <1>1, <1>2, <1>5, <2>2, Zenon
    <3>2. \A q \in CatalogTasks : /\ Owes(q, t)' <=> Owes(q, t)
                                  /\ Owes(q, t) => catTask'[q] = catTask[q]
      BY <1>1, <1>3, <2>2 DEF Owes, NothingOwed
    <3> QED BY <1>0, <1>1, <3>1, <3>2, ZenonT(30) DEF IndexTells
  <2> QED BY <2>1, <2>2, Zenon
<1> QED BY <1>2, <1>3, <1>4, <1>5, Zenon DEF IndexInv

\* IndexInv is inductive (register_subject, add_to_group, remove_from_group).
LEMMA IndexInductive == IndexInv /\ [CatalogNext]_catVars => IndexInv'
<1> SUFFICES ASSUME IndexInv, [CatalogNext]_catVars PROVE IndexInv'
  BY Zenon
<1>0. /\ inGroup \in [DOMAIN inGroup -> BOOLEAN]
      /\ catTask \in [CatalogTasks -> [op : {"none", "keep", "add", "remove"}, subject : Subjects \cup {0}]]
      /\ \A q \in CatalogTasks : catTask[q].op = "none" => catTask[q] = NothingOwed
      /\ \A q \in CatalogTasks : catTask[q].op # "none" => catTask[q].subject \in DOMAIN inGroup
      /\ memberIndex \subseteq DOMAIN inGroup
      /\ \A t \in DOMAIN inGroup \ crossed : IndexTells(t)
  BY Zenon DEF IndexInv
<1>1. ASSUME UNCHANGED <<inGroup, memberIndex, catTask, crossed>> PROVE IndexInv'
  BY <1>0, <1>1 DEF IndexInv, IndexTells, Owes
<1>2. ASSUME NEW p \in CatalogTasks, NEW s \in Subjects, NEW member \in BOOLEAN,
             RegisterSubject(p, s, member)
      PROVE  IndexInv'
  BY <1>2, OwingKeeps, Zenon DEF RegisterSubject
<1>3. ASSUME NEW p \in CatalogTasks, NEW s \in Subjects, AddToGroup(p, s) PROVE IndexInv'
  <2>1. inGroup' = [t \in DOMAIN inGroup \cup {s} |-> IF t = s THEN TRUE ELSE inGroup[t]] /\ Owe(p, "add", s)
    BY <1>0, <1>3, Zenon DEF AddToGroup
  <2> QED BY <2>1, OwingKeeps, Zenon
<1>4. ASSUME NEW p \in CatalogTasks, NEW s \in Subjects, RemoveFromGroup(p, s) PROVE IndexInv'
  <2>1. inGroup' = [t \in DOMAIN inGroup \cup {s} |-> IF t = s THEN FALSE ELSE inGroup[t]] /\ Owe(p, "remove", s)
    BY <1>0, <1>4, Zenon DEF RemoveFromGroup
  <2> QED BY <2>1, OwingKeeps, Zenon
<1>5. ASSUME NEW p \in CatalogTasks, UpdateIndex(p) PROVE IndexInv'
  <2>1. PICK s \in DOMAIN inGroup : s = catTask[p].subject /\ Owes(p, s)
    BY <1>0, <1>5, Zenon DEF UpdateIndex, Owes
  <2>2. /\ catTask' = [catTask EXCEPT ![p] = NothingOwed] /\ UNCHANGED <<inGroup, crossed>>
        /\ memberIndex' = Indexed(catTask[p].op, s)
    BY <1>5, <2>1, Zenon DEF UpdateIndex
  <2>3. catTask[p].op \in {"keep", "add", "remove"}
    BY <1>0, <2>1, Zenon DEF Owes
  <2>4. /\ memberIndex' \subseteq DOMAIN inGroup
        /\ \A t \in DOMAIN inGroup \ {s} : t \in memberIndex' <=> t \in memberIndex
        /\ catTask[p].op = "add" => s \in memberIndex'
        /\ catTask[p].op = "remove" => s \notin memberIndex'
        /\ catTask[p].op = "keep" => memberIndex' = memberIndex
    BY <1>0, <2>1, <2>2, <2>3, Zenon DEF Indexed
  <2>5. /\ catTask' \in [CatalogTasks -> [op : {"none", "keep", "add", "remove"}, subject : Subjects \cup {0}]]
        /\ catTask'[p] = NothingOwed
        /\ \A q \in CatalogTasks \ {p} : catTask'[q] = catTask[q]
    BY <1>0, <2>2, Zenon DEF NothingOwed
  <2>6. \A q \in CatalogTasks : /\ catTask'[q].op = "none" => catTask'[q] = NothingOwed
                                /\ catTask'[q].op # "none" => catTask'[q].subject \in DOMAIN inGroup
    BY <1>0, <2>5 DEF NothingOwed
  <2>7. \A t \in DOMAIN inGroup, q \in CatalogTasks : Owes(q, t)' <=> Owes(q, t) /\ q # p
    BY <2>5 DEF Owes, NothingOwed
  <2>8. ASSUME NEW t \in DOMAIN inGroup \ crossed PROVE IndexTells(t)'
    <3>1. CASE t = s
      <4>1. \A q \in CatalogTasks : ~Owes(q, s)'
        BY <1>0, <2>1, <2>7, <2>8, <3>1 DEF IndexTells
      <4>2. s \in memberIndex' <=> inGroup'[s]
        BY <1>0, <2>1, <2>2, <2>3, <2>4, <2>8, <3>1, Zenon DEF IndexTells
      <4> QED BY <3>1, <4>1, <4>2, Zenon DEF IndexTells
    <3>2. CASE t # s
      <4>1. \A q \in CatalogTasks : /\ Owes(q, t)' <=> Owes(q, t)
                                    /\ Owes(q, t) => catTask'[q] = catTask[q]
        BY <2>1, <2>5, <2>7, <3>2, Zenon DEF Owes
      <4>2. inGroup'[t] = inGroup[t] /\ (t \in memberIndex' <=> t \in memberIndex) /\ IndexTells(t)
        BY <1>0, <2>2, <2>4, <2>8, <3>2, Zenon
      <4> QED BY <4>1, <4>2, Zenon DEF IndexTells
    <3> QED BY <3>1, <3>2, Zenon
  <2> QED BY <1>0, <2>2, <2>4, <2>5, <2>6, <2>8, Zenon DEF IndexInv
<1>6. ASSUME NEW i \in SessionIds,
             LookupSession(i) \/ SuspendSession(i) \/ RevokeSession(i)
             \/ \E s \in Subjects, expires \in 0..CatalogMaxNow : StartSession(i, s, expires)
      PROVE  IndexInv'
  BY <1>1, <1>6, Zenon DEF LookupSession, SuspendSession, RevokeSession, StartSession, Rest
<1>7. CASE CatalogTick \/ UNCHANGED catVars
  BY <1>1, <1>7, Zenon DEF CatalogTick, catVars
<1> QED BY <1>2, <1>3, <1>4, <1>5, <1>6, <1>7, Zenon DEF CatalogNext

\* SessionInv is inductive: a session becomes active only in start_session, which
\* looks at every session of the subject under the same lock.
LEMMA SessionInductive == SessionInv /\ [CatalogNext]_catVars => SessionInv'
<1> SUFFICES ASSUME SessionInv, [CatalogNext]_catVars PROVE SessionInv'
  BY Zenon
<1>0. catNow \in Nat /\ sessions \in [SessionIds -> Session] /\ OneActiveSession
  BY Zenon DEF SessionInv
\* Fewer live sessions are no obstacle.
<1>1. ASSUME catNow' \in Nat, sessions' \in [SessionIds -> Session],
             \A i \in SessionIds : Live(sessions'[i], catNow') =>
                 Live(sessions[i], catNow) /\ sessions'[i].subject = sessions[i].subject
      PROVE  SessionInv'
  BY <1>0, <1>1 DEF SessionInv, OneActiveSession, Live
<1>2. \A i \in SessionIds : /\ SessionExpiry(sessions[i]) \in Session
                            /\ SessionExpiry(sessions[i]).subject = sessions[i].subject
                            /\ Live(SessionExpiry(sessions[i]), catNow) => Live(sessions[i], catNow)
  BY <1>0, Zenon DEF SessionExpiry, Session, SessionStates, Live
<1>3. ASSUME NEW i \in SessionIds, NEW sess \in Session, sess.subject = sessions[i].subject,
             Live(sess, catNow) => Live(sessions[i], catNow),
             sessions' = [sessions EXCEPT ![i] = sess], catNow' = catNow
      PROVE  SessionInv'
  BY <1>0, <1>1, <1>3, Zenon
<1>4. CASE CatalogTick
  BY <1>0, <1>1, <1>4 DEF CatalogTick, Live, Session
<1>5. ASSUME NEW i \in SessionIds, LookupSession(i) PROVE SessionInv'
  BY <1>2, <1>3, <1>5, Zenon DEF LookupSession, Rest
<1>6. ASSUME NEW i \in SessionIds, SuspendSession(i) PROVE SessionInv'
  <2>1. [sessions[i] EXCEPT !.state = "SUSPENDED"] \in Session
        /\ [sessions[i] EXCEPT !.state = "SUSPENDED"].subject = sessions[i].subject
        /\ ~Live([sessions[i] EXCEPT !.state = "SUSPENDED"], catNow)
    BY <1>0, Zenon DEF Session, SessionStates, Live
  <2>2. catNow' = catNow
        /\ \/ sessions' = [sessions EXCEPT ![i] = [sessions[i] EXCEPT !.state = "SUSPENDED"]]
           \/ sessions' = [sessions EXCEPT ![i] = SessionExpiry(sessions[i])]
    BY <1>6, Zenon DEF SuspendSession, Rest
  <2> QED BY <1>2, <1>3, <2>1, <2>2, Zenon
<1>7. ASSUME NEW i \in SessionIds, RevokeSession(i) PROVE SessionInv'
  <2>1. [sessions[i] EXCEPT !.state = "REVOKED"] \in Session
        /\ [sessions[i] EXCEPT !.state = "REVOKED"].subject = sessions[i].subject
        /\ ~Live([sessions[i] EXCEPT !.state = "REVOKED"], catNow)
    BY <1>0, Zenon DEF Session, SessionStates, Live
  <2>2. catNow' = catNow /\ sessions' = [sessions EXCEPT ![i] = [sessions[i] EXCEPT !.state = "REVOKED"]]
    BY <1>0, <1>7, Zenon DEF RevokeSession, Rest
  <2> QED BY <1>3, <2>1, <2>2, Zenon
<1>8. ASSUME NEW i \in SessionIds, NEW s \in Subjects, NEW expires \in 0..CatalogMaxNow,
             StartSession(i, s, expires)
      PROVE  SessionInv'
  <2>1. PICK past : past = ExpirePast(s)
    BY Zenon
  <2>2. /\ past \in [SessionIds -> Session]
        /\ \A j \in SessionIds : /\ past[j].subject = sessions[j].subject
                                 /\ Live(past[j], catNow) => Live(sessions[j], catNow)
    BY <1>0, <1>2, <2>1, Zenon DEF ExpirePast
  <2>3. CASE sessions' = past
    BY <1>0, <1>1, <1>8, <2>2, <2>3, Zenon DEF StartSession, Rest
  <2>4. CASE /\ \A j \in SessionIds : past[j].subject = s => ~Live(past[j], catNow)
             /\ sessions' = [past EXCEPT ![i] = [subject |-> s, state |-> "ACTIVE", expires |-> expires]]
    <3>1. expires \in Int /\ [subject |-> s, state |-> "ACTIVE", expires |-> expires] \in Session
      BY CatalogClockBounded DEF Session, SessionStates
    <3>2. /\ sessions' \in [SessionIds -> Session] /\ sessions'[i].subject = s
          /\ \A j \in SessionIds \ {i} : sessions'[j] = past[j]
      BY <2>2, <2>4, <3>1, Zenon
    <3>3. catNow' = catNow
      BY <1>8, Zenon DEF StartSession, Rest
    <3>4. ASSUME NEW j \in SessionIds, NEW k \in SessionIds, sessions'[j].subject = sessions'[k].subject,
                 Live(sessions'[j], catNow), Live(sessions'[k], catNow)
          PROVE  j = k
      <4>1. CASE j # i /\ k # i
        BY <1>0, <2>2, <3>2, <3>4, <4>1 DEF OneActiveSession, Live
      <4>2. CASE j = i \/ k = i
        BY <2>4, <3>2, <3>4, <4>2, Zenon
      <4> QED BY <4>1, <4>2, Zenon
    <3> QED BY <1>0, <3>2, <3>3, <3>4, Zenon DEF SessionInv, OneActiveSession, Live
  <2> QED BY <1>8, <2>1, <2>3, <2>4, Zenon DEF StartSession, Live
<1>9. ASSUME UNCHANGED <<catNow, sessions>> PROVE SessionInv'
  BY <1>0, <1>1, <1>9, Zenon
<1>10. ASSUME NEW p \in CatalogTasks, NEW s \in Subjects,
              AddToGroup(p, s) \/ RemoveFromGroup(p, s) \/ \E member \in BOOLEAN : RegisterSubject(p, s, member)
       PROVE  SessionInv'
  BY <1>9, <1>10, Zenon DEF AddToGroup, RemoveFromGroup, RegisterSubject, Owe
<1>11. ASSUME NEW p \in CatalogTasks, UpdateIndex(p) PROVE SessionInv'
  BY <1>9, <1>11, Zenon DEF UpdateIndex
<1>12. CASE UNCHANGED catVars
  BY <1>9, <1>12, Zenon DEF catVars
<1> QED BY <1>4, <1>5, <1>6, <1>7, <1>8, <1>10, <1>11, <1>12, Zenon DEF CatalogNext

\* The membership index agrees with the groups once the calls have returned, and a
\* subject has one live session, for any number of subjects, sessions and callers.
THEOREM CatalogConsistent == CatalogSpec => [](IndexAgrees /\ OneActiveSession)
<1>1. CatalogInit => IndexInv /\ SessionInv
  <2> SUFFICES ASSUME CatalogInit PROVE IndexInv /\ SessionInv
    BY Zenon
  <2>1. DOMAIN inGroup = {} /\ inGroup \in [DOMAIN inGroup -> BOOLEAN]
    BY Zenon DEF CatalogInit
  <2>2. IndexInv
    BY <2>1, Zenon DEF CatalogInit, IndexInv, NothingOwed
  <2>3. SessionInv
    BY DEF CatalogInit, SessionInv, OneActiveSession, NoSession, Session, SessionStates
  <2> QED BY <2>2, <2>3, Zenon
<1>2. IndexInv => IndexAgrees
  BY DEF IndexInv, IndexAgrees, IndexTells, Owes, NothingOwed
<1>3. SessionInv => OneActiveSession
  BY Zenon DEF SessionInv
<1> QED BY <1>1, <1>2, <1>3, IndexInductive, SessionInductive, PTL DEF CatalogSpec
==================================================================================
