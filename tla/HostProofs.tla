------------------------------- MODULE HostProofs --------------------------------
(* Proofs about the services of a host (outbound grants, firmware and           *)
(* application updates, service units) and about work that crosses hosts        *)
(* (remote execution, rollout, the overlay, the coordinator), which share no    *)
(* state. Each part strengthens a property to an inductive invariant that says  *)
(* what calls under way have read before they write.                            *)
EXTENDS OutboundGrants, FirmwareUpdate, AppUpdate, ServiceUnits, RemoteExecution,
        FleetRollout, ClusterOverlay, FleetRecovery, Integers, TLAPS

--------------------------------------------------------------------------------
(* Outbound grants: a grant on its way was compared with the entries it has seen,  *)
(* and these stay where they are.                                                  *)

GrantEntry == [id : GrantIds, expires : Expiries, seen : Nat]

\* The grant g is at least as long as the first g.seen entries of the manifest m.
Covers(g, m) == \A i \in 1..g.seen : m[i].expires <= g.expires

GrantsInv ==
    /\ manifest \in [GrantSubjects -> Seq(GrantEntry)]
    /\ DOMAIN gcall = GrantCallers
    /\ \A s \in GrantSubjects : \A j \in 1..Len(manifest[s]) :
          manifest[s][j].seen < j /\ Covers(manifest[s][j], manifest[s])
    /\ \A c \in GrantCallers : gcall[c].at = "append" =>
          /\ gcall[c].subject \in GrantSubjects
          /\ gcall[c].grant \in GrantEntry
          /\ gcall[c].grant.seen <= Len(manifest[gcall[c].subject])
          /\ Covers(gcall[c].grant, manifest[gcall[c].subject])

\* A manifest that grew covers what it covered.
LEMMA CoversMore ==
    ASSUME NEW m \in Seq(GrantEntry), NEW n \in GrantEntry, NEW g \in GrantEntry,
           g.seen <= Len(m), Covers(g, m)
    PROVE  Covers(g, Append(m, n))
<1>1. \A i \in 1..Len(m) : Append(m, n)[i] = m[i]
  OBVIOUS
<1>2. g.seen \in Nat /\ Len(m) \in Nat
  BY DEF GrantEntry
<1> QED BY <1>1, <1>2 DEF Covers

\* No entry of a manifest is shorter than one it was checked against, whatever calls
\* of append_grant and revoke_grant overlap.
THEOREM GrantsNeverShrink == GrantsSpec => []NoShrink
<1>1. GrantsInit => GrantsInv
  BY DEF GrantsInit, GrantsInv, Ready
<1>2. GrantsInv /\ [GrantsNext]_grantVars => GrantsInv'
  <2> SUFFICES ASSUME GrantsInv, [GrantsNext]_grantVars PROVE GrantsInv'
    BY Zenon
  <2>1. ASSUME NEW c \in GrantCallers, NEW s \in GrantSubjects, NEW id \in GrantIds,
               NEW expires \in Expiries, CheckGrant(c, s, id, expires)
        PROVE GrantsInv'
    <3>1. CASE Shrinks(expires, manifest[s])
      BY <2>1, <3>1, Zenon DEF CheckGrant, GrantsInv, Covers
    <3>2. CASE ~Shrinks(expires, manifest[s])
      <4> DEFINE g == [id |-> id, expires |-> expires, seen |-> Len(manifest[s])]
      <4>1. gcall' = [gcall EXCEPT ![c] = [at |-> "append", subject |-> s, grant |-> g]]
            /\ manifest' = manifest
        BY <2>1, <3>2, Zenon DEF CheckGrant
      <4>2. manifest[s] \in Seq(GrantEntry) /\ Len(manifest[s]) \in Nat /\ g \in GrantEntry
        <5>1. manifest[s] \in Seq(GrantEntry)
          BY Zenon DEF GrantsInv
        <5>2. Len(manifest[s]) \in Nat
          BY <5>1
        <5> QED BY <5>1, <5>2, Zenon DEF GrantEntry
      <4>3. \A i \in 1..Len(manifest[s]) : manifest[s][i] \in GrantEntry
        BY <4>2
      <4>4. Covers(g, manifest[s])
        <5> SUFFICES ASSUME NEW i \in 1..Len(manifest[s]) PROVE manifest[s][i].expires <= expires
          BY Zenon DEF Covers
        <5>0. manifest[s][i].expires \in Expiries
          BY <4>3, Zenon DEF GrantEntry
        <5>1. manifest[s][i].expires \in Nat /\ expires \in Nat
          BY <5>0, ExpiriesAreTimes, Zenon
        <5>3. i \in DOMAIN manifest[s]
          BY <4>2
        <5>2. ~(expires < manifest[s][i].expires)
          BY <3>2, <5>3, Zenon DEF Shrinks
        <5> QED BY <5>1, <5>2
      <4>5. gcall'[c].at = "append" =>
               /\ gcall'[c].subject \in GrantSubjects
               /\ gcall'[c].grant \in GrantEntry
               /\ gcall'[c].grant.seen <= Len(manifest[gcall'[c].subject])
               /\ Covers(gcall'[c].grant, manifest[gcall'[c].subject])
        BY <4>1, <4>2, <4>4 DEF GrantsInv
      <4>6. \A d \in GrantCallers : d # c => gcall'[d] = gcall[d]
        BY <4>1, Zenon DEF GrantsInv
      <4>7. DOMAIN gcall' = GrantCallers
        BY <4>1, Zenon DEF GrantsInv
      <4> HIDE DEF g
      <4> QED BY <4>1, <4>5, <4>6, <4>7, Zenon DEF GrantsInv, Covers
    <3> QED BY <3>1, <3>2, Zenon
  <2>2. ASSUME NEW c \in GrantCallers, AppendGrant(c) PROVE GrantsInv'
    <3>1. PICK s, g : s = gcall[c].subject /\ g = gcall[c].grant
      BY Zenon
    <3>2. /\ s \in GrantSubjects /\ g \in GrantEntry /\ g.seen <= Len(manifest[s])
          /\ Covers(g, manifest[s]) /\ manifest[s] \in Seq(GrantEntry)
          /\ manifest' = [manifest EXCEPT ![s] = Append(@, g)]
          /\ gcall' = [gcall EXCEPT ![c] = Ready]
      BY <2>2, <3>1, Zenon DEF GrantsInv, AppendGrant
    <3>3. manifest' \in [GrantSubjects -> Seq(GrantEntry)] /\ DOMAIN gcall' = GrantCallers
      BY <3>2 DEF GrantsInv
    <3>4. manifest'[s] = Append(manifest[s], g) /\ \A r \in GrantSubjects : r # s => manifest'[r] = manifest[r]
      BY <3>2, Zenon DEF GrantsInv
    <3>5. ASSUME NEW r \in GrantSubjects, NEW h \in GrantEntry, h.seen <= Len(manifest[r]),
                 Covers(h, manifest[r])
          PROVE  h.seen <= Len(manifest'[r]) /\ Covers(h, manifest'[r])
      <4>1. CASE r = s
        <5>1. Covers(h, Append(manifest[s], g))
          BY <3>2, <3>5, <4>1, CoversMore, Zenon
        <5>2. Len(Append(manifest[s], g)) = Len(manifest[s]) + 1 /\ Len(manifest[s]) \in Nat /\ h.seen \in Nat
          BY <3>2 DEF GrantEntry
        <5>3. h.seen <= Len(Append(manifest[s], g))
          BY <3>5, <4>1, <5>2
        <5> QED BY <3>4, <4>1, <5>1, <5>3, Zenon
      <4>2. CASE r # s
        BY <3>4, <3>5, <4>2, Zenon
      <4> QED BY <4>1, <4>2, Zenon
    <3>6. ASSUME NEW d \in GrantCallers, gcall'[d].at = "append"
          PROVE  /\ gcall'[d].subject \in GrantSubjects
                 /\ gcall'[d].grant \in GrantEntry
                 /\ gcall'[d].grant.seen <= Len(manifest'[gcall'[d].subject])
                 /\ Covers(gcall'[d].grant, manifest'[gcall'[d].subject])
      <4>1. d # c /\ gcall'[d] = gcall[d]
        BY <3>2, <3>6, Zenon DEF GrantsInv, Ready
      <4>2. /\ gcall[d].subject \in GrantSubjects
            /\ gcall[d].grant \in GrantEntry
            /\ gcall[d].grant.seen <= Len(manifest[gcall[d].subject])
            /\ Covers(gcall[d].grant, manifest[gcall[d].subject])
        BY <3>6, <4>1, Zenon DEF GrantsInv
      <4> QED BY <3>5, <4>1, <4>2, Zenon
    <3>7. ASSUME NEW r \in GrantSubjects, NEW j \in 1..Len(manifest'[r])
          PROVE  manifest'[r][j].seen < j /\ Covers(manifest'[r][j], manifest'[r])
      <4>0. /\ manifest[r] \in Seq(GrantEntry) /\ Len(manifest[r]) \in Nat
            /\ \A k \in 1..Len(manifest[r]) : manifest[r][k] \in GrantEntry
        BY DEF GrantsInv
      <4>1. CASE j \in 1..Len(manifest[r])
        <5>1. manifest'[r][j] = manifest[r][j]
          BY <3>2, <3>4, <4>0, <4>1, SMTT(30)
        <5>2. manifest[r][j].seen < j /\ Covers(manifest[r][j], manifest[r])
          BY <4>1, Zenon DEF GrantsInv
        <5>3. manifest[r][j].seen <= Len(manifest[r])
          BY <4>0, <4>1, <5>2, SMTT(30) DEF GrantEntry
        <5> QED BY <3>5, <4>0, <4>1, <5>1, <5>2, <5>3, Zenon
      <4>2. CASE j \notin 1..Len(manifest[r])
        <5>1. r = s
          BY <3>4, <3>7, <4>2, Zenon
        <5>2. j = Len(manifest[s]) + 1 /\ manifest'[s][j] = g
          BY <3>2, <3>4, <3>7, <4>2, <5>1, SMTT(30)
        <5>3. g.seen < j
          BY <3>2, <5>2, SMTT(30) DEF GrantEntry
        <5> QED BY <3>2, <3>5, <5>1, <5>2, <5>3, Zenon
      <4> QED BY <4>1, <4>2, Zenon
    <3> QED BY <3>3, <3>6, <3>7, Zenon DEF GrantsInv
  <2>3. ASSUME NEW c \in GrantCallers, NEW id \in GrantIds, FindGrant(c, id) PROVE GrantsInv'
    BY <2>3, Zenon DEF FindGrant, GrantsInv, Covers
  <2>4. ASSUME NEW c \in GrantCallers, PushTombstone(c) PROVE GrantsInv'
    BY <2>4, Zenon DEF PushTombstone, GrantsInv, Covers, Ready
  <2>5. CASE UNCHANGED grantVars
    BY <2>5, Zenon DEF grantVars, GrantsInv, Covers
  <2> QED BY <2>1, <2>2, <2>3, <2>4, <2>5, Zenon DEF GrantsNext
<1>3. GrantsInv => NoShrink
  <2> SUFFICES ASSUME GrantsInv, NEW s \in GrantSubjects PROVE
                 \A j \in DOMAIN manifest[s] :
                    \A i \in 1..manifest[s][j].seen : manifest[s][i].expires <= manifest[s][j].expires
    BY Zenon DEF NoShrink
  <2>1. DOMAIN manifest[s] = 1..Len(manifest[s])
    BY DEF GrantsInv
  <2> QED BY <2>1, Zenon DEF GrantsInv, Covers
<1> QED BY <1>1, <1>2, <1>3, PTL DEF GrantsSpec

\* A revoked grant is never effective again, for any subject (effective_allowlist).
THEOREM RevocationLasts == GrantsSpec => RevokedStaysOut
<1>1. [GrantsNext]_grantVars =>
        [\A s \in GrantSubjects, id \in GrantIds : Tombstoned(id) => id \notin Effective(s)']_grantVars
  <2> SUFFICES ASSUME [GrantsNext]_grantVars, NEW s \in GrantSubjects, NEW id \in GrantIds, Tombstoned(id)
               PROVE  id \notin Effective(s)'
    BY Zenon
  <2>1. tombstones \subseteq tombstones'
    BY Zenon DEF GrantsNext, CheckGrant, AppendGrant, FindGrant, PushTombstone, grantVars
  <2> QED BY <2>1, Zenon DEF Effective, Tombstoned
<1> QED BY <1>1, PTL DEF GrantsSpec, RevokedStaysOut

--------------------------------------------------------------------------------
(* Firmware: a plan past verify is trusted, and unless something was installed     *)
(* since then its version is above the installed one.                              *)

PastVerify == {"Verified", "Approved", "Staged", "Applying", "Applied"}

FirmwareInv ==
    /\ DOMAIN plan = Blobs /\ DOMAIN since = Blobs
    /\ installed \in Nat
    /\ \A b \in Blobs : plan[b].state \in PastVerify => plan[b].trust \in Trusted
    /\ \A b \in Blobs : plan[b].state \in PastVerify \ {"Applied"} /\ since[b] = {} =>
          Version[b] > installed

\* FirmwareInv holds in every reachable state of the orchestrator.
LEMMA FirmwareInvariant == FirmwareSpec => []FirmwareInv
<1>1. FirmwareInit => FirmwareInv
  BY VersionsAreNumbers, SMTT(30) DEF FirmwareInit, FirmwareInv, NoPlan, PastVerify
<1>2. FirmwareInv /\ [FirmwareNext]_firmwareVars => FirmwareInv'
  <2> SUFFICES ASSUME FirmwareInv, [FirmwareNext]_firmwareVars PROVE FirmwareInv'
    BY Zenon
  <2> USE VersionsAreNumbers DEF FirmwareInv, PastVerify
  <2>1. ASSUME NEW b \in Blobs, NEW x \in ApplyStrategies, Propose(b, x) PROVE FirmwareInv'
    BY <2>1, Zenon DEF Propose
  <2>2. ASSUME NEW b \in Blobs, NEW signer \in Signers, Verify(b, signer) PROVE FirmwareInv'
    <3> DEFINE trust == IF signer \notin Trusted THEN signer
                        ELSE IF Regresses(b) THEN "VersionRegression" ELSE signer
    <3>1. /\ plan' = [plan EXCEPT ![b].trust = trust,
                                  ![b].state = IF trust \in Trusted THEN "Verified" ELSE "Failed"]
          /\ since' = [since EXCEPT ![b] = {}] /\ installed' = installed
      BY <2>2, Zenon DEF Verify
    <3>2. trust \in Trusted => Version[b] > installed
      BY DEF Regresses, Trusted
    <3>3. PICK to : to = trust
      BY Zenon
    <3> HIDE DEF trust
    <3>4. plan' = [plan EXCEPT ![b] = [@ EXCEPT !.trust = to, !.state = IF to \in Trusted THEN "Verified" ELSE "Failed"]]
      BY <3>1, <3>3, Zenon
    <3>5. to \in Trusted => Version[b] > installed
      BY <3>2, <3>3, Zenon
    <3>6. DOMAIN plan' = Blobs /\ \A c \in Blobs : c # b => plan'[c] = plan[c]
      BY <3>4, Zenon
    <3>7. plan'[b].state \in PastVerify => plan'[b].trust \in Trusted /\ Version[b] > installed
      BY <3>4, <3>5
    <3> QED BY <3>1, <3>6, <3>7, Zenon
  <2>3. ASSUME NEW b \in Blobs, Approve(b) PROVE FirmwareInv'
    BY <2>3 DEF Approve, Advance
  <2>4. ASSUME NEW b \in Blobs, Stage(b) PROVE FirmwareInv'
    BY <2>4 DEF Stage, Advance
  <2>5. ASSUME NEW b \in Blobs, NEW from \in {"Staged", "Applying"}, Advance(b, from, "Applied"), Install(b)
        PROVE FirmwareInv'
    BY <2>5 DEF Advance, Install
  <2>6. ASSUME NEW b \in Blobs, Advance(b, "Staged", "Applying"), UNCHANGED <<installed, since>>
        PROVE FirmwareInv'
    BY <2>6 DEF Advance
  <2>7. ASSUME NEW b \in Blobs, Revert(b) \/ Fail(b) PROVE FirmwareInv'
    <3>1. PICK to \in {"Reverted", "Failed"} : plan' = [plan EXCEPT ![b].state = to]
      BY <2>7, Zenon DEF Revert, Fail
    <3> QED BY <2>7, <3>1 DEF Revert, Fail
  <2>8. CASE UNCHANGED firmwareVars
    BY <2>8, Zenon DEF firmwareVars
  <2> QED BY <2>1, <2>2, <2>3, <2>4, <2>5, <2>6, <2>7, <2>8, Zenon DEF FirmwareNext, Apply, FinalizeStagedApply
<1> QED BY <1>1, <1>2, PTL DEF FirmwareSpec

\* Nothing is staged or applied that verify refused, and a version only goes down by a
\* plan verified before another was installed (apply, finalize_staged_apply).
THEOREM FirmwareAsVerified == FirmwareSpec => []AppliedIsTrusted /\ DowngradeWasStale
<1>1. FirmwareInv => AppliedIsTrusted
  BY Zenon DEF FirmwareInv, AppliedIsTrusted, PastVerify
<1>2. FirmwareInv /\ [FirmwareNext]_firmwareVars =>
        [\A b \in Blobs : plan[b].state # "Applied" /\ plan'[b].state = "Applied"
                             => installed' > installed \/ since[b] # {}]_firmwareVars
  <2> SUFFICES ASSUME FirmwareInv, FirmwareNext, NEW b \in Blobs, plan[b].state # "Applied",
                      plan'[b].state = "Applied", since[b] = {}
               PROVE  installed' > installed
    BY Zenon DEF firmwareVars
  <2>1. ASSUME NEW c \in Blobs, NEW from \in {"Staged", "Applying"}, Advance(c, from, "Applied"), Install(c)
        PROVE installed' > installed
    BY <2>1, Zenon DEF Advance, Install, FirmwareInv, PastVerify
  <2>2. ASSUME NEW c \in Blobs,
               \/ \E x \in ApplyStrategies : Propose(c, x)
               \/ \E signer \in Signers : Verify(c, signer)
               \/ Revert(c) \/ Fail(c)
        PROVE FALSE
    <3>1. DOMAIN plan = Blobs
      BY Zenon DEF FirmwareInv
    <3>2. ASSUME NEW x \in ApplyStrategies, Propose(c, x) PROVE FALSE
      BY <3>1, <3>2, Zenon DEF Propose
    <3>3. ASSUME NEW signer \in Signers, Verify(c, signer) PROVE FALSE
      <4>1. c # b => plan'[b] = plan[b]
        BY <3>1, <3>3, Zenon DEF Verify
      <4>2. plan'[c].state \in {"Verified", "Failed"}
        BY <3>1, <3>3 DEF Verify
      <4> QED BY <4>1, <4>2, Zenon
    <3>4. ASSUME Revert(c) PROVE FALSE
      BY <3>1, <3>4 DEF Revert
    <3>5. ASSUME Fail(c) PROVE FALSE
      BY <3>1, <3>5 DEF Fail
    <3> QED BY <2>2, <3>2, <3>3, <3>4, <3>5, Zenon
  <2>3. ASSUME NEW c \in Blobs, NEW from, NEW to \in {"Approved", "Staged", "Applying"}, Advance(c, from, to)
        PROVE FALSE
    BY <2>3 DEF FirmwareInv, Advance
  <2> QED BY <2>1, <2>2, <2>3, Zenon DEF FirmwareNext, Apply, FinalizeStagedApply, Approve, Stage
<1> QED BY <1>1, <1>2, FirmwareInvariant, PTL DEF FirmwareSpec, DowngradeWasStale

--------------------------------------------------------------------------------
(* Application updates: a call under way loaded a state from which it may run, and *)
(* the states a plan passed are closed under what must come before.                *)

UpdateInv ==
    /\ DOMAIN utask = UpdateTasks /\ DOMAIN loadedFrom = UpdateTasks
    /\ updateState \in passed
    /\ "Verified" \in passed => "Executed" \in passed
    /\ "Active" \in passed => "Verified" \in passed
    /\ \A t \in UpdateTasks : utask[t] # UpdateIdle =>
          /\ utask[t].op \in Ops
          /\ IsLegalTransition(loadedFrom[t], Between[utask[t].op])
          /\ loadedFrom[t] \in passed

\* UpdateInv holds in every reachable state of the driver.
LEMMA UpdateInvariant == UpdateSpec => []UpdateInv
<1>1. UpdateInit => UpdateInv
  BY Zenon DEF UpdateInit, UpdateInv
<1>2. UpdateInv /\ [UpdateNext]_updateVars => UpdateInv'
  <2> SUFFICES ASSUME UpdateInv, [UpdateNext]_updateVars PROVE UpdateInv'
    BY Zenon
  <2>1. ASSUME NEW t \in UpdateTasks, NEW op \in Ops, Load(t, op) PROVE UpdateInv'
    BY <2>1, Zenon DEF Load, UpdateInv
  <2>2. ASSUME NEW t \in UpdateTasks, StoreFirst(t) PROVE UpdateInv'
    <3>1. utask[t] # UpdateIdle /\ utask[t].op \in Ops
      BY <2>2, SMTT(30) DEF StoreFirst, UpdateInv, UpdateIdle
    <3>2. Between[utask[t].op] \notin {"Executed", "Verified", "Active"}
      BY <3>1 DEF Between, Ops
    <3>3. passed' = passed \cup {Between[utask[t].op]} /\ updateState' = Between[utask[t].op]
      BY <2>2, Zenon DEF StoreFirst, Store
    <3>4. utask'[t].op = utask[t].op /\ DOMAIN utask' = UpdateTasks
          /\ \A u \in UpdateTasks : u # t => utask'[u] = utask[u]
      BY <2>2, SMTT(30) DEF StoreFirst, UpdateInv
    <3> QED BY <2>2, <3>1, <3>2, <3>3, <3>4, Zenon DEF StoreFirst, UpdateInv
  <2>3. ASSUME NEW t \in UpdateTasks, StoreSecond(t) PROVE UpdateInv'
    <3>1. /\ utask[t] # UpdateIdle /\ utask[t].op \in Ops
          /\ IsLegalTransition(loadedFrom[t], Between[utask[t].op]) /\ loadedFrom[t] \in passed
      BY <2>3, SMTT(30) DEF StoreSecond, UpdateInv, UpdateIdle
    <3>2. Final[utask[t].op] = "Verified" => loadedFrom[t] = "Executed"
      <4>1. Final[utask[t].op] = "Verified" => utask[t].op = "verify"
        BY <3>1 DEF Final, Ops
      <4>2. Between["verify"] = "Verifying"
        BY Zenon DEF Between
      <4>3. <<loadedFrom[t], "Verifying">> \in Edges => loadedFrom[t] = "Executed"
        BY Zenon DEF Edges
      <4> QED BY <3>1, <4>1, <4>2, <4>3, Zenon DEF IsLegalTransition
    <3>3. Final[utask[t].op] = "Active" => loadedFrom[t] = "Verified"
      <4>1. Final[utask[t].op] = "Active" => utask[t].op = "activate"
        BY <3>1 DEF Final, Ops
      <4>2. Between["activate"] = "Activating"
        BY Zenon DEF Between
      <4>3. <<loadedFrom[t], "Activating">> \in Edges => loadedFrom[t] = "Verified"
        BY Zenon DEF Edges
      <4> QED BY <3>1, <4>1, <4>2, <4>3, Zenon DEF IsLegalTransition
    <3>4. passed' = passed \cup {Final[utask[t].op]} /\ updateState' = Final[utask[t].op]
      BY <2>3, Zenon DEF StoreSecond, Store
    <3>5. /\ utask' = [utask EXCEPT ![t] = UpdateIdle]
          /\ loadedFrom' = [loadedFrom EXCEPT ![t] = "Planned"]
      BY <2>3, Zenon DEF StoreSecond
    <3> QED BY <3>1, <3>2, <3>3, <3>4, <3>5, Zenon DEF UpdateInv
  <2>4. CASE UNCHANGED updateVars
    BY <2>4, Zenon DEF updateVars, UpdateInv
  <2> QED BY <2>1, <2>2, <2>3, <2>4, Zenon DEF UpdateNext
<1> QED BY <1>1, <1>2, PTL DEF UpdateSpec

\* An active update was executed and verified, and a rolled back one only changes by a
\* call that loaded it before (load_plan, store_plan without a lock in between).
THEOREM UpdatesInOrder == UpdateSpec => []ActiveWasVerified /\ RolledBackSettles
<1>1. UpdateInv => ActiveWasVerified
  BY Zenon DEF UpdateInv, ActiveWasVerified
<1>2. UpdateInv /\ [UpdateNext]_updateVars =>
        [updateState = "RolledBack" /\ updateState' # "RolledBack" =>
           \E t \in UpdateTasks : utask[t] # UpdateIdle /\ loadedFrom[t] # "RolledBack"]_updateVars
  <2> SUFFICES ASSUME UpdateInv, UpdateNext, updateState' # updateState
               PROVE  \E t \in UpdateTasks : utask[t] # UpdateIdle /\ loadedFrom[t] # "RolledBack"
    BY Zenon DEF updateVars
  <2>1. PICK t \in UpdateTasks : StoreFirst(t) \/ StoreSecond(t)
    BY Zenon DEF UpdateNext, Load
  <2>2. utask[t] # UpdateIdle
    BY <2>1, SMTT(30) DEF StoreFirst, StoreSecond, UpdateIdle
  <2>3. loadedFrom[t] # "RolledBack"
    BY <2>2, Zenon DEF UpdateInv, IsLegalTransition, Edges
  <2> QED BY <2>2, <2>3, Zenon
<1> QED BY <1>1, <1>2, UpdateInvariant, PTL DEF UpdateSpec, RolledBackSettles

--------------------------------------------------------------------------------
(* Service units: a driver asks the graph for an edge of both tables.              *)

\* No unit is ever Draft again: mark_failed has no legal edge for one.
LiveStates == UnitStates \ {"Draft"}
UnitOps == {"start", "retry", "stop", "bounce", "fail"} \cup UnitStates
DriverFields == {"at", "op", "unit", "expected", "next"}

\* A driver at work on a known unit; the edge it holds is legal from what it read.
DriverFits(drv) ==
    /\ DOMAIN drv = DriverFields
    /\ drv.at # "idle" => drv.op \in UnitOps /\ drv.unit \in Units
    /\ drv.at = "set" => IsValidTransition(drv.expected, drv.next)

UnitsInv ==
    /\ unitState \in [Units -> LiveStates]
    /\ DOMAIN driver = Drivers
    /\ \A d \in Drivers : DriverFits(driver[d])

\* The two transition tables agree (TRANSITIONS, is_valid_transition).
LEMMA TablesAgree ==
    ASSUME NEW from, NEW to
    PROVE  IsValidTransition(from, to) <=> <<from, to>> \in Transitions
BY Zenon DEF IsValidTransition, Transitions

\* The edge a driver chooses is legal from the state it was chosen for
\* (drive_to_running, stop, mark_failed, transition).
LEMMA ChosenIsValid ==
    ASSUME NEW s \in LiveStates, NEW op \in UnitOps, NextFor(op, s) \notin {"ok", "error"}
    PROVE  IsValidTransition(s, NextFor(op, s))
<1>1. <<s, NextFor(op, s)>> \in Transitions
  BY Zenon DEF NextFor
<1> QED BY <1>1, TablesAgree, Zenon

\* The states that a legal edge leads to (is_valid_transition).
LEMMA ValidIsState ==
    ASSUME NEW from, NEW to, IsValidTransition(from, to)
    PROVE  to \in LiveStates
BY Zenon DEF IsValidTransition, UnitStates, LiveStates

\* UnitsInv is inductive (UnitFsmDriver).
LEMMA UnitsInductive == UnitsInv /\ [UnitsNext]_unitVars => UnitsInv'
<1> SUFFICES ASSUME UnitsInv, [UnitsNext]_unitVars PROVE UnitsInv'
  BY Zenon
<1>0. /\ unitState \in [Units -> LiveStates] /\ DOMAIN driver = Drivers
      /\ \A d \in Drivers : DriverFits(driver[d])
  BY Zenon DEF UnitsInv
<1>1. ASSUME NEW d \in Drivers, NEW drv, DriverFits(drv), driver' = [driver EXCEPT ![d] = drv],
             unitState' \in [Units -> LiveStates]
      PROVE  UnitsInv'
  BY <1>0, <1>1, Zenon DEF UnitsInv
<1>2. DriverFits(NoDriver)
  BY Zenon DEF DriverFits, NoDriver, DriverFields
<1>3. ASSUME NEW d \in Drivers, NEW u \in Units, NEW op \in UnitOps, Call(d, u, op) PROVE UnitsInv'
  <2>1. DriverFits([NoDriver EXCEPT !.at = "read", !.op = op, !.unit = u])
    BY Zenon DEF DriverFits, NoDriver, DriverFields
  <2> QED BY <1>0, <1>1, <1>3, <2>1, Zenon DEF Call
<1>4. ASSUME NEW d \in Drivers, NEW u \in Units, Restart(d, u) PROVE UnitsInv'
  <2>1. \E op \in UnitOps : Call(d, u, op)
    BY <1>4, Zenon DEF Restart, UnitOps
  <2> QED BY <1>3, <2>1, Zenon
<1>5. ASSUME NEW d \in Drivers, Read(d) PROVE UnitsInv'
  <2>1. PICK s \in LiveStates, op \in UnitOps : s = unitState[driver[d].unit] /\ op = driver[d].op
    BY <1>0, <1>5, Zenon DEF Read, DriverFits
  <2>2. driver[d].at = "read" /\ driver[d].unit \in Units /\ DOMAIN driver[d] = DriverFields /\ unitState' = unitState
    BY <1>0, <1>5, Zenon DEF Read, DriverFits
  <2>3. CASE driver' = [driver EXCEPT ![d].op = "start"]
    <3>1. driver' = [driver EXCEPT ![d] = [driver[d] EXCEPT !.op = "start"]]
      BY <2>3, Zenon
    <3>2. DriverFits([driver[d] EXCEPT !.op = "start"])
      BY <2>2, Zenon DEF DriverFits, DriverFields, UnitOps
    <3> QED BY <1>0, <1>1, <2>2, <3>1, <3>2, Zenon
  <2>4. CASE Return(d)
    BY <1>0, <1>1, <1>2, <2>2, <2>4, Zenon DEF Return
  <2>5. CASE /\ NextFor(op, s) \notin {"ok", "error"}
             /\ driver' = [driver EXCEPT ![d].at = "set", ![d].expected = s, ![d].next = NextFor(op, s)]
    <3>1. PICK drv : drv = [driver[d] EXCEPT !.at = "set", !.expected = s, !.next = NextFor(op, s)]
      BY Zenon
    <3>2. DOMAIN drv = DriverFields /\ drv.op = op /\ drv.unit = driver[d].unit /\ drv.at = "set"
          /\ drv.expected = s /\ drv.next = NextFor(op, s)
      BY <2>1, <2>2, <3>1, Zenon DEF DriverFields
    <3>3. DriverFits(drv)
      BY <2>2, <2>5, <3>2, ChosenIsValid, Zenon DEF DriverFits
    <3>4. driver' = [driver EXCEPT ![d] = drv]
      BY <2>5, <3>1, Zenon
    <3> QED BY <1>0, <1>1, <2>2, <3>3, <3>4, Zenon
  <2> QED BY <1>5, <2>1, <2>3, <2>4, <2>5, Zenon DEF Read
<1>6. ASSUME NEW d \in Drivers, SetUnitState(d) PROVE UnitsInv'
  <2>1. driver[d].at = "set" /\ DOMAIN driver[d] = DriverFields /\ driver[d].unit \in Units
        /\ driver[d].op \in UnitOps
    BY <1>0, <1>6, Zenon DEF SetUnitState, DriverFits
  <2>2. unitState' \in [Units -> LiveStates]
    BY <1>0, <1>6, <2>1, ValidIsState, Zenon DEF SetUnitState
  <2>3. CASE Return(d)
    BY <1>1, <1>2, <2>2, <2>3, Zenon DEF Return
  <2>4. CASE Again(d)
    <3>1. driver' = [driver EXCEPT ![d] = [driver[d] EXCEPT !.at = "read", !.expected = "none", !.next = "none"]]
      BY <2>4, Zenon DEF Again
    <3>2. DriverFits([driver[d] EXCEPT !.at = "read", !.expected = "none", !.next = "none"])
      BY <2>1, Zenon DEF DriverFits, DriverFields
    <3> QED BY <1>1, <2>2, <3>1, <3>2, Zenon
  <2> QED BY <1>6, <2>3, <2>4, Zenon DEF SetUnitState
<1>7. CASE UNCHANGED unitVars
  BY <1>0, <1>7, Zenon DEF unitVars, UnitsInv
<1> QED BY <1>3, <1>4, <1>5, <1>6, <1>7, Zenon DEF UnitsNext, DriverStep, UnitOps

\* Units move along the table, an edge is refused only after a race, and the three
\* views of convergence agree, for any number of units and drivers (unit_fsm.rs).
THEOREM UnitsKeepToTheTable ==
    UnitsSpec => [](RefusedMeansRaced /\ ConvergenceAgrees) /\ UnitsFollowTable
<1>1. UnitsInit => UnitsInv
  BY DEF UnitsInit, UnitsInv, DriverFits, NoDriver, DriverFields, UnitStates, LiveStates
<1>2. UnitsInv => RefusedMeansRaced
  BY Zenon DEF UnitsInv, RefusedMeansRaced, DriverFits
<1>3. UnitsInv => ConvergenceAgrees
  <2> SUFFICES ASSUME UnitsInv PROVE ConvergenceAgrees
    BY Zenon
  <2>1. CASE Units = {}
    BY <2>1, Zenon DEF ConvergenceAgrees, IsConverged, ConvergenceState, GraphState, SharedVerdict
  <2>2. CASE Units # {}
    <3>1. SharedVerdict \in {"none", "Failed", "Degraded"}
      BY <2>2, Zenon DEF SharedVerdict
    <3>2. ASSUME IsConverged PROVE ConvergenceState = "Converged" /\ GraphState = "Converged"
      <4>1. SharedVerdict = "none"
        BY <2>2, <3>2, Zenon DEF IsConverged, DesiredStateMatches, RunningStable, SharedVerdict,
                                 Transitional
      <4> QED BY <3>2, <4>1, Zenon DEF IsConverged, ConvergenceState, GraphState
    <3>3. ASSUME ConvergenceState \in {"Converged", "Empty"} PROVE IsConverged
      <4>1. SharedVerdict = "none"
        BY <3>1, <3>3, Zenon DEF ConvergenceState
      <4>2. ~\E u \in Units : Transitional(unitState[u])
        BY <3>3, <4>1, Zenon DEF ConvergenceState
      <4>3. \A u \in Units : DesiredStateMatches(u)
        BY <3>3, <4>1, <4>2, Zenon DEF ConvergenceState
      <4> QED BY <4>2, <4>3, Zenon DEF IsConverged
    <3> QED BY <3>2, <3>3, Zenon DEF ConvergenceAgrees
  <2> QED BY <2>1, <2>2, Zenon
<1>4. UnitsInv /\ [UnitsNext]_unitVars =>
        \A u \in Units : unitState'[u] # unitState[u] => <<unitState[u], unitState'[u]>> \in Transitions
  <2> SUFFICES ASSUME UnitsInv, [UnitsNext]_unitVars, NEW u \in Units, unitState'[u] # unitState[u]
               PROVE  <<unitState[u], unitState'[u]>> \in Transitions
    BY Zenon
  <2>1. \E d \in Drivers : SetUnitState(d)
    BY Zenon DEF UnitsNext, unitVars, Call, Restart, DriverStep, Read
  <2>2. PICK d \in Drivers : SetUnitState(d)
    BY <2>1, Zenon
  <2>3. unitState \in [Units -> LiveStates]
    BY Zenon DEF UnitsInv
  <2>4. u = driver[d].unit /\ unitState'[u] = driver[d].next /\ IsValidTransition(unitState[u], driver[d].next)
    BY <2>2, <2>3, Zenon DEF SetUnitState
  <2> QED BY <2>4, TablesAgree, Zenon
<1> QED BY <1>1, <1>2, <1>3, <1>4, UnitsInductive, PTL DEF UnitsSpec, UnitsFollowTable

--------------------------------------------------------------------------------
\* Remote execution

JobStates == {"ABSENT", "PROPOSED", "ORIGIN_APPROVED", "TARGET_APPROVED", "REJECTED",
              "TRANSFERRING", "RUNNING", "COMPLETED", "FAILED"}

\* The record types of the router, with the two facts that carry each other: a
\* rejection is only ever recorded together with the terminal state.
JobInv ==
    /\ jobState \in [Jobs -> JobStates]
    /\ decision \in [Jobs -> [Sides -> {"NONE", "APPROVE", "REJECT"}]]
    /\ TransferredWasApproved
    /\ VetoIsFinal

\* Every call of the router keeps JobInv.
LEMMA JobStep == JobInv /\ [RemoteNext]_jobVars => JobInv'
<1> SUFFICES ASSUME JobInv, [RemoteNext]_jobVars PROVE JobInv'
  BY Zenon
<1> USE DEF JobInv, JobStates, Sides, TransferredWasApproved, VetoIsFinal
<1>1. CASE UNCHANGED jobVars
  BY <1>1, Zenon DEF jobVars
<1>2. ASSUME NEW j \in Jobs, ProposeRoute(j) PROVE JobInv'
  BY <1>2, Zenon DEF ProposeRoute
<1>3. ASSUME NEW j \in Jobs, TransferWorkload(j) PROVE JobInv'
  BY <1>3, Zenon DEF TransferWorkload, TransitionTo, CanTransitionTo
<1>4. ASSUME NEW j \in Jobs, MarkRunning(j) PROVE JobInv'
  BY <1>4, Zenon DEF MarkRunning, TransitionTo, CanTransitionTo
<1>5. ASSUME NEW j \in Jobs, Reject(j) PROVE JobInv'
  BY <1>5, Zenon DEF Reject, TransitionTo, CanTransitionTo
<1>6. ASSUME NEW j \in Jobs, NEW side \in Sides, NEW verdict \in {"APPROVE", "REJECT"},
             Decide(j, side, verdict)
      PROVE  JobInv'
  BY <1>6, ZenonT(30) DEF Decide, Approved, TransitionTo, CanTransitionTo
<1>7. ASSUME NEW j \in Jobs, NEW exitCode \in 0..1, ReportResult(j, exitCode) PROVE JobInv'
  BY <1>7, Zenon DEF ReportResult, TransitionTo, CanTransitionTo
<1> QED BY <1>1, <1>2, <1>3, <1>4, <1>5, <1>6, <1>7, ZenonT(40) DEF RemoteNext

\* A transferred workload has both approvals and keeps them, and a rejection by
\* either side ends the job for good, for any number of jobs and calls in any order.
THEOREM ApprovalsHold == RemoteSpec => [](TransferredWasApproved /\ VetoIsFinal)
<1>1. RemoteInit => JobInv
  BY DEF RemoteInit, JobInv, JobStates, Sides, TransferredWasApproved, VetoIsFinal
<1>2. JobInv => TransferredWasApproved /\ VetoIsFinal
  BY Zenon DEF JobInv
<1> QED BY <1>1, <1>2, JobStep, PTL DEF RemoteSpec

--------------------------------------------------------------------------------
\* Overlay

\* Who is not a peer holds no lead role, so that removing and adding peers cannot
\* leave two leads; tunnels are pairs of peers.
OverlayInv ==
    /\ peerState \in [OverlayHosts -> {"ABSENT", "DISCOVERED", "KEY_EXCHANGE", "CONNECTED",
                                       "HEARTBEAT_LOST", "DISCONNECTED"}]
    /\ role \in [OverlayHosts -> {"SPOKE", "HUB", "COORDINATOR", "MESH_MEMBER"}]
    /\ TunnelsJoinPeers
    /\ OneLead

\* Every critical section of the overlay keeps OverlayInv.
LEMMA OverlayStep == OverlayInv /\ [OverlayNext]_overlayVars => OverlayInv'
<1> SUFFICES ASSUME OverlayInv, [OverlayNext]_overlayVars PROVE OverlayInv'
  BY Zenon
<1> USE DEF OverlayInv, TunnelsJoinPeers, OneLead, LeadRoles, Peers
<1>1. CASE UNCHANGED overlayVars
  BY <1>1, Zenon DEF overlayVars
<1>2. CASE EstablishFullMesh
  BY <1>2, Zenon DEF EstablishFullMesh
<1>3. CASE EstablishHybridRelayedMesh
  BY <1>3, Zenon DEF EstablishHybridRelayedMesh, RolesOf
<1>4. CASE ReElectFinish \/ \E enr \in SUBSET OverlayHosts : Elect(enr)
  BY <1>4, Zenon DEF ReElectFinish, Elect, ElectCoordinator
<1>5. ASSUME NEW h \in OverlayHosts,
             AddPeer(h) \/ PeerKeyExchange(h) \/ Heartbeat(h) \/ DetectHeartbeatLost(h)
      PROVE  OverlayInv'
  BY <1>5, Zenon DEF AddPeer, PeerKeyExchange, Heartbeat, DetectHeartbeatLost
<1>6. ASSUME NEW h \in OverlayHosts, RemovePeer(h) PROVE OverlayInv'
  BY <1>6, Zenon DEF RemovePeer, TunnelsWithout
<1>7. ASSUME NEW h \in OverlayHosts, EstablishHubAndSpoke(h) PROVE OverlayInv'
  BY <1>7, Zenon DEF EstablishHubAndSpoke, RolesOf
<1>8. ASSUME NEW h \in OverlayHosts, NEW enr \in SUBSET OverlayHosts, ReElectBegin(h, enr)
      PROVE  OverlayInv'
  BY <1>8, Zenon DEF ReElectBegin
<1> QED BY <1>1, <1>2, <1>3, <1>4, <1>5, <1>6, <1>7, <1>8, Zenon DEF OverlayNext

\* For any hosts, and elections from any list of members, tunnels join peers and at
\* most one peer leads.
THEOREM OverlaySafe == OverlaySpec => [](TunnelsJoinPeers /\ OneLead)
<1>1. OverlayInit => OverlayInv
  BY Zenon DEF OverlayInit, OverlayInv, TunnelsJoinPeers, OneLead, LeadRoles
<1>2. OverlayInv => TunnelsJoinPeers /\ OneLead
  BY Zenon DEF OverlayInv
<1> QED BY <1>1, <1>2, OverlayStep, PTL DEF OverlaySpec

\* A peer that was declared lost does not come back by a late heartbeat.
THEOREM LostPeersStayOut == OverlaySpec => LostStaysOut
<1> DEFINE Step == \A h \in OverlayHosts :
                      peerState[h] = "DISCONNECTED" => peerState'[h] \in {"DISCONNECTED", "ABSENT"}
<1>1. OverlayInit => OverlayInv
  BY Zenon DEF OverlayInit, OverlayInv, TunnelsJoinPeers, OneLead, LeadRoles
<1>2. OverlayInv /\ [OverlayNext]_overlayVars => Step
  BY Zenon DEF OverlayInv, OverlayNext, overlayVars, EstablishFullMesh, EstablishHybridRelayedMesh,
         ReElectFinish, Elect, ElectCoordinator, AddPeer, PeerKeyExchange, Heartbeat,
         DetectHeartbeatLost, RemovePeer, EstablishHubAndSpoke, ReElectBegin, Peers
<1> QED BY <1>1, <1>2, OverlayStep, PTL DEF OverlaySpec, LostStaysOut

--------------------------------------------------------------------------------
\* Recovery

\* The deadline is never of the host's own making: it is zero, or some heartbeat's
\* timestamp plus the timeout.
DeadlineInv ==
    /\ time \in Nat
    /\ deadline \in Nat
    /\ \A b \in heartbeats : b.from \in Hosts /\ b.at \in Nat
    /\ claimed \in Seq(Hosts \X Nat)
    /\ deadline # 0 => \E b \in heartbeats : DeadlineOf(b) = deadline

\* Every call, heartbeat and tick keeps DeadlineInv.
LEMMA DeadlineStep == DeadlineInv /\ [FleetRecoveryNext]_recVars => DeadlineInv'
<1> SUFFICES ASSUME DeadlineInv, [FleetRecoveryNext]_recVars PROVE DeadlineInv'
  BY Zenon
<1> USE TimeoutAssumption DEF DeadlineInv, DeadlineOf
<1>1. CASE UNCHANGED recVars
  BY <1>1, Zenon DEF recVars
<1>2. CASE FleetTick
  BY <1>2 DEF FleetTick
<1>3. CASE PromoteCoordinator
  BY <1>3, Zenon DEF PromoteCoordinator, Follow
<1>4. CASE ElectNewCoordinator
  BY <1>4, Zenon DEF ElectNewCoordinator, Follow
<1>5. CASE RecoverFromSplitBrain
  BY <1>5 DEF RecoverFromSplitBrain, Follow
<1>6. ASSUME NEW b \in heartbeats, ReceiveHeartbeat(b) PROVE DeadlineInv'
  <2>1. WithClaim(b) \in Seq(Hosts \X Nat)
    BY DEF WithClaim
  <2>2. claimed' \in Seq(Hosts \X Nat)
    BY <1>6, <2>1, Zenon DEF ReceiveHeartbeat
  <2> QED BY <1>6, <2>2 DEF ReceiveHeartbeat
<1>7. ASSUME NEW h \in Hosts, SendHeartbeat(h) PROVE DeadlineInv'
  BY <1>7 DEF SendHeartbeat
<1>8. ASSUME NEW h \in Hosts, SetCoordinator(h) \/ DropMember(h) PROVE DeadlineInv'
  BY <1>8, Zenon DEF SetCoordinator, DropMember
<1> QED BY <1>1, <1>2, <1>3, <1>4, <1>5, <1>6, <1>7, <1>8, Zenon DEF FleetRecoveryNext

\* However late, often or out of order heartbeats arrive, a host that calls the fleet
\* healthy rests on one sent no longer than the timeout ago.
THEOREM HealthRestsOnHeartbeats == FleetRecoverySpec => []HealthyIsRecent
<1>1. FleetRecoveryInit => DeadlineInv
  BY DEF FleetRecoveryInit, DeadlineInv
<1>2. DeadlineInv => HealthyIsRecent
  BY TimeoutAssumption DEF DeadlineInv, HealthyIsRecent, CheckCoordinatorAlive, DeadlineOf
<1> QED BY <1>1, <1>2, DeadlineStep, PTL DEF FleetRecoverySpec

\* Under a split brain only the coordinator's own heartbeats move the deadline, whoever
\* set_coordinator, promote_coordinator or an election made the coordinator.
THEOREM SplitBrainFreezesDeadline == FleetRecoverySpec => SplitBrainHolds
<1> DEFINE Holds == Len(claimed) >= 2 /\ coordinator # Nobody /\ deadline' \notin {0, deadline}
                      => \E b \in heartbeats : b.from = coordinator /\ DeadlineOf(b) = deadline'
<1>1. DeadlineInv /\ [FleetRecoveryNext]_recVars => Holds
  <2> SUFFICES ASSUME DeadlineInv, [FleetRecoveryNext]_recVars, Len(claimed) >= 2,
                      coordinator # Nobody, deadline' \notin {0, deadline}
               PROVE  \E b \in heartbeats : b.from = coordinator /\ DeadlineOf(b) = deadline'
    BY Zenon
  <2>1. PICK b \in heartbeats : ReceiveHeartbeat(b)
    BY Zenon DEF FleetRecoveryNext, recVars, FleetTick, PromoteCoordinator, ElectNewCoordinator,
           RecoverFromSplitBrain, SendHeartbeat, SetCoordinator, DropMember, Follow
  <2>2. Len(WithClaim(b)) >= 2
    BY DEF DeadlineInv, WithClaim
  <2>3. b.from = coordinator
    BY <2>1, <2>2, Zenon DEF ReceiveHeartbeat, SplitBrainDetected
  <2> QED BY <2>1, <2>3, Zenon DEF ReceiveHeartbeat
<1>2. FleetRecoveryInit => DeadlineInv
  BY DEF FleetRecoveryInit, DeadlineInv
<1> QED BY <1>1, <1>2, DeadlineStep, PTL DEF FleetRecoverySpec, SplitBrainHolds

--------------------------------------------------------------------------------
\* Rollout

PhaseStates == {"PENDING", "IN_PROGRESS", "PAUSED", "COMPLETED", "FAILED"}

\* Phases are records; the switches are exclusive because an abort clears the pause.
RolloutInv ==
    /\ phases \in [DOMAIN phases -> [hosts : SUBSET Int, state : PhaseStates]]
    /\ paused \in BOOLEAN
    /\ aborted \in BOOLEAN
    /\ ~(paused /\ aborted)
    /\ SwitchesHold

\* Every planner makes pending phases only.
LEMMA PlanIsPending ==
    ASSUME NEW share \in CanaryShares, strategy \in {"ALL_AT_ONCE", "CANARY", "ROLLING", "BLUE_GREEN"}
    PROVE  Plan(share) \in [DOMAIN Plan(share) -> [hosts : SUBSET Int, state : {"PENDING"}]]
<1> DEFINE Pending == [hosts : SUBSET Int, state : {"PENDING"}]
<1> SUFFICES Plan(share) \in [DOMAIN Plan(share) -> Pending]
  BY Zenon
<1>1. \A a, b : Phase(a, b) \in Pending
  BY DEF Phase
<1> HIDE DEF Pending
<1>2. ASSUME NEW p \in Pending, NEW q \in Pending
      PROVE  <<p>> \in [DOMAIN <<p>> -> Pending] /\ <<p, q>> \in [DOMAIN <<p, q>> -> Pending]
  OBVIOUS
<1>3. ASSUME NEW p \in Pending, NEW q \in Pending, Plan(share) = <<p>> \/ Plan(share) = <<p, q>>
      PROVE  Plan(share) \in [DOMAIN Plan(share) -> Pending]
  BY <1>2, <1>3, Zenon
<1>4. CASE strategy = "ALL_AT_ONCE"
  <2>1. Plan(share) = <<Phase(1, HostCount)>>
    BY <1>4, Zenon DEF Plan
  <2> QED BY <1>1, <1>3, <2>1, Zenon
<1>5. CASE strategy = "CANARY"
  <2>1. \/ Plan(share) = <<Phase(1, HostCount)>>
        \/ Plan(share) = <<Phase(1, CanaryCount(share)), Phase(CanaryCount(share) + 1, HostCount)>>
    BY <1>5, Zenon DEF Plan
  <2> QED BY <1>1, <1>3, <2>1, Zenon
<1>6. CASE strategy = "ROLLING"
  <2> DEFINE last(b) == IF b * BatchSize > HostCount THEN HostCount ELSE b * BatchSize
  <2>1. Plan(share) = [b \in 1..BatchCount |-> Phase((b - 1) * BatchSize + 1, last(b))]
    BY <1>6, Zenon DEF Plan
  <2> HIDE DEF last
  <2> DEFINE phase(b) == Phase((b - 1) * BatchSize + 1, last(b))
  <2>2. \A b \in 1..BatchCount : phase(b) \in Pending
    BY <1>1, Zenon
  <2>3. Plan(share) = [b \in 1..BatchCount |-> phase(b)]
    BY <2>1, Zenon
  <2> HIDE DEF phase
  <2> QED BY <2>2, <2>3, Zenon
<1>7. CASE strategy = "BLUE_GREEN"
  <2>1. Plan(share) = <<Phase(1, HostCount \div 2), Phase(HostCount \div 2 + 1, HostCount)>>
    BY <1>7, Zenon DEF Plan
  <2> QED BY <1>1, <1>3, <2>1, Zenon
<1> QED BY <1>4, <1>5, <1>6, <1>7, Zenon

\* Every call of the rollout keeps RolloutInv.
LEMMA RolloutStep ==
    ASSUME strategy \in {"ALL_AT_ONCE", "CANARY", "ROLLING", "BLUE_GREEN"}
    PROVE  RolloutInv /\ [RolloutNext]_rolloutVars => RolloutInv'
<1> SUFFICES ASSUME RolloutInv, [RolloutNext]_rolloutVars PROVE RolloutInv'
  BY Zenon
<1> USE DEF RolloutInv, SwitchesHold, PhaseStates
<1>1. CASE UNCHANGED rolloutVars
  BY <1>1, Zenon DEF rolloutVars
<1>2. CASE PlanPhases
  <2>1. PICK share \in CanaryShares : phases' = Plan(share)
    BY <1>2, Zenon DEF PlanPhases
  <2>2. phases' \in [DOMAIN phases' -> [hosts : SUBSET Int, state : {"PENDING"}]]
    BY <2>1, PlanIsPending, Zenon
  <2>3. \A k \in DOMAIN phases' : /\ phases'[k] \in [hosts : SUBSET Int, state : PhaseStates]
                                  /\ phases'[k].state = "PENDING"
    BY <2>2
  <2>4. phases' \in [DOMAIN phases' -> [hosts : SUBSET Int, state : PhaseStates]]
    BY <2>2, <2>3, Zenon
  <2> QED BY <1>2, <2>3, <2>4, Zenon DEF PlanPhases
<1>3. CASE PauseRollout
  BY <1>3, Zenon DEF PauseRollout, Restate
<1>4. CASE ResumeRollout
  BY <1>4, Zenon DEF ResumeRollout, Restate
<1>5. CASE AbortRollout
  BY <1>5, Zenon DEF AbortRollout, PhaseTerminal
<1>6. ASSUME NEW k \in DOMAIN phases, StartPhase(k) PROVE RolloutInv'
  BY <1>6, Zenon DEF StartPhase
<1>7. ASSUME NEW h \in TargetHosts, ReportHostError(h) \/ RetryHost(h) PROVE RolloutInv'
  BY <1>7 DEF ReportHostError, RetryHost
<1>8. ASSUME NEW h \in TargetHosts, NEW status \in HostStatuses, ReportHostStatus(h, status)
      PROVE  RolloutInv'
  BY <1>8 DEF ReportHostStatus, AutoCompleted
<1> QED BY <1>1, <1>2, <1>3, <1>4, <1>5, <1>6, <1>7, <1>8, Zenon DEF RolloutNext

\* While a rollout is paused nothing is in progress, and after an abort nothing is in
\* progress or held, for any strategy and number of hosts and for reports in any order.
THEOREM SwitchesAlwaysHold == RolloutSpec => []SwitchesHold
<1> DEFINE Known == strategy \in Strategies
<1>1. RolloutInit => Known /\ RolloutInv
  <2>1. <<>> \in [DOMAIN <<>> -> [hosts : SUBSET Int, state : PhaseStates]] /\ DOMAIN <<>> = {}
    OBVIOUS
  <2> QED BY <2>1, Zenon DEF RolloutInit, RolloutInv, SwitchesHold
<1>2. Known /\ RolloutInv /\ [RolloutNext]_rolloutVars => Known' /\ RolloutInv'
  <2> SUFFICES ASSUME Known, RolloutInv, [RolloutNext]_rolloutVars
               PROVE  Known' /\ RolloutInv'
    BY Zenon
  <2>1. strategy' = strategy
    BY Zenon DEF RolloutNext, rolloutVars, PlanPhases, PauseRollout, ResumeRollout, AbortRollout,
           StartPhase, ReportHostError, RetryHost, ReportHostStatus
  <2> QED BY <2>1, RolloutStep, RolloutBounds, Zenon
<1>3. RolloutInv => SwitchesHold
  BY Zenon DEF RolloutInv
<1> QED BY <1>1, <1>2, <1>3, PTL DEF RolloutSpec

--------------------------------------------------------------------------------
(* The phases of a rollout: integer division leaves no host out.                *)

\* What the integer quotient of the batch number returns.
LEMMA Quotient ==
    ASSUME NEW a \in Nat, NEW n \in Nat \ {0}
    PROVE  \E q \in Nat : q = a \div n /\ n * q <= a /\ a < n * q + n
<1>1. a \div n \in Int /\ a % n \in 0..(n - 1) /\ a = n * (a \div n) + (a % n)
  OBVIOUS
<1>2. a \div n \in Nat
  BY <1>1, SMTT(20)
<1> QED BY <1>1, <1>2, SMTT(20)

\* Multiplication by a natural number is monotonic.
LEMMA TimesGrows ==
    ASSUME NEW a \in Nat, NEW b \in Nat, NEW n \in Nat, a <= b
    PROVE  a * n <= b * n
<1>1. (b - a) * n >= 0
  <2>1. b - a \in Nat
    OBVIOUS
  <2> QED BY <2>1, SMTT(20)
<1>2. (b - a) * n = b * n - a * n
  BY SMTT(20)
<1> QED BY <1>1, <1>2

\* Every host is in exactly one phase of p.
CoversHosts(p) ==
    \A i \in 1..HostCount : \E k \in DOMAIN p :
       \A j \in DOMAIN p : i \in p[j].hosts <=> j = k

\* Every host is in exactly one batch of a rolling rollout.
LEMMA BatchesCover ==
    ASSUME NEW share \in CanaryShares, strategy = "ROLLING", HostCount > 0
    PROVE  CoversHosts(Plan(share))
<1> DEFINE B == BatchSize
           n == HostCount
           first(b) == (b - 1) * B + 1
           last(b) == IF b * B > n THEN n ELSE b * B
<1>1. Plan(share) = [b \in 1..BatchCount |-> Phase(first(b), last(b))]
  BY Zenon DEF Plan
<1>2. B \in Nat \ {0} /\ n \in Nat /\ n > 0
  BY RolloutBounds, Zenon
<1>3. PICK m \in Nat : m = BatchCount /\ B * m <= n + B - 1 /\ n + B - 1 < B * m + B
  <2>1. n + B - 1 \in Nat
    BY <1>2
  <2> QED BY <1>2, <2>1, Quotient, Zenon DEF BatchCount, CeilDiv
<1> HIDE DEF B, n
<1> SUFFICES ASSUME NEW i \in 1..n
             PROVE  \E k \in 1..m : \A j \in 1..m : i \in first(j)..last(j) <=> j = k
  <2> DEFINE Found(i) == \E k \in 1..m : \A j \in 1..m : i \in first(j)..last(j) <=> j = k
  <2>1. DOMAIN Plan(share) = 1..m /\ \A j \in 1..m : Plan(share)[j].hosts = first(j)..last(j)
    <3>1. DOMAIN Plan(share) = 1..m /\ \A j \in 1..m : Plan(share)[j] = Phase(first(j), last(j))
      BY <1>1, <1>3, Zenon
    <3>2. \A a, b : Phase(a, b).hosts = a..b
      BY Zenon DEF Phase
    <3> QED BY <3>1, <3>2, Zenon
  <2> HIDE DEF first, last
  <2>2. ASSUME NEW i \in 1..n, Found(i)
        PROVE  \E k \in DOMAIN Plan(share) : \A j \in DOMAIN Plan(share) : i \in Plan(share)[j].hosts <=> j = k
    <3>1. PICK k \in 1..m : \A j \in 1..m : i \in first(j)..last(j) <=> j = k
      BY <2>2, Zenon
    <3>2. \A j \in DOMAIN Plan(share) : i \in Plan(share)[j].hosts <=> j = k
      BY <2>1, <3>1, Zenon
    <3>3. k \in DOMAIN Plan(share)
      BY <2>1, Zenon
    <3> QED BY <3>2, <3>3, Zenon
  <2>3. \A i \in 1..n : Found(i)
    BY Zenon
  <2> HIDE DEF Found
  <2> QED BY <2>2, <2>3, Zenon DEF CoversHosts, n
<1>4. PICK q \in Nat : B * q <= i - 1 /\ i - 1 < B * q + B
  <2>1. i - 1 \in Nat
    BY <1>2
  <2> QED BY <1>2, <2>1, Quotient, Zenon
<1>5. q + 1 \in 1..m
  <2>1. CASE m <= q
    <3>1. m * B <= q * B
      BY <1>2, <2>1, TimesGrows, Zenon
    <3> QED BY <1>2, <1>3, <1>4, <3>1, SMTT(20)
  <2> QED BY <2>1
<1>6. ASSUME NEW j \in 1..m PROVE i \in first(j)..last(j) <=> j = q + 1
  <2>1. i \in first(j)..last(j) <=> (j - 1) * B < i /\ i <= j * B
    <3>1. j * B \in Int /\ (j - 1) * B \in Int
      BY <1>2
    <3> QED BY <1>2, <3>1
  <2>2. CASE j = q + 1
    <3>1. (j - 1) * B = B * q /\ j * B = B * q + B
      BY <1>2, <2>2, SMTT(20)
    <3> QED BY <1>2, <1>4, <2>1, <2>2, <3>1
  <2>3. CASE j <= q
    <3>1. j * B <= q * B /\ q * B = B * q
      BY <1>2, <2>3, TimesGrows
    <3> QED BY <1>2, <1>4, <2>1, <2>3, <3>1
  <2>4. CASE q + 2 <= j
    <3>1. (q + 1) * B <= (j - 1) * B /\ (q + 1) * B = B * q + B
      <4>1. q + 1 <= j - 1 /\ q + 1 \in Nat /\ j - 1 \in Nat
        BY <2>4
      <4>2. (q + 1) * B <= (j - 1) * B
        BY <1>2, <4>1, TimesGrows, Zenon
      <4> QED BY <1>2, <4>2, SMTT(20)
    <3>2. (j - 1) * B \in Int /\ B * q \in Int
      BY <1>2
    <3> QED BY <1>2, <1>4, <2>1, <2>4, <3>1, <3>2
  <2> QED BY <2>2, <2>3, <2>4
<1> QED BY <1>5, <1>6, Zenon

\* Every host is in exactly one of two phases that meet.
LEMMA SplitCovers ==
    ASSUME NEW share \in CanaryShares, NEW c \in Int, 0 <= c, c <= HostCount,
           Plan(share) = <<Phase(1, c), Phase(c + 1, HostCount)>>
    PROVE  CoversHosts(Plan(share))
<1>1. DOMAIN Plan(share) = {1, 2} /\ Plan(share)[1].hosts = 1..c /\ Plan(share)[2].hosts = (c + 1)..HostCount
  BY DEF Phase
<1>2. ASSUME NEW i \in 1..HostCount
      PROVE  \E k \in {1, 2} : \A j \in {1, 2} : i \in Plan(share)[j].hosts <=> j = k
  <2>1. CASE i <= c
    BY <1>1, <2>1, RolloutBounds
  <2>2. CASE i > c
    BY <1>1, <2>2, RolloutBounds
  <2> QED BY <2>1, <2>2, RolloutBounds
<1> QED BY <1>1, <1>2, Zenon DEF CoversHosts

\* Whatever the strategy, every host is in exactly one phase of the plan.
LEMMA PlanCovers ==
    ASSUME NEW share \in CanaryShares, strategy \in Strategies, HostCount > 0
    PROVE  CoversHosts(Plan(share))
<1>1. ASSUME Plan(share) = <<Phase(1, HostCount)>> PROVE CoversHosts(Plan(share))
  <2>1. DOMAIN Plan(share) = {1} /\ Plan(share)[1].hosts = 1..HostCount
    BY <1>1 DEF Phase
  <2> QED BY <2>1, Zenon DEF CoversHosts
<1>2. CASE strategy = "ALL_AT_ONCE"
  BY <1>1, <1>2, Zenon DEF Plan
<1>3. CASE strategy = "CANARY"
  <2>1. CanaryCount(share) \in Int /\ 0 <= CanaryCount(share) /\ CanaryCount(share) <= HostCount
    BY RolloutBounds DEF CanaryCount
  <2>2. CASE CanaryCount(share) < HostCount
    <3>1. Plan(share) = <<Phase(1, CanaryCount(share)), Phase(CanaryCount(share) + 1, HostCount)>>
      BY <1>3, <2>2, Zenon DEF Plan
    <3> QED BY <2>1, <3>1, SplitCovers, Zenon
  <2>3. CASE ~(CanaryCount(share) < HostCount)
    BY <1>1, <1>3, <2>3, Zenon DEF Plan
  <2> QED BY <2>2, <2>3, Zenon
<1>4. CASE strategy = "ROLLING"
  BY <1>4, BatchesCover, Zenon
<1>5. CASE strategy = "BLUE_GREEN"
  <2>1. HostCount \div 2 \in Int /\ 0 <= HostCount \div 2 /\ HostCount \div 2 <= HostCount
    BY RolloutBounds
  <2>2. Plan(share) = <<Phase(1, HostCount \div 2), Phase(HostCount \div 2 + 1, HostCount)>>
    BY <1>5, Zenon DEF Plan
  <2> QED BY <2>1, <2>2, SplitCovers, Zenon
<1> QED BY <1>2, <1>3, <1>4, <1>5, RolloutBounds, Zenon

CoverInv ==
    /\ strategy \in Strategies
    /\ phases = <<>> \/ CoversHosts(phases)

\* A step that changes the states of the phases alone keeps the hosts covered.
LEMMA SameHostsCover ==
    ASSUME CoverInv, strategy' = strategy,
           phases' = [k \in DOMAIN phases |-> phases'[k]],
           \A k \in DOMAIN phases : phases'[k].hosts = phases[k].hosts
    PROVE  CoverInv'
<1>1. CASE phases = <<>>
  <2>1. phases' = <<>>
    BY <1>1
  <2> QED BY <2>1, Zenon DEF CoverInv
<1>2. CASE CoversHosts(phases)
  <2>1. DOMAIN phases' = DOMAIN phases
    BY Zenon
  <2>2. ASSUME NEW i \in 1..HostCount
        PROVE  \E k \in DOMAIN phases' : \A j \in DOMAIN phases' : i \in phases'[j].hosts <=> j = k
    <3>1. PICK k \in DOMAIN phases : \A j \in DOMAIN phases : i \in phases[j].hosts <=> j = k
      BY <1>2, Zenon DEF CoversHosts
    <3>2. \A j \in DOMAIN phases' : i \in phases'[j].hosts <=> j = k
      BY <2>1, <3>1, Zenon
    <3> QED BY <2>1, <3>1, <3>2
  <2> QED BY <2>2, Zenon DEF CoverInv, CoversHosts
<1> QED BY <1>1, <1>2, Zenon DEF CoverInv

\* Every step of the rollout keeps the hosts covered.
LEMMA CoverStep == CoverInv /\ [RolloutNext]_rolloutVars => CoverInv'
<1> SUFFICES ASSUME CoverInv, [RolloutNext]_rolloutVars PROVE CoverInv'
  BY Zenon
<1>1. ASSUME UNCHANGED <<strategy, phases>> PROVE CoverInv'
  BY <1>1, Zenon DEF CoverInv, CoversHosts
<1>2. CASE PlanPhases
  <2>1. PICK share \in CanaryShares : phases' = Plan(share) /\ HostCount > 0 /\ strategy' = strategy
    BY <1>2, Zenon DEF PlanPhases
  <2>2. CoversHosts(phases')
    BY <2>1, PlanCovers, Zenon DEF CoverInv
  <2> QED BY <2>1, <2>2, Zenon DEF CoverInv, CoversHosts
<1>3. CASE PauseRollout
  BY <1>3, SameHostsCover DEF PauseRollout, Restate
<1>4. CASE ResumeRollout
  BY <1>4, SameHostsCover DEF ResumeRollout, Restate
<1>5. CASE AbortRollout
  BY <1>5, SameHostsCover DEF AbortRollout
<1>6. ASSUME NEW k \in DOMAIN phases, StartPhase(k) PROVE CoverInv'
  <2>1. phases' = [j \in DOMAIN phases |-> IF j = k THEN [phases[k] EXCEPT !.state = "IN_PROGRESS"]
                                                  ELSE phases[j]]
    BY <1>6, Zenon DEF StartPhase
  <2>2. strategy' = strategy
    BY <1>6, Zenon DEF StartPhase
  <2> QED BY <2>1, <2>2, SameHostsCover
<1>7. ASSUME NEW h \in TargetHosts, ReportHostError(h) \/ RetryHost(h) PROVE CoverInv'
  BY <1>1, <1>7, Zenon DEF ReportHostError, RetryHost
<1>8. ASSUME NEW h \in TargetHosts, NEW status \in HostStatuses, ReportHostStatus(h, status)
      PROVE  CoverInv'
  BY <1>8, SameHostsCover DEF ReportHostStatus, AutoCompleted
<1>9. CASE UNCHANGED rolloutVars
  BY <1>1, <1>9, Zenon DEF rolloutVars
<1> QED BY <1>2, <1>3, <1>4, <1>5, <1>6, <1>7, <1>8, <1>9, Zenon DEF RolloutNext

\* From its planning to its end a rollout has every host of the fleet in exactly one
\* phase, for any number of hosts, any batch size and any canary percentage.
THEOREM PlanAlwaysCovers == RolloutSpec => []PlanCoversHosts
<1>1. RolloutInit => CoverInv
  BY Zenon DEF RolloutInit, CoverInv
<1>2. CoverInv => PlanCoversHosts
  BY Zenon DEF CoverInv, CoversHosts, PlanCoversHosts
<1> QED BY <1>1, <1>2, CoverStep, PTL DEF RolloutSpec
==================================================================================
