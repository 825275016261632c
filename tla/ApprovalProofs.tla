----------------------------- MODULE ApprovalProofs ------------------------------
(* Proofs about what is approved: the entries of the capsule approval gate, the *)
(* exposures of network services, the bindings of the override broker and the   *)
(* votes of the members of a fleet, for every number of capsules, actions,      *)
(* exposures, bindings and members and every timeout.                           *)
EXTENDS ApprovalGate, NetworkExposure, OverrideBroker, FleetMembership, Integers,
        FiniteSetTheorems, TLAPS

--------------------------------------------------------------------------------
(* The approval gate. An entry of the audit trail is justified by what was true *)
(* when it was written; the invariant says which of those facts last, and what  *)
(* an evaluation or a sweep still in progress has read and not yet written.     *)

\* A Pending decision about the request r is in the trail t.
PendingIn(t, r) == \E j \in DOMAIN t : t[j].decision = "Pending" /\ t[j].request = r

\* The request r is in the map m of parked requests.
ParkedIn(m, r) == \E a \in Actions : m[a] # None /\ m[a] = r

\* A person approved or denied in the entry e.
IsManual(e) == e.by = "human" /\ e.decision # "Escalated"

\* The policies f in force since the proposal explain the automatic approval e.
Explained(e, f) ==
  e.by = "policy" /\ e.decision = "Approved" =>
    \/ "ClassifiedOnly" \in f[e.request.by] /\ ~e.request.kind.classified
    \/ "Delegated" \in f[e.request.by] /\ e.request.kind.in_scope

\* How far the call of the capsule c is, and what it has read and written so far.
CallSound(c) ==
  LET v == evaluating[c] IN
  \/ v = GateIdle
  \/ /\ v \in [pc: {"proposed", "recorded", "done"}, request: GateRequest]
     /\ v.request.by = c
     /\ v.pc = "proposed" => policy \in inForce[c]
     /\ v.pc = "recorded" => PendingIn(audit, v.request)
  \/ /\ v \in [pc: {"decided"}, request: GateRequest, entry: Entry]
     /\ v.request.by = c
     /\ v.entry.request = v.request /\ v.entry.by = "policy"
     /\ Explained(v.entry, inForce)

\* A parked request was answered Pending, and its capsule's call has returned.
ParkedSound(a) ==
  pending[a] # None =>
    /\ pending[a] \in GateRequest /\ pending[a].id = a
    /\ PendingIn(audit, pending[a])
    /\ evaluating[pending[a].by].pc = "done"
    /\ evaluating[pending[a].by].request = pending[a]

\* What the entry i of the trail says of the calls and of the map of parked requests.
EntrySound(i) ==
  /\ audit[i].by # "policy" => \E j \in 1..(i-1) : /\ audit[j].decision = "Pending"
                                                   /\ audit[j].request = audit[i].request
  /\ evaluating[audit[i].request.by].pc # "idle"
  /\ Explained(audit[i], inForce)
  /\ IsManual(audit[i]) =>
        /\ evaluating[audit[i].request.by].pc = "done"
        /\ ~ParkedIn(pending, audit[i].request)

\* What a call of evaluate holds: nothing, its request, its request and its answer.
GateCall ==
  {GateIdle} \cup [pc: {"proposed", "recorded", "done"}, request: GateRequest]
             \cup [pc: {"decided"}, request: GateRequest, entry: Entry]

GateShape ==
  /\ policy \in Policies
  /\ pending \in [Actions -> GateRequest \cup {None}]
  /\ audit \in Seq(Entry)
  /\ evaluating \in [Capsules -> GateCall]
  /\ sweep \in [Sweepers -> [at: Nat, stale: SUBSET GateRequest]]
  /\ gclock \in Nat
  /\ inForce \in [Capsules -> SUBSET Policies]

GateInv ==
  /\ GateShape
  /\ \A c \in Capsules : CallSound(c)
  /\ \A a \in Actions : ParkedSound(a)
  /\ \A s \in Sweepers : /\ IsFiniteSet(sweep[s].stale)
                         /\ \A r \in sweep[s].stale : PendingIn(audit, r)
  /\ \A i \in DOMAIN audit : EntrySound(i)
  /\ OneManualDecision

--------------------------------------------------------------------------------

\* An entry log_decision writes has the fields it was given.
LEMMA EntryFields ==
  ASSUME NEW r \in GateRequest, NEW d \in Decision, NEW b \in {"policy", "human", "timeout"},
         NEW t \in Nat
  PROVE  /\ NewEntry(r, d, b, t) \in Entry
         /\ NewEntry(r, d, b, t).request = r
         /\ NewEntry(r, d, b, t).decision = d
         /\ NewEntry(r, d, b, t).by = b
  BY GateBounds DEF NewEntry, Entry

\* A trail that only grows keeps its Pending decisions.
LEMMA TrailGrows ==
  ASSUME NEW t \in Seq(Entry), NEW u \in Seq(Entry), NEW n \in Nat, Len(t) = n, n <= Len(u),
         \A i \in 1..n : u[i] = t[i]
  PROVE  \A r : PendingIn(t, r) => PendingIn(u, r)
  BY DEF PendingIn

\* Entries already in the trail stay justified when the trail only grows, evaluations
\* only go forward and no request whose evaluation is over is parked anew.
LEMMA EntriesKept ==
  ASSUME GateInv, NEW n \in Nat, n = Len(audit),
         audit' \in Seq(Entry), \A i \in 1..n : audit'[i] = audit[i],
         \A c \in Capsules : evaluating[c].pc # "idle" =>
                                /\ evaluating'[c].pc # "idle"
                                /\ inForce[c] \subseteq inForce'[c],
         \A c \in Capsules : evaluating[c].pc = "done" => evaluating'[c].pc = "done",
         \A r \in GateRequest :
            evaluating[r.by].pc = "done" /\ ParkedIn(pending', r) => ParkedIn(pending, r)
  PROVE  \A i \in 1..n : EntrySound(i)'
  <1> SUFFICES ASSUME NEW i \in 1..n PROVE EntrySound(i)'
    BY Zenon
  <1>0. audit \in Seq(Entry) /\ \A k \in DOMAIN audit : EntrySound(k)
    BY Zenon DEF GateInv, GateShape
  <1>1. audit[i] \in Entry /\ EntrySound(i) /\ audit'[i] = audit[i]
    BY <1>0
  <1>2. audit[i].request \in GateRequest /\ audit[i].request.by \in Capsules
    BY <1>1, Zenon DEF Entry, GateRequest
  <1>3. audit'[i].by # "policy" => \E j \in 1..(i-1) : /\ audit'[j].decision = "Pending"
                                                       /\ audit'[j].request = audit'[i].request
    BY <1>1 DEF EntrySound
  <1>4. evaluating'[audit'[i].request.by].pc # "idle"
    BY <1>1, <1>2, Zenon DEF EntrySound
  <1>5. Explained(audit'[i], inForce')
    <2>1. inForce[audit[i].request.by] \subseteq inForce'[audit[i].request.by]
      BY <1>1, <1>2, Zenon DEF EntrySound
    <2> QED BY <1>1, <2>1, Zenon DEF EntrySound, Explained
  <1>6. IsManual(audit'[i]) => /\ evaluating'[audit'[i].request.by].pc = "done"
                               /\ ~ParkedIn(pending', audit'[i].request)
    BY <1>1, <1>2, Zenon DEF EntrySound
  <1> QED BY <1>3, <1>4, <1>5, <1>6, Zenon DEF EntrySound

\* What joining two trails returns (the entries of remove_stale are added together).
LEMMA TrailsJoin ==
  ASSUME NEW t \in Seq(Entry), NEW u \in Seq(Entry)
  PROVE  /\ t \o u \in Seq(Entry) /\ Len(t \o u) = Len(t) + Len(u)
         /\ Len(t) \in Nat /\ Len(u) \in Nat
         /\ \A i \in 1..Len(t) : (t \o u)[i] = t[i]
         /\ \A i \in 1..Len(u) : (t \o u)[Len(t) + i] = u[i]
  OBVIOUS

\* An empty gate satisfies GateInv.
LEMMA GateInitOK == GateInit => GateInv
  <1> SUFFICES ASSUME GateInit PROVE GateInv
    BY Zenon
  <1>1. GateShape
    BY GateBounds DEF GateInit, GateShape, GateCall, GateIdle, NoSweep
  <1>2. \A c \in Capsules : CallSound(c)
    BY Zenon DEF GateInit, CallSound
  <1>3. \A a \in Actions : ParkedSound(a)
    BY Zenon DEF GateInit, ParkedSound
  <1>4. \A s \in Sweepers : IsFiniteSet(sweep[s].stale) /\ sweep[s].stale = {}
    BY FS_EmptySet, Zenon DEF GateInit, NoSweep
  <1> QED
    BY <1>1, <1>2, <1>3, <1>4 DEF GateInit, GateInv, OneManualDecision

\* evaluate approves by itself only what the policy it read lets it approve.
LEMMA DecideOK ==
  ASSUME NEW p \in Policies, NEW r \in GateRequest
  PROVE  /\ Decide(p, r) \in Decision
         /\ Decide(p, r) = "Approved" =>
              \/ p = "ClassifiedOnly" /\ ~r.kind.classified
              \/ p = "Delegated" /\ r.kind.in_scope
  BY InputAssumption, Zenon DEF Decide, Decision

\* A proposed action has no entry yet.
LEMMA ProposeOK ==
  ASSUME GateInv, NEW c \in Capsules, Propose(c)
  PROVE  GateInv'
  <1> USE DEF GateInv
  <1>1. PICK a \in Actions, k \in Kinds :
           evaluating' = [evaluating EXCEPT ![c] =
             [pc |-> "proposed",
              request |-> [id |-> a, by |-> c, kind |-> k, submitted_at |-> gclock]]]
    BY Zenon DEF Propose
  <1> DEFINE r == [id |-> a, by |-> c, kind |-> k, submitted_at |-> gclock]
  <1>2. r \in GateRequest
    BY Zenon DEF GateRequest, GateShape
  <1>3. GateShape'
    BY <1>1, <1>2, Zenon DEF GateShape, Propose, GateCall
  <1>4. evaluating[c].pc = "idle"
    BY DEF Propose, GateIdle
  <1>5. \A d \in Capsules : d # c => evaluating'[d] = evaluating[d] /\ inForce'[d] = inForce[d]
    BY <1>1, Zenon DEF Propose, GateShape
  <1>6. /\ evaluating'[c] = [pc |-> "proposed", request |-> r]
        /\ policy \in inForce'[c]
    BY <1>1, Zenon DEF Propose, GateShape
  <1>7. ASSUME NEW d \in Capsules PROVE CallSound(d)'
    <2>1. CASE d = c
      <3>1. policy' = policy
        BY Zenon DEF Propose
      <3>2. /\ evaluating'[c] \in [pc: {"proposed", "recorded", "done"}, request: GateRequest]
            /\ evaluating'[c].request.by = c /\ evaluating'[c].pc = "proposed"
        BY <1>2, <1>6
      <3> QED BY <1>6, <2>1, <3>1, <3>2, Zenon DEF CallSound
    <2>2. CASE d # c
      BY <1>5, <2>2 DEF CallSound, Explained, Propose
    <2> QED BY <2>1, <2>2, Zenon
  <1>8. ASSUME NEW b \in Actions PROVE ParkedSound(b)'
    BY <1>4, <1>5 DEF ParkedSound, Propose, GateRequest
  <1>9. \A i \in DOMAIN audit : EntrySound(i)'
    <2>1. PICK n \in Nat : n = Len(audit) /\ DOMAIN audit = 1..n
      BY DEF GateShape
    <2>2. audit' = audit /\ pending' = pending /\ audit \in Seq(Entry)
      BY Zenon DEF Propose, GateShape
    <2>3. \A d \in Capsules : evaluating[d].pc # "idle" => d # c
      BY <1>4, Zenon
    <2> QED BY <1>5, <2>1, <2>2, <2>3, EntriesKept, Zenon
  <1> QED
    BY <1>3, <1>7, <1>8, <1>9, Zenon DEF Propose, OneManualDecision

\* evaluate reads the policy and decides; the policy it read becomes one in force.
LEMMA EvaluateOK ==
  ASSUME GateInv, NEW c \in Capsules, Evaluate(c)
  PROVE  GateInv'
  <1> USE DEF GateInv
  <1> DEFINE r == evaluating[c].request
             e == NewEntry(r, Decide(policy, r), "policy", gclock)
  <1>1. r \in GateRequest /\ r.by = c /\ policy \in inForce[c]
    BY DEF Evaluate, CallSound, GateIdle
  <1>2. /\ e \in Entry /\ e.request = r /\ e.by = "policy"
        /\ e.decision = Decide(policy, r)
    BY <1>1, DecideOK, EntryFields DEF GateShape
  <1>3. Explained(e, inForce)
    BY <1>1, <1>2, DecideOK, ZenonT(60) DEF Explained, GateShape
  <1>4. evaluating' = [evaluating EXCEPT ![c] = [pc |-> "decided", request |-> r, entry |-> e]]
    BY Zenon DEF Evaluate
  <1> HIDE DEF e, r
  <1>5. [pc |-> "decided", request |-> r, entry |-> e] \in
            [pc: {"decided"}, request: GateRequest, entry: Entry]
    BY <1>1, <1>2, Zenon
  <1>6. GateShape'
    BY <1>4, <1>5 DEF GateShape, GateCall, Evaluate
  <1>7. ASSUME NEW d \in Capsules PROVE CallSound(d)'
    <2>1. CASE d = c
      <3>1. evaluating'[d] = [pc |-> "decided", request |-> r, entry |-> e]
        BY <1>4, <2>1, Zenon DEF GateShape
      <3> QED BY <1>1, <1>2, <1>3, <1>5, <2>1, <3>1 DEF CallSound, Evaluate
    <2>2. CASE d # c
      BY <1>4, <2>2 DEF CallSound, Explained, Evaluate, GateShape
    <2> QED BY <2>1, <2>2, Zenon
  <1>8. ASSUME NEW b \in Actions PROVE ParkedSound(b)'
    BY <1>4, Zenon DEF ParkedSound, Evaluate, GateRequest, GateShape
  <1>9. \A i \in DOMAIN audit : EntrySound(i)'
    <2>1. PICK n \in Nat : n = Len(audit) /\ DOMAIN audit = 1..n
      BY DEF GateShape
    <2>2. audit' = audit /\ pending' = pending /\ audit \in Seq(Entry) /\ inForce' = inForce
      BY Zenon DEF Evaluate, GateShape
    <2>3. \A d \in Capsules : IF d = c THEN evaluating'[d].pc = "decided" /\ evaluating[d].pc # "done"
                                        ELSE evaluating'[d] = evaluating[d]
      BY <1>4 DEF Evaluate, GateShape
    <2> QED BY <2>1, <2>2, <2>3, EntriesKept, Zenon
  <1> QED
    BY <1>6, <1>7, <1>8, <1>9, Zenon DEF Evaluate, OneManualDecision

\* log_decision writes the entry of the decision just made.
LEMMA RecordDecisionOK ==
  ASSUME GateInv, NEW c \in Capsules, RecordDecision(c)
  PROVE  GateInv'
  <1> USE DEF GateInv
  <1> DEFINE r == evaluating[c].request
             e == evaluating[c].entry
             w == [pc |-> IF e.decision = "Pending" THEN "recorded" ELSE "done", request |-> r]
  <1>1. /\ r \in GateRequest /\ r.by = c /\ e \in Entry
        /\ e.request = r /\ e.by = "policy" /\ Explained(e, inForce)
    BY DEF RecordDecision, CallSound, GateIdle
  <1>2. audit' = Append(audit, e) /\ evaluating' = [evaluating EXCEPT ![c] = w]
    BY Zenon DEF RecordDecision
  <1>3. w \in [pc: {"proposed", "recorded", "done"}, request: GateRequest]
    BY <1>1, Zenon
  <1>4. evaluating[c].pc = "decided"
    BY Zenon DEF RecordDecision
  <1>5. w.request = r /\ w.pc \in {"recorded", "done"} /\ (w.pc = "recorded" => e.decision = "Pending")
    BY Zenon
  <1> HIDE DEF e, r, w
  <1>0. PICK n \in Nat : n = Len(audit)
    BY DEF GateShape
  <1>6. /\ audit \in Seq(Entry) /\ audit' \in Seq(Entry) /\ Len(audit') = n + 1
        /\ \A i \in 1..n : audit'[i] = audit[i]
        /\ audit'[n + 1] = e
    BY <1>0, <1>1, <1>2 DEF GateShape
  <1>7. \A q : PendingIn(audit, q) => PendingIn(audit', q)
    BY <1>0, <1>6, TrailGrows
  <1>8. GateShape'
    BY <1>2, <1>3, <1>6 DEF GateShape, GateCall, RecordDecision
  <1>9. \A d \in Capsules : d # c => evaluating'[d] = evaluating[d]
    BY <1>2, Zenon DEF GateShape
  <1>10. evaluating'[c] = w
    BY <1>2, Zenon DEF GateShape
  <1>11. ASSUME NEW d \in Capsules PROVE CallSound(d)'
    <2>1. CASE d = c
      <3>1. e.decision = "Pending" => PendingIn(audit', r)
        BY <1>0, <1>1, <1>6, SMTT(30) DEF PendingIn
      <3> QED BY <1>1, <1>3, <1>5, <1>10, <2>1, <3>1, Zenon DEF CallSound
    <2>2. CASE d # c
      BY <1>7, <1>9, <2>2 DEF CallSound, Explained, RecordDecision
    <2> QED BY <2>1, <2>2, Zenon
  <1>12. ASSUME NEW b \in Actions PROVE ParkedSound(b)'
    BY <1>4, <1>7, <1>9 DEF ParkedSound, RecordDecision, GateRequest
  <1>13. \A i \in 1..n : EntrySound(i)'
    <2>1. pending' = pending /\ inForce' = inForce
      BY Zenon DEF RecordDecision
    <2>2. \A d \in Capsules : IF d = c THEN evaluating'[d].pc # "idle" /\ evaluating[d].pc # "done"
                                        ELSE evaluating'[d] = evaluating[d]
      BY <1>4, <1>5, <1>9, <1>10, Zenon
    <2> QED BY <1>0, <1>6, <2>1, <2>2, EntriesKept, Zenon
  <1>14. EntrySound(n + 1)'
    <2>1. audit'[n + 1].by = "policy" /\ ~IsManual(audit'[n + 1])
      BY <1>1, <1>6, Zenon DEF IsManual
    <2>2. evaluating'[audit'[n + 1].request.by].pc # "idle"
      BY <1>1, <1>5, <1>6, <1>10, Zenon
    <2>3. Explained(audit'[n + 1], inForce')
      BY <1>1, <1>6, Zenon DEF RecordDecision
    <2> QED BY <2>1, <2>2, <2>3, Zenon DEF EntrySound
  <1>15. \A i \in DOMAIN audit' : EntrySound(i)'
    <2>1. \A i \in DOMAIN audit' : i \in 1..n \/ i = n + 1
      BY <1>6
    <2> QED BY <1>13, <1>14, <2>1, Zenon
  <1>16. OneManualDecision'
    BY <1>0, <1>1, <1>6 DEF OneManualDecision
  <1> QED
    BY <1>7, <1>8, <1>11, <1>12, <1>15, <1>16, Zenon DEF RecordDecision

\* Parking a Pending request comes after its Pending entry.
LEMMA ParkOK ==
  ASSUME GateInv, NEW c \in Capsules, Park(c)
  PROVE  GateInv'
  <1> USE DEF GateInv
  <1> DEFINE r == evaluating[c].request
  <1>1. /\ r \in GateRequest /\ r.by = c /\ PendingIn(audit, r) /\ r.id \in Actions
        /\ evaluating[c] \in [pc: {"proposed", "recorded", "done"}, request: GateRequest]
    BY DEF Park, CallSound, GateIdle, GateRequest
  <1>2. pending' = [pending EXCEPT ![r.id] = r]
    BY Zenon DEF Park
  <1>a. evaluating' = [evaluating EXCEPT ![c] = [evaluating[c] EXCEPT !.pc = "done"]]
    BY Zenon DEF Park, GateShape
  <1>b. [evaluating[c] EXCEPT !.pc = "done"] = [pc |-> "done", request |-> r]
    BY <1>1
  <1>3. /\ evaluating' = [evaluating EXCEPT ![c] = [pc |-> "done", request |-> r]]
        /\ evaluating'[c] = [pc |-> "done", request |-> r]
        /\ evaluating[c].pc = "recorded"
        /\ \A d \in Capsules : d # c => evaluating'[d] = evaluating[d]
    BY <1>a, <1>b, Zenon DEF Park, GateShape
  <1> HIDE DEF r
  <1>4. GateShape'
    BY <1>1, <1>2, <1>3 DEF GateShape, GateCall, Park
  <1>5. ASSUME NEW d \in Capsules PROVE CallSound(d)'
    <2>1. CASE d = c
      BY <1>1, <1>3, <2>1 DEF CallSound
    <2>2. CASE d # c
      BY <1>3, <2>2 DEF CallSound, Explained, Park
    <2> QED BY <2>1, <2>2, Zenon
  <1>6. ASSUME NEW b \in Actions PROVE ParkedSound(b)'
    <2>1. CASE b = r.id
      BY <1>1, <1>2, <1>3, <2>1 DEF ParkedSound, GateShape, Park
    <2>2. CASE b # r.id
      <3>1. pending'[b] = pending[b] /\ (pending[b] # None => pending[b].by \in Capsules)
        BY <1>1, <1>2, <2>2, Zenon DEF GateShape, GateRequest
      <3> QED BY <1>3, <3>1 DEF ParkedSound, Park
    <2> QED BY <2>1, <2>2, Zenon
  <1>7. \A i \in DOMAIN audit : EntrySound(i)'
    <2>1. PICK n \in Nat : n = Len(audit) /\ DOMAIN audit = 1..n
      BY DEF GateShape
    <2>2. audit' = audit /\ audit \in Seq(Entry) /\ inForce' = inForce
      BY Zenon DEF Park, GateShape
    <2>3. \A q \in GateRequest :
            evaluating[q.by].pc = "done" /\ ParkedIn(pending', q) => ParkedIn(pending, q)
      BY <1>1, <1>2, <1>3, Zenon DEF GateShape, ParkedIn
    <2>4. \A d \in Capsules : evaluating[d].pc # "idle" => evaluating'[d].pc # "idle"
      BY <1>3
    <2>5. \A d \in Capsules : evaluating[d].pc = "done" => evaluating'[d].pc = "done"
      BY <1>3, Zenon
    <2> QED BY <2>1, <2>2, <2>3, <2>4, <2>5, EntriesKept, Zenon
  <1> QED
    BY <1>4, <1>5, <1>6, <1>7, Zenon DEF Park, OneManualDecision

\* A change of policy adds to the policies in force during the evaluations under way.
LEMMA SetPolicyOK ==
  ASSUME GateInv, NEW p \in Policies, SetPolicy(p)
  PROVE  GateInv'
  <1> USE DEF GateInv
  <1>1. \A c \in Capsules : /\ inForce[c] \subseteq inForce'[c] /\ inForce'[c] \subseteq Policies
                            /\ evaluating[c].pc = "proposed" => p \in inForce'[c]
    BY Zenon DEF SetPolicy, GateShape
  <1>2. GateShape'
    <2>1. inForce' \in [Capsules -> SUBSET Policies]
      BY <1>1, Zenon DEF SetPolicy
    <2> QED BY <2>1, Zenon DEF GateShape, SetPolicy
  <1>3. ASSUME NEW d \in Capsules PROVE CallSound(d)'
    <2>1. evaluating'[d] = evaluating[d] /\ audit' = audit /\ policy' = p
      BY Zenon DEF SetPolicy
    <2>2. CASE evaluating[d].pc = "decided"
      <3>1. /\ evaluating[d] \in [pc: {"decided"}, request: GateRequest, entry: Entry]
            /\ evaluating[d].request.by = d
            /\ evaluating[d].entry.request = evaluating[d].request /\ evaluating[d].entry.by = "policy"
            /\ Explained(evaluating[d].entry, inForce)
        BY <2>2 DEF CallSound, GateIdle
      <3>2. Explained(evaluating[d].entry, inForce')
        BY <1>1, <3>1, Zenon DEF Explained
      <3> QED BY <2>1, <3>1, <3>2, Zenon DEF CallSound
    <2>3. CASE evaluating[d].pc # "decided"
      BY <1>1, <2>1, <2>3, Zenon DEF CallSound
    <2> QED BY <2>2, <2>3, Zenon
  <1>4. \A i \in DOMAIN audit : EntrySound(i)'
    <2>1. PICK n \in Nat : n = Len(audit) /\ DOMAIN audit = 1..n
      BY DEF GateShape
    <2>2. audit' = audit /\ audit \in Seq(Entry) /\ evaluating' = evaluating /\ pending' = pending
      BY Zenon DEF SetPolicy, GateShape
    <2> QED BY <1>1, <2>1, <2>2, EntriesKept, Zenon
  <1> QED
    BY <1>2, <1>3, <1>4, Zenon DEF SetPolicy, OneManualDecision, ParkedSound

\* approve, deny and escalate add an entry about a parked request, and no request is
\* parked by them; approve and deny take theirs away.
LEMMA HumanEntry ==
  ASSUME GateInv, NEW a \in Actions, pending[a] # None, NEW d \in Decision,
         audit' = Append(audit, NewEntry(pending[a], d, "human", gclock)),
         pending' \in [Actions -> GateRequest \cup {None}],
         \A b \in Actions : pending'[b] \in {pending[b], None},
         d # "Escalated" => pending'[a] = None,
         UNCHANGED <<policy, evaluating, sweep, gclock, inForce>>
  PROVE  GateInv'
  <1> USE DEF GateInv
  <1> DEFINE r == pending[a]
             e == NewEntry(pending[a], d, "human", gclock)
  <1>1. /\ r \in GateRequest /\ r.id = a /\ r.by \in Capsules /\ PendingIn(audit, r)
        /\ evaluating[r.by].pc = "done"
    BY Zenon DEF ParkedSound, GateRequest
  <1>2. e \in Entry /\ e.request = r /\ e.decision = d /\ e.by = "human"
    BY <1>1, EntryFields DEF GateShape
  <1>3. audit' = Append(audit, e)
    BY Zenon
  <1> HIDE DEF e
  <1>4. PICK n \in Nat : n = Len(audit)
    BY DEF GateShape
  <1>5. /\ audit \in Seq(Entry) /\ audit' \in Seq(Entry) /\ Len(audit') = n + 1
        /\ \A i \in 1..n : audit'[i] = audit[i]
        /\ audit'[n + 1] = e
    BY <1>2, <1>3, <1>4 DEF GateShape
  <1>6. \A q : PendingIn(audit, q) => PendingIn(audit', q)
    <2>1. n <= Len(audit')
      BY <1>5
    <2> QED BY <1>4, <1>5, <2>1, TrailGrows, Zenon
  <1>7. GateShape'
    BY <1>5, Zenon DEF GateShape
  <1>8. ASSUME NEW c \in Capsules PROVE CallSound(c)'
    BY <1>6, Zenon DEF CallSound, Explained
  <1>9. ASSUME NEW b \in Actions PROVE ParkedSound(b)'
    BY <1>6 DEF ParkedSound
  <1>10. \A i \in 1..n : EntrySound(i)'
    <2>1. \A q : ParkedIn(pending', q) => ParkedIn(pending, q)
      BY ZenonT(40) DEF ParkedIn
    <2> QED BY <1>4, <1>5, <2>1, EntriesKept, Zenon
  <1>11. EntrySound(n + 1)'
    <2>1. \E j \in 1..n : audit'[j].decision = "Pending" /\ audit'[j].request = r
      BY <1>1, <1>4, <1>5 DEF PendingIn
    <2>2. IsManual(e) => ~ParkedIn(pending', r)
      BY <1>1, <1>2 DEF IsManual, ParkedSound, ParkedIn
    <2>3. Explained(e, inForce')
      BY <1>2, Zenon DEF Explained
    <2>4. evaluating'[e.request.by].pc = "done"
      BY <1>1, <1>2, Zenon
    <2> HIDE DEF r
    <2> QED BY <1>2, <1>5, <2>1, <2>2, <2>3, <2>4, SMTT(30) DEF EntrySound
  <1>12. \A i \in DOMAIN audit' : EntrySound(i)'
    <2>1. \A i \in DOMAIN audit' : i \in 1..n \/ i = n + 1
      BY <1>5
    <2> QED BY <1>10, <1>11, <2>1, Zenon
  <1>13. OneManualDecision'
    <2>0. ParkedIn(pending, r)
      BY Zenon DEF ParkedIn
    <2>1. \A i \in 1..n : IsManual(audit[i]) => audit[i].request # r
      BY <1>4, <1>5, <2>0 DEF EntrySound
    <2>2. \A i, j \in 1..n : IsManual(audit[i]) /\ IsManual(audit[j])
                             /\ audit[i].request = audit[j].request => i = j
      BY <1>4, <1>5 DEF OneManualDecision, IsManual
    <2>3. \A i, j \in 1..(n + 1) : IsManual(audit'[i]) /\ IsManual(audit'[j])
                             /\ audit'[i].request = audit'[j].request => i = j
      BY <1>2, <1>5, <2>1, <2>2, SMTT(30)
    <2> QED BY <1>5, <2>3 DEF OneManualDecision, IsManual
  <1> QED
    BY <1>6, <1>7, <1>8, <1>9, <1>12, <1>13, Zenon

\* The first half of expire_stale only notes which requests are too old.
LEMMA CollectStaleOK ==
  ASSUME GateInv, NEW s \in Sweepers, CollectStale(s)
  PROVE  GateInv'
  <1> USE DEF GateInv
  <1> DEFINE found == {b \in Actions : pending[b] # None /\ Stale(pending[b])}
             stale == {pending[a] : a \in found}
  <1>1. sweep' = [sweep EXCEPT ![s] = [at |-> gclock, stale |-> stale]]
    BY Zenon DEF CollectStale
  <1>2. IsFiniteSet(stale)
    <2>1. IsFiniteSet(found)
      BY GateBounds, FS_Subset, Zenon
    <2>2. [a \in found |-> pending[a]] \in Surjection(found, stale)
      BY Zenon DEF Surjection
    <2> QED BY <2>1, <2>2, FS_Surjection, Zenon
  <1>3. stale \in SUBSET GateRequest /\ \A r \in stale : PendingIn(audit, r)
    BY Zenon DEF ParkedSound
  <1> HIDE DEF stale
  <1>4. GateShape'
    BY <1>1, <1>3 DEF GateShape, CollectStale
  <1>5. \A t \in Sweepers : /\ IsFiniteSet(sweep'[t].stale)
                            /\ \A r \in sweep'[t].stale : PendingIn(audit, r)
    BY <1>1, <1>2, <1>3, Zenon DEF GateShape
  <1>6. UNCHANGED <<policy, pending, audit, evaluating, inForce>>
    BY Zenon DEF CollectStale
  <1>7. \A c \in Capsules : CallSound(c)'
    BY <1>6, ZenonT(30) DEF CallSound, Explained
  <1>8. \A a \in Actions : ParkedSound(a)'
    BY <1>6, Zenon DEF ParkedSound
  <1>9. \A i \in DOMAIN audit' : EntrySound(i)'
    BY <1>6, ZenonT(30) DEF EntrySound, Explained
  <1> QED
    BY <1>4, <1>5, <1>6, <1>7, <1>8, <1>9, Zenon DEF OneManualDecision

\* The second half of expire_stale denies those it still finds.
LEMMA RemoveStaleOK ==
  ASSUME GateInv, NEW s \in Sweepers, RemoveStale(s)
  PROVE  GateInv'
  <1> USE DEF GateInv
  <1> DEFINE stale == sweep[s].stale
             m == Cardinality(stale)
  <1>1. /\ m \in Nat /\ stale \in SUBSET GateRequest /\ sweep[s].at \in Nat
        /\ \A r \in stale : PendingIn(audit, r)
    BY FS_CardinalityType, Zenon DEF GateShape
  <1>2. PICK order \in [1..m -> stale] :
           audit' = audit \o [i \in DOMAIN order |->
                                NewEntry(order[i], "Denied", "timeout", sweep[s].at)]
    BY Zenon DEF RemoveStale
  <1> DEFINE more == [i \in 1..m |-> NewEntry(order[i], "Denied", "timeout", sweep[s].at)]
  <1>3. \A i \in 1..m : /\ more[i] \in Entry /\ more[i].request \in stale
                        /\ more[i].by = "timeout"
    BY <1>1, EntryFields DEF Decision
  <1>a. DOMAIN order = 1..m
    BY Zenon
  <1>4. audit' = audit \o more
    BY <1>2, <1>a, Zenon
  <1>b. more \in Seq(Entry) /\ Len(more) = m
    <2>1. more \in [1..m -> Entry]
      BY <1>3, Zenon
    <2> HIDE DEF more, m
    <2> QED BY <1>1, <2>1, SMTT(30)
  <1>5. \A a \in Actions : pending'[a] \in {pending[a], None}
    BY Zenon DEF RemoveStale
  <1>6. pending' \in [Actions -> GateRequest \cup {None}]
    BY Zenon DEF RemoveStale, GateShape
  <1> HIDE DEF more, stale, m
  <1>7. PICK n \in Nat : n = Len(audit)
    BY DEF GateShape
  <1>8. /\ audit \in Seq(Entry) /\ audit' \in Seq(Entry) /\ Len(audit') = n + m
        /\ \A i \in 1..n : audit'[i] = audit[i]
        /\ \A i \in 1..m : audit'[n + i] = more[i]
    <2>1. audit \in Seq(Entry)
      BY Zenon DEF GateShape
    <2> QED BY <1>4, <1>b, <1>7, <2>1, TrailsJoin, Zenon
  <1>9. \A q : PendingIn(audit, q) => PendingIn(audit', q)
    <2>1. n <= Len(audit')
      BY <1>1, <1>8, SMTT(30)
    <2> QED BY <1>7, <1>8, <2>1, TrailGrows, Zenon
  <1>10. GateShape'
    <2>1. sweep' \in [Sweepers -> [at: Nat, stale: SUBSET GateRequest]]
      BY Zenon DEF RemoveStale, GateShape, NoSweep
    <2> QED BY <1>6, <1>8, <2>1, Zenon DEF GateShape, RemoveStale
  <1>11. ASSUME NEW c \in Capsules PROVE CallSound(c)'
    BY <1>9, Zenon DEF CallSound, Explained, RemoveStale
  <1>12. ASSUME NEW b \in Actions PROVE ParkedSound(b)'
    BY <1>5, <1>9, Zenon DEF ParkedSound, RemoveStale
  <1>13. \A t \in Sweepers : /\ IsFiniteSet(sweep'[t].stale)
                             /\ \A r \in sweep'[t].stale : PendingIn(audit', r)
    BY <1>9, FS_EmptySet, ZenonT(30) DEF RemoveStale, GateShape, NoSweep
  <1>14. \A i \in 1..n : EntrySound(i)'
    <2>1. \A q : ParkedIn(pending', q) => ParkedIn(pending, q)
      BY <1>5, Zenon DEF ParkedIn
    <2> QED BY <1>7, <1>8, <2>1, EntriesKept, Zenon DEF RemoveStale
  <1>15. ASSUME NEW i \in 1..m PROVE EntrySound(n + i)'
    <2> DEFINE e == audit'[n + i]
    <2>1. e.by = "timeout" /\ e.request \in stale /\ ~IsManual(e) /\ Explained(e, inForce')
      BY <1>3, <1>8, Zenon DEF IsManual, Explained
    <2>2. PICK j \in 1..n : audit'[j].decision = "Pending" /\ audit'[j].request = e.request
      <3>1. PendingIn(audit, e.request)
        BY <1>1, <2>1, Zenon
      <3> QED BY <1>7, <1>8, <3>1 DEF PendingIn
    <2>3. EntrySound(j)'
      BY <1>14, Zenon
    <2>4. evaluating'[e.request.by].pc # "idle"
      BY <2>2, <2>3, Zenon DEF EntrySound
    <2>5. n + i \in Nat /\ j \in 1..(n + i - 1)
      BY <1>1
    <2>6. \E k \in 1..((n + i) - 1) : /\ audit'[k].decision = "Pending"
                                      /\ audit'[k].request = audit'[n + i].request
      BY <2>2, <2>5
    <2> QED BY <2>1, <2>4, <2>6, Zenon DEF EntrySound
  <1>16. \A i \in DOMAIN audit' : i \in 1..n \/ \E k \in 1..m : i = n + k
    <2>1. m \in Nat /\ DOMAIN audit' = 1..(n + m)
      BY <1>1, <1>8
    <2>2. \A i \in 1..(n + m) : i \in 1..n \/ (i - n \in 1..m /\ i = n + (i - n))
      BY <2>1
    <2> QED BY <2>1, <2>2, Zenon
  <1>18. \A i \in DOMAIN audit' : EntrySound(i)'
    BY <1>14, <1>15, <1>16, Zenon
  <1>17. OneManualDecision'
    <2>1. \A i \in DOMAIN audit' : audit'[i].by = "human" => i \in 1..n
      BY <1>3, <1>8, <1>16, Zenon
    <2> QED BY <1>7, <1>8, <2>1 DEF OneManualDecision
  <1> QED
    BY <1>10, <1>11, <1>12, <1>13, <1>17, <1>18, Zenon

\* Every decision in the trail is justified, for every set of capsules, actions and
\* sweepers and whatever policies are set meanwhile: a decision of a person or of the
\* sweep answers a Pending one, people decide a submission once, and an approval by a
\* policy was given by one in force (evaluate, approve_manually, expire_stale_pending).
THEOREM AuditJustified == GateSpec => []DecisionsJustified
  <1>1. GateInv /\ [GateNext]_gateVars => GateInv'
    <2> SUFFICES ASSUME GateInv, [GateNext]_gateVars PROVE GateInv'
      BY Zenon
    <2>1. ASSUME NEW a \in Actions, NEW d \in {"Approved", "Denied"}, Resolve(a, d) PROVE GateInv'
      <3>1. \A b \in Actions : pending'[b] \in {pending[b], None}
        BY <2>1, Zenon DEF Resolve, GateInv, GateShape
      <3>2. pending' \in [Actions -> GateRequest \cup {None}] /\ pending'[a] = None
        BY <2>1, Zenon DEF Resolve, GateInv, GateShape
      <3> QED BY <2>1, <3>1, <3>2, HumanEntry, Zenon DEF Resolve, Decision
    <2>2. ASSUME NEW a \in Actions, Escalate(a) PROVE GateInv'
      <3>1. pending' \in [Actions -> GateRequest \cup {None}]
        BY <2>2, Zenon DEF Escalate, GateInv, GateShape
      <3> QED BY <2>2, <3>1, HumanEntry, Zenon DEF Escalate, Decision
    <2>3. CASE GateTick
      <3>1. GateShape'
        BY <2>3, SMTT(30) DEF GateInv, GateShape, GateTick
      <3>2. \A c \in Capsules : CallSound(c)'
        BY <2>3, Zenon DEF GateInv, GateTick, CallSound, Explained
      <3>3. \A i \in DOMAIN audit' : EntrySound(i)'
        BY <2>3, ZenonT(30) DEF GateInv, GateTick, EntrySound, Explained
      <3> QED BY <2>3, <3>1, <3>2, <3>3, Zenon DEF GateInv, GateTick, ParkedSound, OneManualDecision
    <2>4. CASE UNCHANGED gateVars
      <3>1. GateShape'
        BY <2>4, Zenon DEF GateInv, GateShape, gateVars
      <3>2. \A c \in Capsules : CallSound(c)'
        BY <2>4, Zenon DEF GateInv, gateVars, CallSound, Explained
      <3>3. \A i \in DOMAIN audit' : EntrySound(i)'
        BY <2>4, ZenonT(30) DEF GateInv, gateVars, EntrySound, Explained
      <3> QED BY <2>4, <3>1, <3>2, <3>3, Zenon DEF GateInv, gateVars, ParkedSound, OneManualDecision
    <2> QED
      BY <2>1, <2>2, <2>3, <2>4, ProposeOK, EvaluateOK, RecordDecisionOK, ParkOK, SetPolicyOK,
         CollectStaleOK, RemoveStaleOK, Zenon
      DEF GateNext, ApproveManually, DenyManually
  <1>2. GateInv => DecisionsJustified
    <2> SUFFICES ASSUME GateInv PROVE DecisionsJustified
      BY Zenon
    <2>1. GateTypeOK
      BY Zenon DEF GateInv, GateShape, GateTypeOK, ParkedSound
    <2>2. DecisionFollowsPending
      BY Zenon DEF GateInv, EntrySound, DecisionFollowsPending
    <2>3. AutoApprovalJustified
      BY Zenon DEF GateInv, EntrySound, Explained, AutoApprovalJustified
    <2> QED BY <2>1, <2>2, <2>3, Zenon DEF DecisionsJustified, GateInv
  <1> QED BY <1>1, <1>2, GateInitOK, PTL DEF GateSpec

--------------------------------------------------------------------------------
(* The exposures of network services.                                           *)

(* Network exposure: an expiry that a call read and still holds was approved.      *)

ExposureInv ==
    /\ TtlCosigned
    /\ \A t \in ExposureTasks : xtask[t].at \in {"activate", "beat"} => xtask[t].ttl \in cosigned
    /\ DOMAIN xtask = ExposureTasks

\* A public exposure ends at a time that a co-signer approved, for any number of
\* overlapping calls (activate_public, record_public_heartbeat).
THEOREM PublicEndsAsApproved == ExposureSpec => []TtlCosigned
<1>1. ExposureInit => ExposureInv
  BY DEF ExposureInit, ExposureInv, TtlCosigned, NoCall
<1>2. ExposureInv /\ [ExposureNext]_exposureVars => ExposureInv'
  <2> SUFFICES ASSUME ExposureInv, [ExposureNext]_exposureVars PROVE ExposureInv'
    BY Zenon
  <2> USE DEF ExposureInv, TtlCosigned, Enforce, ThenHistory, IsIdle
  <2>1. ASSUME NEW t \in ExposureTasks, RequestLan(t) PROVE ExposureInv'
    BY <2>1, Zenon DEF RequestLan
  <2>2. ASSUME NEW t \in ExposureTasks, ApplyLanPolicyDecision(t) PROVE ExposureInv'
    BY <2>2, Zenon DEF ApplyLanPolicyDecision
  <2>3. ASSUME NEW t \in ExposureTasks, ActivateLan(t) PROVE ExposureInv'
    BY <2>3, Zenon DEF ActivateLan
  <2>4. ASSUME NEW t \in ExposureTasks, RequestPublic(t) PROVE ExposureInv'
    BY <2>4, Zenon DEF RequestPublic
  <2>5. ASSUME NEW t \in ExposureTasks, NEW offset \in TtlOffsets,
               ApplyPublicCoSignerApproval(t, offset)
        PROVE ExposureInv'
    BY <2>5, Zenon DEF ApplyPublicCoSignerApproval
  <2>6. ASSUME NEW t \in ExposureTasks, NEW at, NEW from \in {"PublicApproved", "PublicActive"},
               ReadTtl(t, at, from)
        PROVE ExposureInv'
    BY <2>6 DEF ReadTtl
  <2>7. ASSUME NEW t \in ExposureTasks, ActivatePublic(t) PROVE ExposureInv'
    BY <2>7 DEF ActivatePublic, NoCall
  <2>8. ASSUME NEW t \in ExposureTasks, RecordPublicHeartbeat(t) PROVE ExposureInv'
    BY <2>8, Zenon DEF RecordPublicHeartbeat
  <2>9. ASSUME NEW t \in ExposureTasks, Revoke(t) PROVE ExposureInv'
    BY <2>9, Zenon DEF Revoke
  <2>10. ASSUME NEW t \in ExposureTasks, ResetToLoopback(t) PROVE ExposureInv'
    BY <2>10, Zenon DEF ResetToLoopback
  <2>11. ASSUME NEW t \in ExposureTasks, CheckHeartbeat(t) PROVE ExposureInv'
    BY <2>11 DEF CheckHeartbeat
  <2>12. ASSUME NEW t \in ExposureTasks, RevokeLapsed(t) PROVE ExposureInv'
    BY <2>12, Zenon DEF RevokeLapsed
  <2>13. ASSUME NEW t \in ExposureTasks, RecordTransition(t) PROVE ExposureInv'
    BY <2>13, Zenon DEF RecordTransition, NoCall
  <2>14. CASE ExposureTick
    BY <2>14, Zenon DEF ExposureTick
  <2>15. CASE UNCHANGED exposureVars
    BY <2>15, Zenon DEF exposureVars
  <2> QED
    BY <2>1, <2>2, <2>3, <2>4, <2>5, <2>6, <2>7, <2>8, <2>9, <2>10, <2>11, <2>12, <2>13, <2>14, <2>15, ZenonT(40)
    DEF ExposureNext
<1>3. ExposureInv => TtlCosigned
  BY Zenon DEF ExposureInv
<1> QED BY <1>1, <1>2, <1>3, PTL DEF ExposureSpec

\* A host becomes public without an approval only by a heartbeat that was under way
\* (transition_allowed, record_public_heartbeat).
THEOREM PublicOnlyWhenArmed == ExposureSpec => PublicIsArmed
<1>1. [ExposureNext]_exposureVars =>
        [exposure'.label = "PublicActive" /\ exposure.label \notin {"PublicApproved", "PublicActive"}
            => \E t \in ExposureTasks : xtask[t].at = "beat"]_exposureVars
  <2> SUFFICES ASSUME ExposureNext, exposure'.label = "PublicActive",
                      exposure.label \notin {"PublicApproved", "PublicActive"}
               PROVE  \E t \in ExposureTasks : xtask[t].at = "beat"
    BY Zenon DEF exposureVars
  <2> USE DEF Enforce, TransitionAllowed
  <2>1. ASSUME NEW t \in ExposureTasks,
               \/ RequestLan(t) \/ ApplyLanPolicyDecision(t) \/ ActivateLan(t) \/ RequestPublic(t)
               \/ Revoke(t) \/ ResetToLoopback(t) \/ RevokeLapsed(t)
        PROVE FALSE
    BY <2>1 DEF RequestLan, ApplyLanPolicyDecision, ActivateLan, RequestPublic, Revoke,
                ResetToLoopback, RevokeLapsed
  <2>2. ASSUME NEW t \in ExposureTasks, NEW offset \in TtlOffsets,
               ApplyPublicCoSignerApproval(t, offset)
        PROVE FALSE
    BY <2>2, Zenon DEF ApplyPublicCoSignerApproval
  <2>3. ASSUME NEW t \in ExposureTasks, ActivatePublic(t) PROVE FALSE
    BY <2>3, Zenon DEF ActivatePublic
  <2>4. ASSUME NEW t \in ExposureTasks, RecordPublicHeartbeat(t) PROVE xtask[t].at = "beat"
    BY <2>4, Zenon DEF RecordPublicHeartbeat
  <2>5. ASSUME UNCHANGED exposure PROVE FALSE
    BY <2>5, Zenon
  <2> QED
    BY <2>1, <2>2, <2>3, <2>4, <2>5, Zenon
    DEF ExposureNext, ReadTtl, CheckHeartbeat, RecordTransition, ExposureTick
<1> QED BY <1>1, PTL DEF ExposureSpec, PublicIsArmed

HistoryInv ==
    /\ balance \in [Labels -> Int]
    /\ exposure.label \in Labels
    /\ DOMAIN xtask = ExposureTasks
    /\ \A t \in ExposureTasks : xtask[t].at = "record" => xtask[t].from \in Labels /\ xtask[t].to \in Labels
    /\ HistoryBalances

\* The calls that have a transition to enter are finitely many.
LEMMA PendingIsFinite ==
    ASSUME NEW l
    PROVE  /\ IsFiniteSet(Arriving(l)) /\ Cardinality(Arriving(l)) \in Nat
           /\ IsFiniteSet(Leaving(l)) /\ Cardinality(Leaving(l)) \in Nat
<1>1. Arriving(l) \subseteq ExposureTasks /\ Leaving(l) \subseteq ExposureTasks
  BY Zenon DEF Arriving, Leaving
<1> QED BY <1>1, CallsAreFinite, FS_Subset, FS_CardinalityType, Zenon

\* A transition made under the state lock is owed to the history (enforce_transition).
LEMMA EnforceKeepsHistory ==
    ASSUME HistoryInv, NEW t \in ExposureTasks, NEW to \in Labels, xtask[t].at # "record",
           exposure'.label = to, ThenHistory(t, exposure.label, to), UNCHANGED balance
    PROVE  HistoryInv'
<1>0. /\ balance \in [Labels -> Int] /\ exposure.label \in Labels /\ DOMAIN xtask = ExposureTasks
      /\ \A s \in ExposureTasks : xtask[s].at = "record" => xtask[s].from \in Labels /\ xtask[s].to \in Labels
      /\ HistoryBalances
  BY Zenon DEF HistoryInv
<1>1. /\ DOMAIN xtask' = ExposureTasks
      /\ xtask'[t].at = "record" /\ xtask'[t].from = exposure.label /\ xtask'[t].to = to
      /\ \A s \in ExposureTasks \ {t} : xtask'[s] = xtask[s]
  BY <1>0, Zenon DEF ThenHistory
<1>2. \A s \in ExposureTasks : xtask'[s].at = "record" => xtask'[s].from \in Labels /\ xtask'[s].to \in Labels
  BY <1>0, <1>1, Zenon
<1>3. ASSUME NEW l \in Labels
      PROVE  balance'[l] + Cardinality(Arriving(l)') - Cardinality(Leaving(l)')
                = OneIf(l, exposure'.label) - OneIf(l, "Loopback")
  <2>1. PICK a : a = Arriving(l)
    BY Zenon
  <2>2. PICK b : b = Leaving(l)
    BY Zenon
  <2>3. /\ t \notin a /\ t \notin b
        /\ IsFiniteSet(a) /\ Cardinality(a) \in Nat /\ IsFiniteSet(b) /\ Cardinality(b) \in Nat
    BY <2>1, <2>2, PendingIsFinite, ZenonT(40) DEF Arriving, Leaving
  <2>4. Arriving(l)' = (IF l = to THEN a \cup {t} ELSE a)
    BY <1>1, <2>1 DEF Arriving
  <2>5. Leaving(l)' = (IF l = exposure.label THEN b \cup {t} ELSE b)
    BY <1>1, <2>2 DEF Leaving
  <2>6. Cardinality(a \cup {t}) = Cardinality(a) + 1 /\ Cardinality(b \cup {t}) = Cardinality(b) + 1
    BY <2>3, FS_AddElement, Zenon
  <2>7. PICK m \in Nat, n \in Nat : m = Cardinality(a) /\ n = Cardinality(b)
    BY <2>3, Zenon
  <2>8. Cardinality(Arriving(l)') = m + OneIf(l, to)
    BY <2>4, <2>6, <2>7 DEF OneIf
  <2>9. Cardinality(Leaving(l)') = n + OneIf(l, exposure.label)
    BY <2>5, <2>6, <2>7 DEF OneIf
  <2>10. balance[l] + m - n = OneIf(l, exposure.label) - OneIf(l, "Loopback") /\ balance[l] \in Int
    BY <1>0, <2>1, <2>2, <2>7, Zenon DEF HistoryBalances
  <2>11. OneIf(l, to) \in Int /\ OneIf(l, exposure.label) \in Int /\ OneIf(l, "Loopback") \in Int
    BY DEF OneIf
  <2> QED BY <2>7, <2>8, <2>9, <2>10, <2>11
<1> QED BY <1>0, <1>1, <1>2, <1>3, Zenon DEF HistoryInv, HistoryBalances

\* Entering a transition settles it (record_transition).
LEMMA RecordKeepsHistory ==
    ASSUME HistoryInv, NEW t \in ExposureTasks, RecordTransition(t)
    PROVE  HistoryInv'
<1>0. /\ balance \in [Labels -> Int] /\ exposure.label \in Labels /\ DOMAIN xtask = ExposureTasks
      /\ \A s \in ExposureTasks : xtask[s].at = "record" => xtask[s].from \in Labels /\ xtask[s].to \in Labels
      /\ HistoryBalances
  BY Zenon DEF HistoryInv
<1>1. /\ DOMAIN xtask' = ExposureTasks /\ xtask[t].at = "record" /\ xtask'[t].at = "idle"
      /\ \A s \in ExposureTasks \ {t} : xtask'[s] = xtask[s]
      /\ exposure' = exposure
      /\ balance' = [l \in Labels |-> balance[l] + OneIf(l, xtask[t].to) - OneIf(l, xtask[t].from)]
  BY <1>0, Zenon DEF RecordTransition, NoCall
<1>2. \A s \in ExposureTasks : xtask'[s].at = "record" => xtask'[s].from \in Labels /\ xtask'[s].to \in Labels
  BY <1>0, <1>1, Zenon
<1>3. \A l, m : OneIf(l, m) \in Int
  BY DEF OneIf
<1>4. balance' \in [Labels -> Int]
  BY <1>0, <1>1, <1>3
<1>5. ASSUME NEW l \in Labels
      PROVE  balance'[l] + Cardinality(Arriving(l)') - Cardinality(Leaving(l)')
                = OneIf(l, exposure'.label) - OneIf(l, "Loopback")
  <2>1. PICK a : a = Arriving(l)
    BY Zenon
  <2>2. PICK b : b = Leaving(l)
    BY Zenon
  <2>3. /\ IsFiniteSet(a) /\ Cardinality(a) \in Nat /\ IsFiniteSet(b) /\ Cardinality(b) \in Nat
        /\ t \in a <=> l = xtask[t].to
        /\ t \in b <=> l = xtask[t].from
    BY <1>1, <2>1, <2>2, PendingIsFinite, Zenon DEF Arriving, Leaving
  <2>4. Arriving(l)' = a \ {t} /\ Leaving(l)' = b \ {t}
    BY <1>1, <2>1, <2>2, Zenon DEF Arriving, Leaving
  <2>5. /\ Cardinality(a \ {t}) = (IF t \in a THEN Cardinality(a) - 1 ELSE Cardinality(a))
        /\ Cardinality(b \ {t}) = (IF t \in b THEN Cardinality(b) - 1 ELSE Cardinality(b))
    BY <2>3, FS_RemoveElement, Zenon
  <2>6. PICK m \in Nat, n \in Nat : m = Cardinality(a) /\ n = Cardinality(b)
    BY <2>3, Zenon
  <2>7. Cardinality(Arriving(l)') = m - OneIf(l, xtask[t].to)
    BY <2>3, <2>4, <2>5, <2>6 DEF OneIf
  <2>8. Cardinality(Leaving(l)') = n - OneIf(l, xtask[t].from)
    BY <2>3, <2>4, <2>5, <2>6 DEF OneIf
  <2>9. balance[l] + m - n = OneIf(l, exposure.label) - OneIf(l, "Loopback") /\ balance[l] \in Int
    BY <1>0, <2>1, <2>2, <2>6, Zenon DEF HistoryBalances
  <2>10. balance'[l] = balance[l] + OneIf(l, xtask[t].to) - OneIf(l, xtask[t].from)
    BY <1>1, Zenon
  <2> QED BY <1>1, <1>3, <2>6, <2>7, <2>8, <2>9, <2>10
<1> QED BY <1>0, <1>1, <1>2, <1>4, <1>5, Zenon DEF HistoryInv, HistoryBalances

\* The history is a path to the present state as soon as the calls have entered their
\* transitions, in whatever order they do (record_transition).
THEOREM HistoryAccounts == ExposureSpec => []HistoryBalances
<1>1. ExposureInit => HistoryInv
  <2> SUFFICES ASSUME ExposureInit PROVE HistoryInv
    BY Zenon
  <2>1. \A l : Arriving(l) = {} /\ Leaving(l) = {}
    BY Zenon DEF ExposureInit, Arriving, Leaving, NoCall
  <2>2. HistoryBalances
    BY <2>1, FS_EmptySet DEF ExposureInit, HistoryBalances, OneIf
  <2> QED BY <2>2 DEF ExposureInit, HistoryInv, Labels, NoCall
<1>2. HistoryInv /\ [ExposureNext]_exposureVars => HistoryInv'
  <2> SUFFICES ASSUME HistoryInv, [ExposureNext]_exposureVars PROVE HistoryInv'
    BY Zenon
  <2>1. ASSUME NEW t \in ExposureTasks, NEW to \in Labels, NEW heartbeat, NEW ttl,
               xtask[t].at # "record", Enforce(t, to, heartbeat, ttl), UNCHANGED balance
        PROVE  HistoryInv'
    BY <2>1, EnforceKeepsHistory, Zenon DEF Enforce
  \* A call that neither enters a transition nor owes one.
  <2>2. ASSUME \A t \in ExposureTasks : \/ xtask'[t] = xtask[t]
                                        \/ xtask[t].at # "record" /\ xtask'[t].at # "record",
               DOMAIN xtask' = ExposureTasks, exposure' = exposure, UNCHANGED balance
        PROVE  HistoryInv'
    <3>1. \A l : Arriving(l)' = Arriving(l) /\ Leaving(l)' = Leaving(l)
      BY <2>2, Zenon DEF Arriving, Leaving
    <3> QED BY <2>2, <3>1, Zenon DEF HistoryInv, HistoryBalances
  <2>3. ASSUME NEW t \in ExposureTasks,
               \/ RequestLan(t) \/ ApplyLanPolicyDecision(t) \/ ActivateLan(t) \/ RequestPublic(t)
               \/ Revoke(t) \/ ResetToLoopback(t) \/ RevokeLapsed(t)
        PROVE  HistoryInv'
    BY <2>1, <2>3, Zenon DEF RequestLan, ApplyLanPolicyDecision, ActivateLan, RequestPublic, Revoke,
                      ResetToLoopback, RevokeLapsed, IsIdle, Labels
  <2>4. ASSUME NEW t \in ExposureTasks, NEW offset \in TtlOffsets, ApplyPublicCoSignerApproval(t, offset)
        PROVE  HistoryInv'
    BY <2>1, <2>4, Zenon DEF ApplyPublicCoSignerApproval, IsIdle, Labels
  <2>5. ASSUME NEW t \in ExposureTasks, NEW at \in {"activate", "beat"}, NEW from, ReadTtl(t, at, from)
        PROVE  HistoryInv'
    <3>1. DOMAIN xtask = ExposureTasks /\ xtask[t].at = "idle" /\ exposure' = exposure /\ balance' = balance
          /\ xtask' = [xtask EXCEPT ![t].at = at, ![t].ttl = exposure.ttl]
      BY <2>5, Zenon DEF ReadTtl, IsIdle, HistoryInv
    <3> QED BY <2>2, <3>1
  <2>6. ASSUME NEW t \in ExposureTasks, ActivatePublic(t) PROVE HistoryInv'
    <3>1. CASE Enforce(t, "PublicActive", xclock, xtask[t].ttl)
      BY <2>1, <2>6, <3>1, Zenon DEF ActivatePublic, Labels
    <3>2. CASE xtask' = [xtask EXCEPT ![t] = NoCall] /\ UNCHANGED exposure
      BY <2>2, <2>6, <3>2, Zenon DEF ActivatePublic, NoCall, HistoryInv
    <3> QED BY <2>6, <3>1, <3>2, Zenon DEF ActivatePublic
  <2>7. ASSUME NEW t \in ExposureTasks, RecordPublicHeartbeat(t) PROVE HistoryInv'
    BY <2>7, EnforceKeepsHistory, Zenon DEF RecordPublicHeartbeat, Labels
  <2>8. ASSUME NEW t \in ExposureTasks, CheckHeartbeat(t) PROVE HistoryInv'
    <3>1. DOMAIN xtask = ExposureTasks /\ xtask[t].at = "idle" /\ exposure' = exposure /\ balance' = balance
          /\ xtask' = [xtask EXCEPT ![t].at = "lapse"]
      BY <2>8, Zenon DEF CheckHeartbeat, IsIdle, HistoryInv
    <3> QED BY <2>2, <3>1
  <2>9. CASE ExposureTick \/ UNCHANGED exposureVars
    BY <2>2, <2>9, Zenon DEF ExposureTick, exposureVars, HistoryInv
  <2> QED BY <2>3, <2>4, <2>5, <2>6, <2>7, <2>8, <2>9, RecordKeepsHistory, Zenon DEF ExposureNext
<1>3. HistoryInv => HistoryBalances
  BY Zenon DEF HistoryInv
<1> QED BY <1>1, <1>2, <1>3, PTL DEF ExposureSpec

--------------------------------------------------------------------------------
(* The override broker.                                                             *)

BindingStates == {"NONE", "GRANTED", "CONSUMED", "REVOKED", "EXPIRED"}

OverrideInv ==
    /\ ovrNow \in Nat
    /\ bindings \in [Bindings -> [state : BindingStates, expires : Nat, consumed : 0..1]]
    /\ \A b \in Bindings : bindings[b].state \in {"NONE", "GRANTED"} => bindings[b].consumed = 0

\* OverrideInv is inductive: no operation leads back to NONE or GRANTED.
LEMMA OverrideInductive == OverrideInv /\ [OverrideNext]_ovrVars => OverrideInv'
<1> SUFFICES ASSUME OverrideInv, [OverrideNext]_ovrVars PROVE OverrideInv'
  BY Zenon
<1>0. /\ ovrNow \in Nat
      /\ bindings \in [Bindings -> [state : BindingStates, expires : Nat, consumed : 0..1]]
      /\ \A b \in Bindings : bindings[b].state \in {"NONE", "GRANTED"} => bindings[b].consumed = 0
  BY Zenon DEF OverrideInv
<1>1. \A b \in Bindings : /\ Expiry(bindings[b]) \in [state : BindingStates, expires : Nat, consumed : 0..1]
                          /\ Expiry(bindings[b]).consumed = bindings[b].consumed
                          /\ Expiry(bindings[b]).state \in {bindings[b].state, "EXPIRED"}
  BY <1>0, Zenon DEF Expiry, BindingStates
<1>2. CASE OverrideTick
  BY <1>0, <1>2 DEF OverrideTick, OverrideInv
<1>3. CASE ListOverrides
  <2>1. bindings' = [b \in Bindings |-> Expiry(bindings[b])] /\ ovrNow' = ovrNow
    BY <1>3, Zenon DEF ListOverrides
  <2> QED BY <1>0, <1>1, <2>1, Zenon DEF OverrideInv
<1>4. ASSUME NEW b \in Bindings, LookupOverride(b) PROVE OverrideInv'
  <2>1. bindings' = [bindings EXCEPT ![b] = Expiry(bindings[b])] /\ ovrNow' = ovrNow
    BY <1>4, Zenon DEF LookupOverride
  <2> QED BY <1>0, <1>1, <2>1, Zenon DEF OverrideInv
<1>5. ASSUME NEW p \in OverrideTasks, EmitOverrideReceipt(p) PROVE OverrideInv'
  BY <1>0, <1>5, Zenon DEF EmitOverrideReceipt, OverrideInv
<1>6. ASSUME NEW p \in OverrideTasks, NEW b \in Bindings, ConsumeOverride(p, b) PROVE OverrideInv'
  <2>1. CASE Expired(bindings[b])
    <3>1. bindings' = [bindings EXCEPT ![b] = Expiry(bindings[b])] /\ ovrNow' = ovrNow
      BY <1>6, <2>1, Zenon DEF ConsumeOverride
    <3> QED BY <1>0, <1>1, <3>1, Zenon DEF OverrideInv
  <2>2. CASE ~Expired(bindings[b])
    <3>1. bindings' = [bindings EXCEPT ![b].state = "CONSUMED", ![b].consumed = @ + 1] /\ ovrNow' = ovrNow
      BY <1>6, <2>2, Zenon DEF ConsumeOverride
    <3> QED BY <1>0, <3>1 DEF OverrideInv, BindingStates
  <2> QED BY <2>1, <2>2, Zenon
<1>7. ASSUME NEW p \in OverrideTasks, NEW b \in Bindings, RevokeOverride(p, b) PROVE OverrideInv'
  BY <1>0, <1>7, Zenon DEF RevokeOverride, OverrideInv, BindingStates
<1>8. ASSUME NEW p \in OverrideTasks, NEW b \in Bindings, NEW class, NEW types,
             NEW expires \in 1..OverrideMaxNow, GrantOverride(p, b, class, types, expires)
      PROVE  OverrideInv'
  <2>1. expires \in Nat
    BY OverrideClockBounded
  <2>2. bindings' = [bindings EXCEPT ![b].state = "GRANTED", ![b].expires = expires]
        /\ bindings[b].state = "NONE" /\ ovrNow' = ovrNow
    BY <1>8, Zenon DEF GrantOverride
  <2> QED BY <1>0, <2>1, <2>2, Zenon DEF OverrideInv, BindingStates
<1>9. CASE UNCHANGED ovrVars
  BY <1>0, <1>9, Zenon DEF ovrVars, OverrideInv
<1> QED BY <1>2, <1>3, <1>4, <1>5, <1>6, <1>7, <1>8, <1>9, Zenon DEF OverrideNext

\* A binding is consumed once and while it is live, however many callers race for it
\* (consume_override).
THEOREM ConsumedOnceLive == OverrideSpec => []OverrideTypeOK /\ ConsumedWhileLive
<1>1. OverrideInit => OverrideInv
  BY DEF OverrideInit, OverrideInv, BindingStates
<1>2. OverrideInv /\ [OverrideNext]_ovrVars =>
        \A b \in Bindings :
          bindings'[b].consumed # bindings[b].consumed =>
              /\ bindings[b].state = "GRANTED"
              /\ bindings[b].consumed = 0
              /\ ovrNow < bindings[b].expires
  <2> SUFFICES ASSUME OverrideInv, [OverrideNext]_ovrVars, NEW b \in Bindings,
                      bindings'[b].consumed # bindings[b].consumed
               PROVE  /\ bindings[b].state = "GRANTED" /\ bindings[b].consumed = 0
                      /\ ovrNow < bindings[b].expires
    BY Zenon
  <2>0. /\ ovrNow \in Nat
        /\ bindings \in [Bindings -> [state : BindingStates, expires : Nat, consumed : 0..1]]
        /\ \A d \in Bindings : bindings[d].state \in {"NONE", "GRANTED"} => bindings[d].consumed = 0
    BY Zenon DEF OverrideInv
  <2>1. \A d \in Bindings : Expiry(bindings[d]).consumed = bindings[d].consumed
    BY <2>0, Zenon DEF Expiry
  <2>2. ASSUME NEW p \in OverrideTasks, NEW d \in Bindings, ConsumeOverride(p, d)
        PROVE  d = b /\ ~Expired(bindings[b]) /\ bindings[b].state = "GRANTED"
    <3>1. CASE Expired(bindings[d])
      <4>1. bindings' = [bindings EXCEPT ![d] = Expiry(bindings[d])]
        BY <2>2, <3>1, Zenon DEF ConsumeOverride
      <4> QED BY <2>0, <2>1, <4>1, Zenon
    <3>2. CASE ~Expired(bindings[d])
      <4>1. bindings' = [bindings EXCEPT ![d].state = "CONSUMED", ![d].consumed = @ + 1]
            /\ bindings[d].state = "GRANTED"
        BY <2>2, <3>2, Zenon DEF ConsumeOverride
      <4> QED BY <2>0, <3>2, <4>1, Zenon
    <3> QED BY <3>1, <3>2, Zenon
  <2>3. ASSUME ListOverrides PROVE FALSE
    BY <2>0, <2>1, <2>3, Zenon DEF ListOverrides
  <2>4. ASSUME NEW d \in Bindings, LookupOverride(d) PROVE FALSE
    BY <2>0, <2>1, <2>4, Zenon DEF LookupOverride
  <2>5. ASSUME NEW p \in OverrideTasks, NEW d \in Bindings, RevokeOverride(p, d) PROVE FALSE
    BY <2>0, <2>5, Zenon DEF RevokeOverride
  <2>6. ASSUME NEW p \in OverrideTasks, NEW d \in Bindings, NEW class, NEW types, NEW expires,
               GrantOverride(p, d, class, types, expires) PROVE FALSE
    BY <2>0, <2>6, Zenon DEF GrantOverride
  <2>7. \E p \in OverrideTasks, d \in Bindings : ConsumeOverride(p, d)
    BY <2>3, <2>4, <2>5, <2>6, Zenon DEF OverrideNext, ovrVars, OverrideTick, EmitOverrideReceipt
  <2>8. bindings[b].state = "GRANTED" /\ ~Expired(bindings[b])
    BY <2>2, <2>7, Zenon
  <2> QED BY <2>0, <2>8 DEF Expired
<1>3. OverrideInv => OverrideTypeOK
  BY Zenon DEF OverrideInv, OverrideTypeOK, BindingStates
<1> QED BY <1>1, <1>2, <1>3, OverrideInductive, PTL DEF OverrideSpec, ConsumedWhileLive

--------------------------------------------------------------------------------
\* Membership

\* Before its enrolment a member's events are exactly its path; afterwards they end in
\* its state.
PathTold(st, e) ==
    /\ st = "ABSENT" => e = <<>>
    /\ st # "ABSENT" => Len(e) > 0 /\ e[Len(e)] = st
    /\ st = "DISCOVERED" => Len(e) = 1
    /\ st = "INVITED" => Len(e) = 2 /\ e[1] = "DISCOVERED"
    /\ st = "ATTESTING" => Len(e) = 3 /\ e[1] = "DISCOVERED" /\ e[2] = "INVITED"
    /\ \A i \in 1..Len(e) : e[i] = "ENROLLED" =>
          i = 4 /\ e[1] = "DISCOVERED" /\ e[2] = "INVITED" /\ e[3] = "ATTESTING"

MemberEvents(m) == PathTold(memberState[m], events[m])

EventsInv ==
    /\ memberState \in [Members -> MemberStates \cup {"ABSENT"}]
    /\ events \in [Members -> Seq(MemberStates)]
    /\ \A m \in Members : MemberEvents(m)

\* One more event along an edge of the table keeps PathTold.
LEMMA PathGrows ==
    ASSUME NEW st \in MemberStates, NEW to \in MemberStates, NEW e \in Seq(MemberStates),
           PathTold(st, e), MayMove(st, to)
    PROVE  PathTold(to, Append(e, to))
<1>1. /\ Len(Append(e, to)) = Len(e) + 1
      /\ Append(e, to)[Len(e) + 1] = to
      /\ \A i \in 1..Len(e) : Append(e, to)[i] = e[i]
      /\ Len(e) \in Nat
  OBVIOUS
<1>2. PICK f : f = Append(e, to)
  BY Zenon
<1>3. Len(e) > 0 /\ e[Len(e)] = st
  BY Zenon DEF PathTold, MemberStates
<1>4. Len(f) = Len(e) + 1 /\ f[Len(e) + 1] = to /\ \A i \in 1..Len(e) : f[i] = e[i]
  BY <1>1, <1>2, Zenon
<1>5. ASSUME NEW i \in 1..Len(f), f[i] = "ENROLLED"
      PROVE  i = 4 /\ f[1] = "DISCOVERED" /\ f[2] = "INVITED" /\ f[3] = "ATTESTING"
  <2>1. CASE i \in 1..Len(e)
    <3>1. e[i] = "ENROLLED"
      BY <1>4, <1>5, <2>1, Zenon
    <3>2. i = 4 /\ e[1] = "DISCOVERED" /\ e[2] = "INVITED" /\ e[3] = "ATTESTING"
      BY <2>1, <3>1, Zenon DEF PathTold
    <3> QED BY <1>1, <1>4, <2>1, <3>2
  <2>2. CASE i = Len(e) + 1
    <3>1. st = "ATTESTING"
      BY <1>4, <1>5, <2>2, Zenon DEF MayMove
    <3>2. Len(e) = 3 /\ e[1] = "DISCOVERED" /\ e[2] = "INVITED" /\ e[3] = "ATTESTING"
      BY <1>3, <3>1, Zenon DEF PathTold
    <3> QED BY <1>4, <2>2, <3>2
  <2> QED BY <1>1, <1>4, <2>1, <2>2
<1>6. to = "INVITED" => Len(e) = 1 /\ e[1] = "DISCOVERED"
  BY <1>3, Zenon DEF PathTold, MayMove
<1>7. to = "ATTESTING" => Len(e) = 2 /\ e[1] = "DISCOVERED" /\ e[2] = "INVITED"
  BY <1>3, Zenon DEF PathTold, MayMove
<1>8. to # "ABSENT" /\ to # "DISCOVERED"
  BY Zenon DEF MayMove, MemberStates
<1>9. PathTold(to, f)
  BY <1>1, <1>4, <1>5, <1>6, <1>7, <1>8 DEF PathTold
<1> QED BY <1>2, <1>9, Zenon

\* transition_to followed by its event keeps EventsInv, for every target state.
LEMMA MoveKeepsEvents ==
    ASSUME EventsInv, NEW m \in Members, NEW to \in MemberStates, MoveTo(m, to)
    PROVE  EventsInv'
<1>1. /\ memberState' \in [Members -> MemberStates \cup {"ABSENT"}]
      /\ events' \in [Members -> Seq(MemberStates)]
  BY DEF EventsInv, MoveTo
<1>2. events'[m] = Append(events[m], to) /\ memberState'[m] = to
  BY Zenon DEF EventsInv, MoveTo
<1>3. /\ events[m] \in Seq(MemberStates) /\ memberState[m] \in MemberStates
      /\ MemberEvents(m) /\ MayMove(memberState[m], to)
  BY Zenon DEF EventsInv, MoveTo
<1>4. MemberEvents(m)'
  BY <1>2, <1>3, PathGrows, Zenon DEF MemberEvents
<1>5. ASSUME NEW n \in Members, n # m PROVE MemberEvents(n)'
  <2>1. events'[n] = events[n] /\ memberState'[n] = memberState[n] /\ MemberEvents(n)
    BY <1>5, Zenon DEF EventsInv, MoveTo
  <2> QED BY <2>1, Zenon DEF MemberEvents
<1> QED BY <1>1, <1>4, <1>5, Zenon DEF EventsInv

\* The events of a membership tell its state, and nobody is enrolled without having
\* been discovered, invited and attested, in that order.
THEOREM EventsTellTheState == FleetSpec => []EventsTellState
<1>1. FleetInit => EventsInv
  <2>1. Len(<<>>) = 0
    BY Zenon
  <2> QED BY <2>1 DEF FleetInit, EventsInv, MemberEvents, PathTold, MemberStates
<1>2. EventsInv /\ [FleetNext]_fleetVars => EventsInv'
  <2> SUFFICES ASSUME EventsInv, [FleetNext]_fleetVars PROVE EventsInv'
    BY Zenon
  <2>1. ASSUME memberState' = memberState, events' = events PROVE EventsInv'
    BY <2>1, Zenon DEF EventsInv, MemberEvents
  <2>2. ASSUME NEW m \in Members, Discover(m) PROVE EventsInv'
    <3>1. /\ memberState'[m] = "DISCOVERED" /\ events'[m] = <<"DISCOVERED">>
          /\ \A n \in Members \ {m} : memberState'[n] = memberState[n] /\ events'[n] = events[n]
          /\ memberState' \in [Members -> MemberStates \cup {"ABSENT"}]
          /\ events' \in [Members -> Seq(MemberStates)]
      BY <2>2 DEF Discover, EventsInv, MemberStates
    <3>2. Len(<<"DISCOVERED">>) = 1 /\ <<"DISCOVERED">>[1] = "DISCOVERED"
      BY Zenon
    <3>3. MemberEvents(m)'
      BY <3>1, <3>2 DEF MemberEvents, PathTold
    <3>4. \A n \in Members \ {m} : MemberEvents(n)'
      BY <3>1, Zenon DEF MemberEvents, EventsInv
    <3> QED BY <3>1, <3>3, <3>4, Zenon DEF EventsInv
  <2>3. ASSUME NEW m \in Members,
               \/ Invite(m) \/ Attest(m) \/ Enroll(m) \/ Suspend(m) \/ Quarantine(m)
               \/ Withdraw(m) \/ EnforcePostureFloor(m)
               \/ \E k \in 0..MaxSignatures : Expel(m, k)
        PROVE  EventsInv'
    BY <2>3, MoveKeepsEvents, Zenon DEF Invite, Attest, Enroll, Suspend, Quarantine, Withdraw,
       EnforcePostureFloor, Expel, MemberStates
  <2>4. ASSUME NEW m \in Members, NEW s \in 0..MaxScore, SetPostureScore(m, s) PROVE EventsInv'
    BY <2>1, <2>4, Zenon DEF SetPostureScore
  <2> QED BY <2>1, <2>2, <2>3, <2>4, Zenon DEF FleetNext, fleetVars
<1>3. EventsInv => EventsTellState
  <2> SUFFICES ASSUME EventsInv, NEW m \in Members
               PROVE  /\ memberState[m] # "ABSENT" => events[m][Len(events[m])] = memberState[m]
                      /\ \A i \in DOMAIN events[m] : events[m][i] = "ENROLLED" =>
                            /\ i = 4
                            /\ events[m][1] = "DISCOVERED"
                            /\ events[m][2] = "INVITED"
                            /\ events[m][3] = "ATTESTING"
    BY Zenon DEF EventsTellState
  <2>1. DOMAIN events[m] = 1..Len(events[m])
    BY DEF EventsInv
  <2> QED BY <2>1 DEF EventsInv, MemberEvents, PathTold
<1> QED BY <1>1, <1>2, <1>3, PTL DEF FleetSpec
==================================================================================
