------------------------------ MODULE RuntimeProofs ------------------------------
(* Proofs about the capability runtime, for any number of calls, actions,       *)
(* envelopes and bindings. RuntimeInv says, for each stage of the pipeline,     *)
(* which status a call has and which receipts it has to its name (in its chain, *)
(* or still to emit); what the sink knows of each binding; what an execution in *)
(* the log rests on; and what justifies a stored context.                       *)
EXTENDS CapabilityRuntime, FiniteSetTheorems, TLAPS

--------------------------------------------------------------------------------
\* Where a call is, or will be when it has emitted its receipts.
Stage(c) == IF c.pc = "emit" THEN c.next ELSE c.pc
Live(c) == c.pc \notin {"idle", "ok", "err", "invalid"}
Ended == {"Succeeded", "RolledBack", "RollbackFailed"}

\* k is one of the receipts s; the context c names the receipt k of t, or soon will.
In(k, s) == \E i \in 1..Len(s) : s[i] = k
Told(c, k, t) == <<k, t>> \in c.chain \/ In(k, c.emits)

\* The status of a live call at each stage.
StatusOK(c) ==
  LET s == Stage(c) IN
  /\ s \in {"validate", "policy", "request", "consume", "queue", "route", "execute", "verify",
            "rollback", "store", "err"}
  /\ s = "validate" => c.op = "submit" /\ c.status = "Created"
  /\ s = "policy" => c.op = "submit" /\ c.status = "PolicyPending"
  /\ s = "request" => c.op = "submit" /\ c.status = "ApprovalPending"
  /\ s = "consume" => c.op = "resume" /\ c.status = "ApprovalPending"
  /\ s = "err" => c.op = "resume" /\ c.status = "ApprovalPending"
  /\ s = "queue" => c.status = "Approved"
  /\ s \in {"route", "execute"} => c.status = "Queued"
  /\ s = "verify" => c.status = "Executing"
  /\ s = "rollback" => c.op = "submit" /\ c.status = "Failed"
  /\ s = "store" => \/ c.status \in {"Succeeded", "Failed"}
                    \/ /\ c.op = "submit"
                       /\ c.status \in {"PolicyDenied", "ApprovalPending", "RolledBack", "RollbackFailed"}

\* The receipts a live call of the task t has to its name at each stage.
Received(c) == In("ACTION_RECEIVED", c.emits) \/ \E u \in Tasks : <<"ACTION_RECEIVED", u>> \in c.chain
Authority(c) == IF c.op = "submit" THEN "POLICY_ALLOW" ELSE "APPROVAL_GRANTED"

ReceiptsOK(t, c) ==
  LET s == Stage(c) IN
  /\ s \notin {"validate", "store"} \/ c.status \in Ended \cup {"ApprovalPending"} => Received(c)
  /\ s \in {"queue", "route", "execute", "verify"} => Told(c, Authority(c), t)
  /\ s \in {"route", "execute", "verify", "rollback"} \/ c.status \in Ended =>
        Told(c, "ACTION_QUEUED", t)
  /\ s \in {"verify", "rollback"} \/ c.status \in Ended =>
        Told(c, "EXECUTION_STARTED", t) /\ Told(c, "EXECUTION_COMPLETED", t)
  /\ s = "rollback" \/ c.status \in Ended => Told(c, "VERIFICATION_RESULT", t)
  /\ In("EXECUTION_STARTED", c.emits) =>
        /\ s = "verify"
        /\ <<"ACTION_QUEUED", t>> \in c.chain /\ <<Authority(c), t>> \in c.chain
  /\ In("APPROVAL_GRANTED", c.emits) => c.op = "resume"

\* A call that has begun: L is the log of its action, P how often its binding passed.
CallOK(t, c, L, P) ==
  /\ c.op \in {"submit", "resume"} /\ c.action \in Actions /\ c.envelope \in Envelopes
  /\ c.op = "resume" => c.binding \in Bindings
  /\ c.op = "resume" /\ c.status \notin {"Created", "ApprovalPending"} => P = 1
  /\ Live(c) \/ c.pc \in {"ok", "err"}
  /\ Live(c) => /\ c.pc = "emit" <=> c.emits # <<>>
                /\ StatusOK(c) /\ ReceiptsOK(t, c)
                /\ c.chain \subseteq L

TasksInv ==
  /\ task \in [Tasks -> TaskRecord]
  /\ \A t \in Tasks : \/ task[t] = Idle
                      \/ CallOK(t, task[t], log[task[t].action], passes[task[t].binding])

\* A binding that can still be consumed never was.
SinkInv ==
  /\ passes \in [Bindings -> Nat]
  /\ bindings \in [Bindings -> {Absent} \cup Sink!Binding]
  /\ \A b \in Bindings : bindings[b] = Absent \/ bindings[b].state = "Granted" => passes[b] = 0

\* The log names tasks that have begun, and an execution in it was authorised.
LogInv ==
  /\ log \in [Actions -> SUBSET (Receipt \X Tasks)]
  /\ \A a \in Actions, k \in Receipt, t \in Tasks :
        <<k, t>> \in log[a] => /\ task[t].op # "none" /\ task[t].action = a
                               /\ k = "APPROVAL_GRANTED" => task[t].binding \in Bindings
  /\ ExecutionAuthorised

\* What is stored about an action.
StoredOK(a) ==
  contexts[a] # Absent =>
    /\ contexts[a].chain \subseteq log[a]
    /\ contexts[a].status \in {"ApprovalPending", "PolicyDenied", "Failed"} \cup Ended
    /\ contexts[a].status \in Ended \cup {"ApprovalPending"} =>
          \E u \in Tasks : <<"ACTION_RECEIVED", u>> \in contexts[a].chain
    /\ contexts[a].status \in Ended =>
          \E u \in Tasks : \A k \in {"ACTION_QUEUED", "EXECUTION_STARTED",
                                     "EXECUTION_COMPLETED", "VERIFICATION_RESULT"} :
             <<k, u>> \in contexts[a].chain
    /\ contexts[a].status = "RollbackFailed" =>
          \E u \in Tasks : task[u].action = a /\ task[u].status = "RollbackFailed"

ContextsInv ==
  /\ contexts \in [Actions -> {Absent} \cup Context]
  /\ \A a \in Actions : StoredOK(a)

AlertsInv ==
  /\ alerts \in Nat
  /\ Cardinality({t \in Tasks : task[t].status = "RollbackFailed"}) <= alerts

RuntimeInv ==
  /\ TasksInv /\ SinkInv /\ LogInv /\ ContextsInv /\ AlertsInv
  /\ OneResumePerBinding

--------------------------------------------------------------------------------
SameCall(d, c) ==
  /\ d.op = c.op /\ d.action = c.action /\ d.envelope = c.envelope /\ d.binding = c.binding

\* Going to the next stage changes nothing but the stage.
LEMMA GotoIs ==
  ASSUME NEW c \in TaskRecord, NEW p \in PC
  PROVE  /\ Goto(c, p) \in TaskRecord /\ SameCall(Goto(c, p), c) /\ Goto(c, p).pc = p
         /\ Goto(c, p).status = c.status /\ Goto(c, p).chain = c.chain
         /\ Goto(c, p).emits = c.emits /\ Goto(c, p).next = c.next
  BY Zenon DEF Goto, TaskRecord, SameCall

\* Returning changes no field that says which call it is, nor its status.
LEMMA ReturnIs ==
  ASSUME NEW c \in TaskRecord, NEW p \in {"ok", "err"}
  PROVE  /\ Return(c, p) \in TaskRecord /\ SameCall(Return(c, p), c) /\ Return(c, p).pc = p
         /\ Return(c, p).status = c.status
<1>1. <<>> \in Seq(Receipt) /\ {} \in SUBSET (Receipt \X Tasks) /\ p \in PC /\ "idle" \in PC
  BY DEF PC
<1> QED BY <1>1, Zenon DEF Return, TaskRecord, SameCall

\* A call that begins to emit has the receipts to emit and the stage to go to.
LEMMA EmittingIs ==
  ASSUME NEW c \in TaskRecord, NEW r \in Seq(Receipt), NEW n \in PC
  PROVE  LET d == Emitting(c, r, n) IN
         /\ d \in TaskRecord /\ SameCall(d, c) /\ d.pc = "emit"
         /\ d.status = c.status /\ d.chain = c.chain /\ d.emits = r /\ d.next = n
  BY ZenonT(40) DEF Emitting, TaskRecord, SameCall, PC

\* A new status changes nothing but the status.
LEMMA StatusIs ==
  ASSUME NEW c \in TaskRecord, NEW s \in ActionLifecycleState
  PROVE  LET d == [c EXCEPT !.status = s] IN
         /\ d \in TaskRecord /\ SameCall(d, c) /\ d.pc = c.pc
         /\ d.status = s /\ d.chain = c.chain /\ d.emits = c.emits /\ d.next = c.next
  BY Zenon DEF TaskRecord, SameCall

\* drive_to along one transition of the table sets the status.
LEMMA DriveOne ==
  ASSUME NEW c \in TaskRecord, NEW s \in ActionLifecycleState, <<c.status, s>> \in TRANSITIONS
  PROVE  Drive(c, <<s>>) = [c EXCEPT !.status = s]
<1>1. Len(<<s>>) = 1 /\ <<s>>[1] = s
  BY Zenon
<1>2. (<<c.status>> \o <<s>>)[1] = c.status /\ (<<c.status>> \o <<s>>)[1 + 1] = s
  OBVIOUS
<1>3. \A i \in 1..Len(<<s>>) : <<(<<c.status>> \o <<s>>)[i], (<<c.status>> \o <<s>>)[i + 1]>> \in TRANSITIONS
  BY <1>1, <1>2
<1> QED BY <1>1, <1>3, Zenon DEF Drive

\* drive_to along two transitions of the table sets the last status.
LEMMA DriveTwo ==
  ASSUME NEW c \in TaskRecord, NEW r \in ActionLifecycleState, NEW s \in ActionLifecycleState,
         <<c.status, r>> \in TRANSITIONS, <<r, s>> \in TRANSITIONS
  PROVE  Drive(c, <<r, s>>) = [c EXCEPT !.status = s]
<1> DEFINE q == <<c.status>> \o <<r, s>>
<1>1. Len(<<r, s>>) = 2 /\ <<r, s>>[2] = s
  BY Zenon
<1>2. q[1] = c.status /\ q[2] = r /\ q[3] = s
  OBVIOUS
<1>3. \A i \in 1..Len(<<r, s>>) : i = 1 \/ i = 2
  BY <1>1
<1>4. <<q[1], q[1 + 1]>> \in TRANSITIONS /\ <<q[2], q[2 + 1]>> \in TRANSITIONS
  BY <1>2
<1> HIDE DEF q
<1>5. \A i \in 1..Len(<<r, s>>) : <<q[i], q[i + 1]>> \in TRANSITIONS
  BY <1>3, <1>4, Zenon
<1> QED BY <1>1, <1>5, Zenon DEF Drive, q

\* A call that has begun satisfies CallOK.
LEMMA Begun ==
  ASSUME TasksInv, NEW t \in Tasks, task[t].pc # "idle"
  PROVE  /\ task[t] \in TaskRecord
         /\ CallOK(t, task[t], log[task[t].action], passes[task[t].binding])
  BY DEF TasksInv, Idle

\* A call keeps what it has when the log grows and spent bindings stay spent.
LEMMA TasksMove ==
  ASSUME TasksInv, NEW t \in Tasks, NEW d \in TaskRecord, task' = [task EXCEPT ![t] = d],
         \A a \in Actions : log[a] \subseteq log'[a],
         \A b \in Bindings : passes[b] = 1 => passes'[b] = 1,
         CallOK(t, d, log'[d.action], passes'[d.binding])
  PROVE  TasksInv'
<1>1. task' \in [Tasks -> TaskRecord]
  BY Zenon DEF TasksInv
<1>2. ASSUME NEW u \in Tasks
      PROVE  \/ task'[u] = Idle
             \/ CallOK(u, task'[u], log'[task'[u].action], passes'[task'[u].binding])
  <2>1. CASE u = t
    BY <2>1, Zenon DEF TasksInv
  <2>2. CASE u # t
    <3>1. task'[u] = task[u]
      BY <2>2, Zenon DEF TasksInv
    <3>2. CASE task[u] = Idle
      BY <3>1, <3>2, Zenon
    <3>3. CASE CallOK(u, task[u], log[task[u].action], passes[task[u].binding])
      <4>1. task[u].action \in Actions /\ (task[u].op = "resume" => task[u].binding \in Bindings)
        BY <3>3, Zenon DEF CallOK
      <4>2. log[task[u].action] \subseteq log'[task[u].action]
        BY <4>1, Zenon
      <4>3. task[u].op = "resume" /\ passes[task[u].binding] = 1 => passes'[task[u].binding] = 1
        BY <4>1, Zenon
      <4>4. CallOK(u, task[u], log'[task[u].action], passes'[task[u].binding])
        BY <3>3, <4>2, <4>3, Zenon DEF CallOK
      <4> QED BY <3>1, <4>4, Zenon
    <3> QED BY <3>2, <3>3, Zenon DEF TasksInv
  <2> QED BY <2>1, <2>2, Zenon
<1> QED BY <1>1, <1>2, Zenon DEF TasksInv

\* A live call goes on as d and touches nothing else that the invariant is about.
LEMMA CallMoves ==
  ASSUME RuntimeInv, NEW t \in Tasks, NEW d \in TaskRecord, Live(task[t]),
         task' = [task EXCEPT ![t] = d], SameCall(d, task[t]),
         CallOK(t, d, log[d.action], passes[d.binding]),
         task[t].status = "RollbackFailed" => d.status = "RollbackFailed",
         \/ alerts' = alerts /\ (d.status = "RollbackFailed" => task[t].status = "RollbackFailed")
         \/ alerts' = alerts + 1,
         task[t].op = "resume" /\ task[t].status \in {"Created", "ApprovalPending"}
            => d.status \in {"Created", "ApprovalPending"},
         UNCHANGED <<contexts, log, bindings, passes>>
  PROVE  RuntimeInv'
<1>0. TasksInv /\ SinkInv /\ LogInv /\ ContextsInv /\ AlertsInv /\ OneResumePerBinding
  BY Zenon DEF RuntimeInv
<1>1. TasksInv'
  BY <1>0, TasksMove, Zenon
<1>2. \A u \in Tasks : /\ SameCall(task'[u], task[u])
                       /\ task[u].status = "RollbackFailed" => task'[u].status = "RollbackFailed"
                       /\ task[u].op = "resume" /\ task[u].status \in {"Created", "ApprovalPending"}
                            => task'[u].status \in {"Created", "ApprovalPending"}
  BY <1>0, Zenon DEF TasksInv, SameCall
<1>3. SinkInv'
  BY <1>0, Zenon DEF SinkInv
<1>4. LogInv'
  BY <1>0, <1>2 DEF LogInv, SameCall, ExecutionAuthorised
<1>5. ContextsInv'
  BY <1>0, <1>2 DEF ContextsInv, StoredOK, SameCall
<1>6. AlertsInv'
  <2> DEFINE F == {u \in Tasks : task[u].status = "RollbackFailed"}
  <2>0. IsFiniteSet(F)
    BY FS_Subset, RuntimeBounds, Zenon
  <2>1. alerts \in Nat /\ Cardinality(F) <= alerts /\ Cardinality(F) \in Nat
    BY <1>0, <2>0, FS_CardinalityType, Zenon DEF AlertsInv
  <2> HIDE DEF F
  <2>2. CASE alerts' = alerts /\ (d.status = "RollbackFailed" => task[t].status = "RollbackFailed")
    <3>1. {u \in Tasks : task'[u].status = "RollbackFailed"} = F
      BY <1>0, <2>2, Zenon DEF TasksInv, F
    <3> QED BY <2>1, <2>2, <3>1, Zenon DEF AlertsInv
  <2>3. CASE alerts' = alerts + 1
    <3>1. {u \in Tasks : task'[u].status = "RollbackFailed"} \subseteq F \cup {t}
      BY <1>0, Zenon DEF TasksInv, F
    <3>2. IsFiniteSet(F \cup {t}) /\ Cardinality(F \cup {t}) <= Cardinality(F) + 1
      <4>1. Cardinality(F \cup {t}) = IF t \in F THEN Cardinality(F) ELSE Cardinality(F) + 1
        BY <2>0, FS_AddElement, Zenon
      <4>2. IsFiniteSet(F \cup {t})
        BY <2>0, FS_AddElement, Zenon
      <4>3. Cardinality(F) <= Cardinality(F) + 1 /\ Cardinality(F) + 1 <= Cardinality(F) + 1
        BY <2>1
      <4> QED BY <4>1, <4>2, <4>3, Zenon
    <3>3. Cardinality({u \in Tasks : task'[u].status = "RollbackFailed"}) <= Cardinality(F \cup {t})
      BY <3>1, <3>2, FS_Subset, Zenon
    <3>4. /\ Cardinality({u \in Tasks : task'[u].status = "RollbackFailed"}) \in Nat
          /\ Cardinality(F \cup {t}) \in Nat
      BY <3>1, <3>2, FS_Subset, FS_CardinalityType, Zenon
    <3>5. Cardinality({u \in Tasks : task'[u].status = "RollbackFailed"}) <= alerts'
      BY <2>1, <2>3, <3>2, <3>3, <3>4
    <3> QED BY <2>1, <2>3, <3>5 DEF AlertsInv
  <2> QED BY <2>2, <2>3, Zenon
<1>7. OneResumePerBinding'
  BY <1>0, <1>2 DEF OneResumePerBinding, Calls, SameCall
<1> QED BY <1>1, <1>3, <1>4, <1>5, <1>6, <1>7, Zenon DEF RuntimeInv

Moved(d, c, p, s, r, n) ==
  /\ d \in TaskRecord /\ SameCall(d, c)
  /\ d.pc = p /\ d.status = s /\ d.chain = c.chain /\ d.emits = r /\ d.next = n

\* A stage that emits and keeps the status.
LEMMA EmitOnly ==
  ASSUME NEW c \in TaskRecord, NEW r \in Seq(Receipt), NEW n \in PC
  PROVE  Moved(Emitting(c, r, n), c, "emit", c.status, r, n)
  BY EmittingIs DEF Moved

\* A stage that emits and drives the status one transition on.
LEMMA EmitDrive ==
  ASSUME NEW c \in TaskRecord, NEW r \in Seq(Receipt), NEW n \in PC,
         NEW s \in ActionLifecycleState, <<c.status, s>> \in TRANSITIONS
  PROVE  Moved(Drive(Emitting(c, r, n), <<s>>), c, "emit", s, r, n)
<1> DEFINE e == Emitting(c, r, n)
<1>1. e \in TaskRecord /\ SameCall(e, c) /\ e.pc = "emit" /\ e.status = c.status
      /\ e.chain = c.chain /\ e.emits = r /\ e.next = n
  BY EmittingIs
<1> HIDE DEF e
<1>2. Drive(e, <<s>>) = [e EXCEPT !.status = s]
  BY <1>1, DriveOne, Zenon
<1>3. Moved([e EXCEPT !.status = s], c, "emit", s, r, n)
  BY <1>1, StatusIs, ZenonT(40) DEF Moved, SameCall
<1> QED BY <1>2, <1>3, Zenon DEF e

\* A stage that emits and drives the status two transitions on.
LEMMA EmitDriveTwo ==
  ASSUME NEW c \in TaskRecord, NEW r \in Seq(Receipt), NEW n \in PC,
         NEW s1 \in ActionLifecycleState, NEW s \in ActionLifecycleState,
         <<c.status, s1>> \in TRANSITIONS, <<s1, s>> \in TRANSITIONS
  PROVE  Moved(Drive(Emitting(c, r, n), <<s1, s>>), c, "emit", s, r, n)
<1> DEFINE e == Emitting(c, r, n)
<1>1. e \in TaskRecord /\ SameCall(e, c) /\ e.pc = "emit" /\ e.status = c.status
      /\ e.chain = c.chain /\ e.emits = r /\ e.next = n
  BY EmittingIs
<1> HIDE DEF e
<1>2. Drive(e, <<s1, s>>) = [e EXCEPT !.status = s]
  BY <1>1, DriveTwo, Zenon
<1>3. Moved([e EXCEPT !.status = s], c, "emit", s, r, n)
  BY <1>1, StatusIs, ZenonT(40) DEF Moved, SameCall
<1> QED BY <1>2, <1>3, Zenon DEF e

\* A stage that goes on and drives the status one transition on.
LEMMA GotoDrive ==
  ASSUME NEW c \in TaskRecord, NEW p \in PC,
         NEW s \in ActionLifecycleState, <<c.status, s>> \in TRANSITIONS
  PROVE  Moved(Drive(Goto(c, p), <<s>>), c, p, s, c.emits, c.next)
<1> DEFINE e == Goto(c, p)
<1>1. e \in TaskRecord /\ SameCall(e, c) /\ e.pc = p /\ e.status = c.status
      /\ e.chain = c.chain /\ e.emits = c.emits /\ e.next = c.next
  BY GotoIs, Zenon
<1> HIDE DEF e
<1>2. Drive(e, <<s>>) = [e EXCEPT !.status = s]
  BY <1>1, DriveOne, Zenon
<1>3. Moved([e EXCEPT !.status = s], c, p, s, c.emits, c.next)
  BY <1>1, StatusIs, Zenon DEF Moved, SameCall
<1> QED BY <1>2, <1>3, Zenon DEF e

\* A stage that goes on and drives the status two transitions on.
LEMMA GotoDriveTwo ==
  ASSUME NEW c \in TaskRecord, NEW p \in PC,
         NEW s1 \in ActionLifecycleState, NEW s \in ActionLifecycleState,
         <<c.status, s1>> \in TRANSITIONS, <<s1, s>> \in TRANSITIONS
  PROVE  Moved(Drive(Goto(c, p), <<s1, s>>), c, p, s, c.emits, c.next)
<1> DEFINE e == Goto(c, p)
<1>1. e \in TaskRecord /\ SameCall(e, c) /\ e.pc = p /\ e.status = c.status
      /\ e.chain = c.chain /\ e.emits = c.emits /\ e.next = c.next
  BY GotoIs, Zenon
<1> HIDE DEF e
<1>2. Drive(e, <<s1, s>>) = [e EXCEPT !.status = s]
  BY <1>1, DriveTwo, Zenon
<1>3. Moved([e EXCEPT !.status = s], c, p, s, c.emits, c.next)
  BY <1>1, StatusIs, ZenonT(40) DEF Moved, SameCall
<1> QED BY <1>2, <1>3, Zenon DEF e

\* Nothing is among no receipts.
LEMMA InNone == \A k : ~In(k, <<>>)
  BY DEF In

\* A stage that emits has something to emit.
LEMMA SomeEmits ==
  /\ \A x : <<x>> # <<>>
  /\ \A x, y : <<x, y>> # <<>>
  /\ \A x, y, z : <<x, y, z>> # <<>>
OBVIOUS

\* What is among one receipt.
LEMMA InOne ==
  ASSUME NEW r PROVE \A k : In(k, <<r>>) <=> k = r
<1>1. 1..Len(<<r>>) = {1} /\ <<r>>[1] = r
  OBVIOUS
<1> QED BY <1>1, Zenon DEF In

\* What is among two receipts.
LEMMA InTwo ==
  ASSUME NEW r, NEW s PROVE \A k : In(k, <<r, s>>) <=> (k = r \/ k = s)
<1>1. 1..Len(<<r, s>>) = {1, 2} /\ <<r, s>>[1] = r /\ <<r, s>>[2] = s
  OBVIOUS
<1> QED BY <1>1, Zenon DEF In

\* What is among three receipts.
LEMMA InThree ==
  ASSUME NEW q, NEW r, NEW s
  PROVE  \A k : In(k, <<q, r, s>>) <=> (k = q \/ k = r \/ k = s)
<1>1. 1..Len(<<q, r, s>>) = {1, 2, 3} /\ <<q, r, s>>[1] = q /\ <<q, r, s>>[2] = r /\ <<q, r, s>>[3] = s
  OBVIOUS
<1> QED BY <1>1, Zenon DEF In

\* A call that returns is as sound as it was.
LEMMA ReturnOK ==
  ASSUME NEW t \in Tasks, NEW c \in TaskRecord, NEW L, NEW P, CallOK(t, c, L, P), NEW p \in {"ok", "err"}
  PROVE  CallOK(t, Return(c, p), L, P)
<1>1. SameCall(Return(c, p), c) /\ Return(c, p).pc = p /\ Return(c, p).status = c.status
  BY ReturnIs, Zenon
<1> QED BY <1>1, Zenon DEF CallOK, SameCall, Live

\* A live call that returns keeps RuntimeInv.
LEMMA ReturnKeeps ==
  ASSUME RuntimeInv, NEW t \in Tasks, Live(task[t]), NEW p \in {"ok", "err"},
         Set(t, Return(task[t], p)), UNCHANGED <<contexts, log, alerts, bindings, passes>>
  PROVE  RuntimeInv'
<1> DEFINE c == task[t]  d == Return(c, p)
<1>1. c \in TaskRecord /\ CallOK(t, c, log[c.action], passes[c.binding])
  BY Begun, Zenon DEF RuntimeInv, Live
<1>2. d \in TaskRecord /\ SameCall(d, c) /\ d.status = c.status
  BY <1>1, ReturnIs, Zenon
<1>3. CallOK(t, d, log[c.action], passes[c.binding])
  BY <1>1, ReturnOK, Zenon
<1>4. CallOK(t, d, log[d.action], passes[d.binding])
  BY <1>2, <1>3, Zenon DEF SameCall
<1>5. task' = [task EXCEPT ![t] = d]
  BY Zenon DEF Set
<1> HIDE DEF d
<1> QED BY <1>2, <1>4, <1>5, CallMoves, Zenon

\* A live call goes on as d, by a step that touches nothing but the call.
Continues(t, d) ==
  /\ Live(task[t]) /\ task[t].status # "RollbackFailed"
  /\ d \in TaskRecord /\ SameCall(d, task[t]) /\ d.chain = task[t].chain
  /\ task' = [task EXCEPT ![t] = d]
  /\ Live(d) /\ (d.pc = "emit" <=> d.emits # <<>>)
  /\ StatusOK(d) /\ ReceiptsOK(t, d)
  /\ \/ task[t].op = "submit"
     \/ task[t].status \notin {"Created", "ApprovalPending"}
     \/ d.status \in {"Created", "ApprovalPending"}
  /\ \/ alerts' = alerts /\ d.status # "RollbackFailed"
     \/ alerts' = alerts + 1
  /\ UNCHANGED <<contexts, log, bindings, passes>>

\* A live call that goes on as Continues says keeps RuntimeInv.
LEMMA ContinuesKeeps ==
  ASSUME RuntimeInv, NEW t \in Tasks, NEW d, Continues(t, d)
  PROVE  RuntimeInv'
<1> DEFINE c == task[t]
<1>1. c \in TaskRecord /\ CallOK(t, c, log[c.action], passes[c.binding])
  BY Begun, Zenon DEF RuntimeInv, Continues, Live
<1>2. d \in TaskRecord /\ SameCall(d, c) /\ task' = [task EXCEPT ![t] = d] /\ Live(c)
      /\ c.status # "RollbackFailed" /\ UNCHANGED <<contexts, log, bindings, passes>>
      /\ ((alerts' = alerts /\ d.status # "RollbackFailed") \/ alerts' = alerts + 1)
  BY Zenon DEF Continues
<1>3. CallOK(t, d, log[c.action], passes[c.binding])
  BY <1>1, Zenon DEF Continues, CallOK, SameCall
<1>4. CallOK(t, d, log[d.action], passes[d.binding])
  BY <1>2, <1>3, Zenon DEF SameCall
<1>5. c.op = "resume" /\ c.status \in {"Created", "ApprovalPending"}
         => d.status \in {"Created", "ApprovalPending"}
  BY Zenon DEF Continues
<1> QED BY <1>2, <1>4, <1>5, CallMoves, Zenon

\* validate keeps RuntimeInv.
LEMMA ValidateKeeps ==
  ASSUME RuntimeInv, NEW t \in Tasks, Validate(t)
  PROVE  RuntimeInv'
<1> DEFINE c == task[t]
<1>0. UNCHANGED <<contexts, log, alerts, bindings, passes>> /\ c.pc = "validate" /\ Live(c)
  BY Zenon DEF Validate, sinkVars, At, Live
<1>1. c \in TaskRecord /\ CallOK(t, c, log[c.action], passes[c.binding])
  BY <1>0, Begun, Zenon DEF RuntimeInv, Live
<1>2. c.op = "submit" /\ c.status = "Created" /\ c.emits = <<>>
  BY <1>0, <1>1, Zenon DEF CallOK, StatusOK, Stage
<1>3. CASE Set(t, Drive(Emitting(c, <<"ACTION_RECEIVED">>, "policy"), <<"PolicyPending">>))
  <2>1. <<"ACTION_RECEIVED">> \in Seq(Receipt) /\ "policy" \in PC
        /\ "PolicyPending" \in ActionLifecycleState /\ <<"Created", "PolicyPending">> \in TRANSITIONS
    BY DEF Receipt, PC, ActionLifecycleState, TRANSITIONS
  <2>2. PICK d : /\ task' = [task EXCEPT ![t] = d]
                 /\ Moved(d, c, "emit", "PolicyPending", <<"ACTION_RECEIVED">>, "policy")
    BY <1>1, <1>2, <1>3, <2>1, EmitDrive, Zenon DEF Set
  <2>3. StatusOK(d)
    BY <1>2, <2>2, Zenon DEF Moved, StatusOK, Stage, SameCall
  <2>4. \A k : In(k, d.emits) <=> k = "ACTION_RECEIVED"
    BY <2>2, InOne, Zenon DEF Moved
  <2>5. ReceiptsOK(t, d)
    BY <2>2, <2>4 DEF Moved, ReceiptsOK, Stage, Received, Ended
  <2>6. Continues(t, d)
    BY <1>0, <1>2, <2>2, <2>3, <2>5, SomeEmits, ZenonT(40) DEF Continues, Moved, Live
  <2> QED BY <2>6, ContinuesKeeps, Zenon
<1>4. CASE Set(t, Drive(Goto(c, "store"), <<"Failed">>))
  <2>1. "store" \in PC /\ "Failed" \in ActionLifecycleState /\ <<"Created", "Failed">> \in TRANSITIONS
    BY Zenon DEF PC, ActionLifecycleState, TRANSITIONS
  <2>2. PICK d : task' = [task EXCEPT ![t] = d] /\ Moved(d, c, "store", "Failed", <<>>, c.next)
    BY <1>1, <1>2, <1>4, <2>1, GotoDrive, Zenon DEF Set
  <2>3. StatusOK(d)
    BY <1>2, <2>2, Zenon DEF Moved, StatusOK, Stage, SameCall
  <2>4. \A k : ~In(k, d.emits)
    BY <2>2, InNone, Zenon DEF Moved
  <2>5. ReceiptsOK(t, d)
    BY <2>2, <2>4, Zenon DEF Moved, ReceiptsOK, Stage, Ended
  <2>6. Continues(t, d)
    BY <1>0, <1>2, <2>2, <2>3, <2>5, Zenon DEF Continues, Moved, Live
  <2> QED BY <2>6, ContinuesKeeps, Zenon
<1> QED BY <1>3, <1>4, Zenon DEF Validate

\* A call that is not emitting has its receipts in its chain.
LEMMA Settled ==
  ASSUME NEW t \in Tasks, NEW c \in TaskRecord, NEW L, NEW P, CallOK(t, c, L, P), Live(c), c.pc # "emit"
  PROVE  /\ c.emits = <<>> /\ StatusOK(c) /\ Stage(c) = c.pc
         /\ c.pc \notin {"validate", "store"} \/ c.status \in Ended \cup {"ApprovalPending"} =>
              \E u \in Tasks : <<"ACTION_RECEIVED", u>> \in c.chain
         /\ c.pc \in {"queue", "route", "execute", "verify"} => <<Authority(c), t>> \in c.chain
         /\ c.pc \in {"route", "execute", "verify", "rollback"} \/ c.status \in Ended =>
              <<"ACTION_QUEUED", t>> \in c.chain
         /\ c.pc \in {"verify", "rollback"} \/ c.status \in Ended =>
              <<"EXECUTION_STARTED", t>> \in c.chain /\ <<"EXECUTION_COMPLETED", t>> \in c.chain
         /\ c.pc = "rollback" \/ c.status \in Ended => <<"VERIFICATION_RESULT", t>> \in c.chain
<1>1. c.emits = <<>> /\ StatusOK(c) /\ ReceiptsOK(t, c) /\ Stage(c) = c.pc
  BY Zenon DEF CallOK, Stage
<1>2. \A k : ~In(k, c.emits)
  BY <1>1, InNone, Zenon
<1> QED BY <1>1, <1>2, Zenon DEF ReceiptsOK, Received, Told

\* Routing to the adapter changes the stage alone.
LEMMA RouteIs ==
  ASSUME NEW c \in TaskRecord, NEW x, NEW S
  PROVE  Moved([c EXCEPT !.pc = "execute", !.routed = (x \in S)], c, "execute", c.status, c.emits, c.next)
<1>1. ASSUME NEW b \in BOOLEAN
      PROVE  Moved([c EXCEPT !.pc = "execute", !.routed = b], c, "execute", c.status, c.emits, c.next)
  BY ZenonT(40) DEF TaskRecord, PC, Moved, SameCall
<1>2. (x \in S) \in BOOLEAN
  OBVIOUS
<1> QED BY <1>1, <1>2, Zenon

\* evaluate_policy keeps RuntimeInv: a denial, an approval request and an allowance each
\* drive the status along the table and announce their receipt.
LEMMA PolicyEvaluateKeeps ==
  ASSUME RuntimeInv, NEW t \in Tasks, PolicyEvaluate(t)
  PROVE  RuntimeInv'
<1> DEFINE c == task[t]
<1>0. UNCHANGED <<contexts, log, bindings, passes>> /\ c.pc = "policy" /\ Live(c)
  BY Zenon DEF PolicyEvaluate, sinkVars, At, Live
<1>1. c \in TaskRecord /\ CallOK(t, c, log[c.action], passes[c.binding])
  BY <1>0, Begun, Zenon DEF RuntimeInv, Live
<1>2. c.op = "submit" /\ c.status = "PolicyPending" /\ c.emits = <<>> /\ (\E u \in Tasks : <<"ACTION_RECEIVED", u>> \in c.chain)
  BY <1>0, <1>1, Settled, Zenon DEF StatusOK, Ended
<1>a. alerts' = alerts
  BY Zenon DEF PolicyEvaluate
<1>3. CASE Set(t, Drive(Emitting(c, <<"POLICY_ALLOW">>, "queue"), <<"Approved">>))
  <2>1. /\ <<"POLICY_ALLOW">> \in Seq(Receipt) /\ "queue" \in PC
        /\ "Approved" \in ActionLifecycleState /\ <<"PolicyPending", "Approved">> \in TRANSITIONS
    BY DEF Receipt, PC, ActionLifecycleState, TRANSITIONS
  <2>2. PICK d : task' = [task EXCEPT ![t] = d] /\ Moved(d, c, "emit", "Approved", <<"POLICY_ALLOW">>, "queue")
    BY <1>1, <1>2, <1>3, <2>1, EmitDrive, Zenon DEF Set
  <2>3. StatusOK(d)
    BY <1>2, <2>2, Zenon DEF Moved, StatusOK, Stage, SameCall
  <2>4. \A k : In(k, d.emits) <=> k = "POLICY_ALLOW"
    BY <2>2, InOne, Zenon DEF Moved
  <2>5. ReceiptsOK(t, d)
    BY <1>2, <2>2, <2>4 DEF Moved, SameCall, ReceiptsOK, Stage, Ended, Received, Told, Authority
  <2>6. Continues(t, d)
    BY <1>0, <1>2, <1>3, <2>2, <2>3, <2>5, <1>a, SomeEmits, ZenonT(40) DEF Continues, Moved, Live
  <2> QED BY <2>6, ContinuesKeeps, Zenon
<1>4. CASE Set(t, Drive(Emitting(c, <<"POLICY_REQUIRE_APPROVAL">>, "request"), <<"ApprovalPending">>))
  <2>1. /\ <<"POLICY_REQUIRE_APPROVAL">> \in Seq(Receipt) /\ "request" \in PC
        /\ "ApprovalPending" \in ActionLifecycleState /\ <<"PolicyPending", "ApprovalPending">> \in TRANSITIONS
    BY DEF Receipt, PC, ActionLifecycleState, TRANSITIONS
  <2>2. PICK d : /\ task' = [task EXCEPT ![t] = d]
                 /\ Moved(d, c, "emit", "ApprovalPending", <<"POLICY_REQUIRE_APPROVAL">>, "request")
    BY <1>1, <1>2, <1>4, <2>1, EmitDrive, Zenon DEF Set
  <2>3. StatusOK(d)
    BY <1>2, <2>2, Zenon DEF Moved, StatusOK, Stage, SameCall
  <2>4. \A k : In(k, d.emits) <=> k = "POLICY_REQUIRE_APPROVAL"
    BY <2>2, InOne, Zenon DEF Moved
  <2>5. ReceiptsOK(t, d)
    BY <1>2, <2>2, <2>4 DEF Moved, SameCall, ReceiptsOK, Stage, Ended, Received
  <2>6. Continues(t, d)
    BY <1>0, <1>2, <1>4, <2>2, <2>3, <2>5, <1>a, SomeEmits, ZenonT(40) DEF Continues, Moved, Live
  <2> QED BY <2>6, ContinuesKeeps, Zenon
<1>5. CASE Set(t, Drive(Emitting(c, <<"POLICY_DENY">>, "store"), <<"PolicyDenied">>))
  <2>1. /\ <<"POLICY_DENY">> \in Seq(Receipt) /\ "store" \in PC
        /\ "PolicyDenied" \in ActionLifecycleState /\ <<"PolicyPending", "PolicyDenied">> \in TRANSITIONS
    BY DEF Receipt, PC, ActionLifecycleState, TRANSITIONS
  <2>2. PICK d : task' = [task EXCEPT ![t] = d] /\ Moved(d, c, "emit", "PolicyDenied", <<"POLICY_DENY">>, "store")
    BY <1>1, <1>2, <1>5, <2>1, EmitDrive, Zenon DEF Set
  <2>3. StatusOK(d)
    BY <1>2, <2>2, Zenon DEF Moved, StatusOK, Stage, SameCall
  <2>4. \A k : In(k, d.emits) <=> k = "POLICY_DENY"
    BY <2>2, InOne, Zenon DEF Moved
  <2>5. ReceiptsOK(t, d)
    BY <1>2, <2>2, <2>4 DEF Moved, SameCall, ReceiptsOK, Stage, Ended
  <2>6. Continues(t, d)
    BY <1>0, <1>2, <1>5, <2>2, <2>3, <2>5, <1>a, SomeEmits, ZenonT(40) DEF Continues, Moved, Live
  <2> QED BY <2>6, ContinuesKeeps, Zenon
<1>6. CASE Set(t, Drive(Goto(c, "store"), <<"PolicyDenied">>))
  <2>1. /\ "store" \in PC
        /\ "PolicyDenied" \in ActionLifecycleState /\ <<"PolicyPending", "PolicyDenied">> \in TRANSITIONS
    BY Zenon DEF PC, ActionLifecycleState, TRANSITIONS
  <2>2. PICK d : task' = [task EXCEPT ![t] = d] /\ Moved(d, c, "store", "PolicyDenied", <<>>, c.next)
    BY <1>1, <1>2, <1>6, <2>1, GotoDrive, Zenon DEF Set
  <2>3. StatusOK(d)
    BY <1>2, <2>2, Zenon DEF Moved, StatusOK, Stage, SameCall
  <2>4. \A k : ~In(k, d.emits)
    BY <2>2, InNone, Zenon DEF Moved
  <2>5. ReceiptsOK(t, d)
    BY <1>2, <2>2, <2>4, Zenon DEF Moved, SameCall, ReceiptsOK, Stage, Ended
  <2>6. Continues(t, d)
    BY <1>0, <1>2, <1>6, <2>2, <2>3, <2>5, <1>a, Zenon DEF Continues, Moved, Live
  <2> QED BY <2>6, ContinuesKeeps, Zenon
<1>7. CASE Set(t, Return(c, "err"))
  BY <1>0, <1>a, <1>7, ReturnKeeps, Zenon
<1> QED BY <1>3, <1>4, <1>5, <1>6, <1>7, Zenon DEF PolicyEvaluate, PolicyOutcome

\* request_approval keeps RuntimeInv.
LEMMA RequestApprovalKeeps ==
  ASSUME RuntimeInv, NEW t \in Tasks, RequestApproval(t)
  PROVE  RuntimeInv'
<1> DEFINE c == task[t]
<1>0. UNCHANGED <<contexts, log, bindings, passes>> /\ c.pc = "request" /\ Live(c)
  BY Zenon DEF RequestApproval, Sink!SubmitRequest, At, Live
<1>1. c \in TaskRecord /\ CallOK(t, c, log[c.action], passes[c.binding])
  BY <1>0, Begun, Zenon DEF RuntimeInv, Live
<1>2. c.op = "submit" /\ c.status = "ApprovalPending" /\ c.emits = <<>> /\ (\E u \in Tasks : <<"ACTION_RECEIVED", u>> \in c.chain)
  BY <1>0, <1>1, Settled, Zenon DEF StatusOK, Ended
<1>a. alerts' = alerts
  BY Zenon DEF RequestApproval
<1>3. CASE Set(t, Emitting(c, <<"APPROVAL_REQUESTED">>, "store"))
  <2>1. <<"APPROVAL_REQUESTED">> \in Seq(Receipt) /\ "store" \in PC
    BY DEF Receipt, PC
  <2>0. Moved(Emitting(c, <<"APPROVAL_REQUESTED">>, "store"), c, "emit", "ApprovalPending",
              <<"APPROVAL_REQUESTED">>, "store")
    BY <1>1, <1>2, <2>1, EmitOnly, Zenon
  <2>2. PICK d : /\ task' = [task EXCEPT ![t] = d]
                 /\ Moved(d, c, "emit", "ApprovalPending", <<"APPROVAL_REQUESTED">>, "store")
    BY <1>3, <2>0, Zenon DEF Set
  <2>3. StatusOK(d)
    BY <1>2, <2>2, Zenon DEF Moved, StatusOK, Stage, SameCall
  <2>4. \A k : In(k, d.emits) <=> k = "APPROVAL_REQUESTED"
    BY <2>2, InOne, Zenon DEF Moved
  <2>5. ReceiptsOK(t, d)
    BY <1>2, <2>2, <2>4 DEF Moved, SameCall, ReceiptsOK, Stage, Ended, Received
  <2>6. Continues(t, d)
    BY <1>0, <1>2, <1>3, <2>2, <2>3, <2>5, <1>a, SomeEmits, ZenonT(40) DEF Continues, Moved, Live
  <2> QED BY <2>6, ContinuesKeeps, Zenon
<1> QED BY <1>3, Zenon DEF RequestApproval

\* enqueue keeps RuntimeInv.
LEMMA EnqueueKeeps ==
  ASSUME RuntimeInv, NEW t \in Tasks, Enqueue(t)
  PROVE  RuntimeInv'
<1> DEFINE c == task[t]
<1>0. UNCHANGED <<contexts, log, bindings, passes>> /\ c.pc = "queue" /\ Live(c)
  BY Zenon DEF Enqueue, sinkVars, At, Live
<1>1. c \in TaskRecord /\ CallOK(t, c, log[c.action], passes[c.binding])
  BY <1>0, Begun, Zenon DEF RuntimeInv, Live
<1>2. c.status = "Approved" /\ c.emits = <<>> /\ <<Authority(c), t>> \in c.chain /\ (\E u \in Tasks : <<"ACTION_RECEIVED", u>> \in c.chain)
  BY <1>0, <1>1, Settled, Zenon DEF StatusOK, Ended
<1>a. alerts' = alerts
  BY Zenon DEF Enqueue
<1>3. CASE Set(t, Drive(Emitting(c, <<"ACTION_QUEUED">>, "route"), <<"Queued">>))
  <2>1. /\ <<"ACTION_QUEUED">> \in Seq(Receipt) /\ "route" \in PC
        /\ "Queued" \in ActionLifecycleState /\ <<"Approved", "Queued">> \in TRANSITIONS
    BY DEF Receipt, PC, ActionLifecycleState, TRANSITIONS
  <2>2. PICK d : task' = [task EXCEPT ![t] = d] /\ Moved(d, c, "emit", "Queued", <<"ACTION_QUEUED">>, "route")
    BY <1>1, <1>2, <1>3, <2>1, EmitDrive, Zenon DEF Set
  <2>3. StatusOK(d)
    BY <1>2, <2>2, Zenon DEF Moved, StatusOK, Stage, SameCall
  <2>4. \A k : In(k, d.emits) <=> k = "ACTION_QUEUED"
    BY <2>2, InOne, Zenon DEF Moved
  <2>5. ReceiptsOK(t, d)
    BY <1>2, <2>2, <2>4 DEF Moved, SameCall, ReceiptsOK, Stage, Ended, Received, Told, Authority
  <2>6. Continues(t, d)
    BY <1>0, <1>2, <1>3, <2>2, <2>3, <2>5, <1>a, SomeEmits, ZenonT(40) DEF Continues, Moved, Live
  <2> QED BY <2>6, ContinuesKeeps, Zenon
<1>4. CASE Set(t, Drive(Emitting(c, <<"ACTION_QUEUED", "AI_INTERACTIVE_QUEUE_DOWNGRADE">>, "route"), <<"Queued">>))
  <2>1. /\ <<"ACTION_QUEUED", "AI_INTERACTIVE_QUEUE_DOWNGRADE">> \in Seq(Receipt) /\ "route" \in PC
        /\ "Queued" \in ActionLifecycleState /\ <<"Approved", "Queued">> \in TRANSITIONS
    BY DEF Receipt, PC, ActionLifecycleState, TRANSITIONS
  <2>2. PICK d : /\ task' = [task EXCEPT ![t] = d]
                 /\ Moved(d, c, "emit", "Queued", <<"ACTION_QUEUED", "AI_INTERACTIVE_QUEUE_DOWNGRADE">>, "route")
    BY <1>1, <1>2, <1>4, <2>1, EmitDrive, Zenon DEF Set
  <2>3. StatusOK(d)
    BY <1>2, <2>2, Zenon DEF Moved, StatusOK, Stage, SameCall
  <2>4. \A k : In(k, d.emits) <=> (k = "ACTION_QUEUED" \/ k = "AI_INTERACTIVE_QUEUE_DOWNGRADE")
    BY <2>2, InTwo DEF Moved
  <2>5. ReceiptsOK(t, d)
    BY <1>2, <2>2, <2>4 DEF Moved, SameCall, ReceiptsOK, Stage, Ended, Received, Told, Authority
  <2>6. Continues(t, d)
    BY <1>0, <1>2, <1>4, <2>2, <2>3, <2>5, <1>a, SomeEmits, ZenonT(40) DEF Continues, Moved, Live
  <2> QED BY <2>6, ContinuesKeeps, Zenon
<1>5. CASE Set(t, Drive(Goto(c, "store"), <<"Queued", "Failed">>))
  <2>1. /\ "store" \in PC
        /\ "Queued" \in ActionLifecycleState /\ <<"Approved", "Queued">> \in TRANSITIONS
        /\ "Failed" \in ActionLifecycleState /\ <<"Queued", "Failed">> \in TRANSITIONS
    BY Zenon DEF PC, ActionLifecycleState, TRANSITIONS
  <2>2. PICK d : task' = [task EXCEPT ![t] = d] /\ Moved(d, c, "store", "Failed", <<>>, c.next)
    BY <1>1, <1>2, <1>5, <2>1, GotoDriveTwo, Zenon DEF Set
  <2>3. StatusOK(d)
    BY <1>2, <2>2, Zenon DEF Moved, StatusOK, Stage, SameCall
  <2>4. \A k : ~In(k, d.emits)
    BY <2>2, InNone, Zenon DEF Moved
  <2>5. ReceiptsOK(t, d)
    BY <1>2, <2>2, <2>4, Zenon DEF Moved, SameCall, ReceiptsOK, Stage, Ended
  <2>6. Continues(t, d)
    BY <1>0, <1>2, <1>5, <2>2, <2>3, <2>5, <1>a, ZenonT(30) DEF Continues, Moved, Live
  <2> QED BY <2>6, ContinuesKeeps, Zenon
<1> QED BY <1>3, <1>4, <1>5, Zenon DEF Enqueue, QueuedReceipts

\* route keeps RuntimeInv.
LEMMA RouteKeeps ==
  ASSUME RuntimeInv, NEW t \in Tasks, Route(t)
  PROVE  RuntimeInv'
<1> DEFINE c == task[t]
<1>0. UNCHANGED <<contexts, log, bindings, passes>> /\ c.pc = "route" /\ Live(c)
  BY Zenon DEF Route, sinkVars, At, Live
<1>1. c \in TaskRecord /\ CallOK(t, c, log[c.action], passes[c.binding])
  BY <1>0, Begun, Zenon DEF RuntimeInv, Live
<1>2. c.status = "Queued" /\ c.emits = <<>> /\ <<Authority(c), t>> \in c.chain /\ <<"ACTION_QUEUED", t>> \in c.chain
      /\ (\E u \in Tasks : <<"ACTION_RECEIVED", u>> \in c.chain)
  BY <1>0, <1>1, Settled, Zenon DEF StatusOK, Ended
<1>a. alerts' = alerts
  BY Zenon DEF Route
<1>b. PICK d : task' = [task EXCEPT ![t] = d] /\ Moved(d, c, "execute", "Queued", <<>>, c.next)
  <2>1. Moved([c EXCEPT !.pc = "execute", !.routed = (c.envelope.target \in registered)], c,
              "execute", "Queued", <<>>, c.next)
    BY <1>1, <1>2, RouteIs, Zenon
  <2> QED BY <2>1, Zenon DEF Route, Set
<1>3. StatusOK(d)
  BY <1>2, <1>b, Zenon DEF Moved, StatusOK, Stage, SameCall
<1>4. \A k : ~In(k, d.emits)
  BY <1>b, InNone, Zenon DEF Moved
<1>5. ReceiptsOK(t, d)
  BY <1>2, <1>b, <1>4, Zenon DEF Moved, SameCall, ReceiptsOK, Stage, Ended, Received, Told, Authority
<1>6. Continues(t, d)
  BY <1>0, <1>2, <1>a, <1>b, <1>3, <1>5, Zenon DEF Continues, Moved, Live
<1> QED BY <1>6, ContinuesKeeps, Zenon

\* execute keeps RuntimeInv: it is reached only with the authority of the call announced.
LEMMA ExecuteKeeps ==
  ASSUME RuntimeInv, NEW t \in Tasks, Execute(t)
  PROVE  RuntimeInv'
<1> DEFINE c == task[t]
<1>0. UNCHANGED <<contexts, log, bindings, passes>> /\ c.pc = "execute" /\ Live(c)
  BY Zenon DEF Execute, sinkVars, At, Live
<1>1. c \in TaskRecord /\ CallOK(t, c, log[c.action], passes[c.binding])
  BY <1>0, Begun, Zenon DEF RuntimeInv, Live
<1>2. c.status = "Queued" /\ c.emits = <<>> /\ <<Authority(c), t>> \in c.chain /\ <<"ACTION_QUEUED", t>> \in c.chain
      /\ (\E u \in Tasks : <<"ACTION_RECEIVED", u>> \in c.chain)
  BY <1>0, <1>1, Settled, Zenon DEF StatusOK, Ended
<1>a. alerts' = alerts
  BY Zenon DEF Execute
<1>3. CASE Set(t, Drive(Goto(c, "store"), <<"Failed">>))
  <2>1. /\ "store" \in PC
        /\ "Failed" \in ActionLifecycleState /\ <<"Queued", "Failed">> \in TRANSITIONS
    BY Zenon DEF PC, ActionLifecycleState, TRANSITIONS
  <2>2. PICK d : task' = [task EXCEPT ![t] = d] /\ Moved(d, c, "store", "Failed", <<>>, c.next)
    BY <1>1, <1>2, <1>3, <2>1, GotoDrive, Zenon DEF Set
  <2>3. StatusOK(d)
    BY <1>2, <2>2, Zenon DEF Moved, StatusOK, Stage, SameCall
  <2>4. \A k : ~In(k, d.emits)
    BY <2>2, InNone, Zenon DEF Moved
  <2>5. ReceiptsOK(t, d)
    BY <1>2, <2>2, <2>4, Zenon DEF Moved, SameCall, ReceiptsOK, Stage, Ended
  <2>6. Continues(t, d)
    BY <1>0, <1>2, <1>3, <2>2, <2>3, <2>5, <1>a, ZenonT(30) DEF Continues, Moved, Live
  <2> QED BY <2>6, ContinuesKeeps, Zenon
<1>4. CASE Set(t, Drive(Emitting(c, <<"EXECUTION_STARTED", "EXECUTION_COMPLETED">>, "verify"), <<"Executing">>))
  <2>1. /\ <<"EXECUTION_STARTED", "EXECUTION_COMPLETED">> \in Seq(Receipt) /\ "verify" \in PC
        /\ "Executing" \in ActionLifecycleState /\ <<"Queued", "Executing">> \in TRANSITIONS
    BY DEF Receipt, PC, ActionLifecycleState, TRANSITIONS
  <2>2. PICK d : /\ task' = [task EXCEPT ![t] = d]
                 /\ Moved(d, c, "emit", "Executing", <<"EXECUTION_STARTED", "EXECUTION_COMPLETED">>, "verify")
    BY <1>1, <1>2, <1>4, <2>1, EmitDrive, Zenon DEF Set
  <2>3. StatusOK(d)
    BY <1>2, <2>2, Zenon DEF Moved, StatusOK, Stage, SameCall
  <2>4. \A k : In(k, d.emits) <=> (k = "EXECUTION_STARTED" \/ k = "EXECUTION_COMPLETED")
    BY <2>2, InTwo DEF Moved
  <2>5. ReceiptsOK(t, d)
    BY <1>2, <2>2, <2>4 DEF Moved, SameCall, ReceiptsOK, Stage, Ended, Received, Told, Authority
  <2>6. Continues(t, d)
    BY <1>0, <1>2, <1>4, <2>2, <2>3, <2>5, <1>a, SomeEmits, ZenonT(40) DEF Continues, Moved, Live
  <2> QED BY <2>6, ContinuesKeeps, Zenon
<1>5. CASE Set(t, Drive(Emitting(c, <<"ROUTING_DECISION", "EXECUTION_STARTED", "EXECUTION_COMPLETED">>, "verify"), <<"Executing">>))
  <2>1. /\ <<"ROUTING_DECISION", "EXECUTION_STARTED", "EXECUTION_COMPLETED">> \in Seq(Receipt) /\ "verify" \in PC
        /\ "Executing" \in ActionLifecycleState /\ <<"Queued", "Executing">> \in TRANSITIONS
    BY DEF Receipt, PC, ActionLifecycleState, TRANSITIONS
  <2>2. PICK d : /\ task' = [task EXCEPT ![t] = d]
                 /\ Moved(d, c, "emit", "Executing", <<"ROUTING_DECISION", "EXECUTION_STARTED", "EXECUTION_COMPLETED">>, "verify")
    BY <1>1, <1>2, <1>5, <2>1, EmitDrive, Zenon DEF Set
  <2>3. StatusOK(d)
    BY <1>2, <2>2, Zenon DEF Moved, StatusOK, Stage, SameCall
  <2>4. \A k : In(k, d.emits) <=> (k = "ROUTING_DECISION" \/ k = "EXECUTION_STARTED" \/ k = "EXECUTION_COMPLETED")
    BY <2>2, InThree DEF Moved
  <2>5. ReceiptsOK(t, d)
    BY <1>2, <2>2, <2>4 DEF Moved, SameCall, ReceiptsOK, Stage, Ended, Received, Told, Authority
  <2>6. Continues(t, d)
    BY <1>0, <1>2, <1>5, <2>2, <2>3, <2>5, <1>a, SomeEmits, ZenonT(40) DEF Continues, Moved, Live
  <2> QED BY <2>6, ContinuesKeeps, Zenon
<1> QED BY <1>3, <1>4, <1>5, Zenon DEF Execute, ExecutedReceipts

\* verify keeps RuntimeInv.
LEMMA VerifyKeeps ==
  ASSUME RuntimeInv, NEW t \in Tasks, Verify(t)
  PROVE  RuntimeInv'
<1> DEFINE c == task[t]
<1>0. UNCHANGED <<contexts, log, bindings, passes>> /\ c.pc = "verify" /\ Live(c)
  BY Zenon DEF Verify, sinkVars, At, Live
<1>1. c \in TaskRecord /\ CallOK(t, c, log[c.action], passes[c.binding])
  BY <1>0, Begun, Zenon DEF RuntimeInv, Live
<1>2. c.op \in {"submit", "resume"} /\ c.status = "Executing" /\ c.emits = <<>> /\ <<"ACTION_QUEUED", t>> \in c.chain
      /\ <<"EXECUTION_STARTED", t>> \in c.chain /\ <<"EXECUTION_COMPLETED", t>> \in c.chain
      /\ (\E u \in Tasks : <<"ACTION_RECEIVED", u>> \in c.chain)
  BY <1>0, <1>1, Settled, Zenon DEF StatusOK, Ended, CallOK
<1>a. alerts' = alerts
  BY Zenon DEF Verify
<1>3. CASE Set(t, Drive(Emitting(c, <<"VERIFICATION_RESULT">>, "store"), <<"Verifying", "Succeeded">>))
  <2>1. /\ <<"VERIFICATION_RESULT">> \in Seq(Receipt) /\ "store" \in PC
        /\ "Verifying" \in ActionLifecycleState /\ <<"Executing", "Verifying">> \in TRANSITIONS
        /\ "Succeeded" \in ActionLifecycleState /\ <<"Verifying", "Succeeded">> \in TRANSITIONS
    BY DEF Receipt, PC, ActionLifecycleState, TRANSITIONS
  <2>2. PICK d : /\ task' = [task EXCEPT ![t] = d]
                 /\ Moved(d, c, "emit", "Succeeded", <<"VERIFICATION_RESULT">>, "store")
    BY <1>1, <1>2, <1>3, <2>1, EmitDriveTwo, Zenon DEF Set
  <2>3. StatusOK(d)
    BY <1>2, <2>2, Zenon DEF Moved, StatusOK, Stage, SameCall
  <2>4. \A k : In(k, d.emits) <=> k = "VERIFICATION_RESULT"
    BY <2>2, InOne, Zenon DEF Moved
  <2>5. ReceiptsOK(t, d)
    BY <1>2, <2>2, <2>4 DEF Moved, SameCall, ReceiptsOK, Stage, Ended, Received, Told
  <2>6. Continues(t, d)
    BY <1>0, <1>2, <1>3, <2>2, <2>3, <2>5, <1>a, SomeEmits, ZenonT(40) DEF Continues, Moved, Live
  <2> QED BY <2>6, ContinuesKeeps, Zenon
<1>4. CASE Set(t, Drive(Emitting(c, <<"VERIFICATION_RESULT">>, "store"), <<"Verifying", "Failed">>))
  <2>1. /\ <<"VERIFICATION_RESULT">> \in Seq(Receipt) /\ "store" \in PC
        /\ "Verifying" \in ActionLifecycleState /\ <<"Executing", "Verifying">> \in TRANSITIONS
        /\ "Failed" \in ActionLifecycleState /\ <<"Verifying", "Failed">> \in TRANSITIONS
    BY DEF Receipt, PC, ActionLifecycleState, TRANSITIONS
  <2>2. PICK d : task' = [task EXCEPT ![t] = d] /\ Moved(d, c, "emit", "Failed", <<"VERIFICATION_RESULT">>, "store")
    BY <1>1, <1>2, <1>4, <2>1, EmitDriveTwo, Zenon DEF Set
  <2>3. StatusOK(d)
    BY <1>2, <2>2, Zenon DEF Moved, StatusOK, Stage, SameCall
  <2>4. \A k : In(k, d.emits) <=> k = "VERIFICATION_RESULT"
    BY <2>2, InOne, Zenon DEF Moved
  <2>5. ReceiptsOK(t, d)
    BY <1>2, <2>2, <2>4 DEF Moved, SameCall, ReceiptsOK, Stage, Ended
  <2>6. Continues(t, d)
    BY <1>0, <1>2, <1>4, <2>2, <2>3, <2>5, <1>a, SomeEmits, ZenonT(40) DEF Continues, Moved, Live
  <2> QED BY <2>6, ContinuesKeeps, Zenon
<1>5. CASE c.op = "submit" /\ Set(t, Drive(Emitting(c, <<"VERIFICATION_RESULT">>, "rollback"), <<"Verifying", "Failed">>))
  <2>1. /\ <<"VERIFICATION_RESULT">> \in Seq(Receipt) /\ "rollback" \in PC
        /\ "Verifying" \in ActionLifecycleState /\ <<"Executing", "Verifying">> \in TRANSITIONS
        /\ "Failed" \in ActionLifecycleState /\ <<"Verifying", "Failed">> \in TRANSITIONS
    BY DEF Receipt, PC, ActionLifecycleState, TRANSITIONS
  <2>2. PICK d : /\ task' = [task EXCEPT ![t] = d]
                 /\ Moved(d, c, "emit", "Failed", <<"VERIFICATION_RESULT">>, "rollback")
    BY <1>1, <1>2, <1>5, <2>1, EmitDriveTwo, Zenon DEF Set
  <2>3. StatusOK(d)
    BY <1>2, <1>5, <2>2, Zenon DEF Moved, StatusOK, Stage, SameCall
  <2>4. \A k : In(k, d.emits) <=> k = "VERIFICATION_RESULT"
    BY <2>2, InOne, Zenon DEF Moved
  <2>5. ReceiptsOK(t, d)
    BY <1>2, <2>2, <2>4 DEF Moved, SameCall, ReceiptsOK, Stage, Ended, Received, Told
  <2>6. Continues(t, d)
    BY <1>0, <1>2, <1>5, <2>2, <2>3, <2>5, <1>a, SomeEmits, ZenonT(40) DEF Continues, Moved, Live
  <2> QED BY <2>6, ContinuesKeeps, Zenon
<1> QED BY <1>3, <1>4, <1>5, Zenon DEF Verify

\* rollback keeps RuntimeInv: a failed one raises its alert in the same step.
LEMMA RollbackKeeps ==
  ASSUME RuntimeInv, NEW t \in Tasks, Rollback(t)
  PROVE  RuntimeInv'
<1> DEFINE c == task[t]
<1>0. UNCHANGED <<contexts, log, bindings, passes>> /\ c.pc = "rollback" /\ Live(c)
  BY Zenon DEF Rollback, sinkVars, At, Live
<1>1. c \in TaskRecord /\ CallOK(t, c, log[c.action], passes[c.binding])
  BY <1>0, Begun, Zenon DEF RuntimeInv, Live
<1>2. c.op = "submit" /\ c.status = "Failed" /\ c.emits = <<>> /\ <<"ACTION_QUEUED", t>> \in c.chain
      /\ <<"EXECUTION_STARTED", t>> \in c.chain /\ <<"EXECUTION_COMPLETED", t>> \in c.chain
      /\ <<"VERIFICATION_RESULT", t>> \in c.chain
      /\ (\E u \in Tasks : <<"ACTION_RECEIVED", u>> \in c.chain)
  BY <1>0, <1>1, Settled, Zenon DEF StatusOK, Ended
<1>3. <<"ROLLBACK_COMPLETED">> \in Seq(Receipt) /\ "store" \in PC
  BY DEF Receipt, PC
<1>4. CASE Set(t, Goto(c, "store")) /\ alerts' = alerts
  <2>1. Moved(Goto(c, "store"), c, "store", "Failed", <<>>, c.next)
    BY <1>1, <1>2, <1>3, GotoIs, Zenon DEF Moved
  <2>2. PICK d : task' = [task EXCEPT ![t] = d] /\ Moved(d, c, "store", "Failed", <<>>, c.next)
    BY <1>4, <2>1, Zenon DEF Set
  <2>3. StatusOK(d)
    BY <1>2, <2>2, Zenon DEF Moved, StatusOK, Stage, SameCall
  <2>4. \A k : ~In(k, d.emits)
    BY <2>2, InNone, Zenon DEF Moved
  <2>5. ReceiptsOK(t, d)
    BY <2>2, <2>4, Zenon DEF Moved, SameCall, ReceiptsOK, Stage, Ended
  <2>6. Continues(t, d)
    BY <1>0, <1>2, <1>4, <2>2, <2>3, <2>5, Zenon DEF Continues, Moved, Live
  <2> QED BY <2>6, ContinuesKeeps, Zenon
<1>5. ASSUME NEW d, NEW s \in {"Failed", "RolledBack", "RollbackFailed"},
             task' = [task EXCEPT ![t] = d],
             Moved(d, c, "emit", s, <<"ROLLBACK_COMPLETED">>, "store"),
             (s # "RollbackFailed" /\ alerts' = alerts) \/ alerts' = alerts + 1
      PROVE  RuntimeInv'
  <2>3. StatusOK(d)
    BY <1>2, <1>5, Zenon DEF Moved, StatusOK, Stage, SameCall
  <2>4. \A k : In(k, d.emits) <=> k = "ROLLBACK_COMPLETED"
    BY <1>5, InOne, ZenonT(60) DEF Moved
  <2>5. ReceiptsOK(t, d)
    BY <1>2, <1>5, <2>4 DEF Moved, SameCall, ReceiptsOK, Stage, Ended, Received, Told
  <2>6. Continues(t, d)
    BY <1>0, <1>2, <1>5, <2>3, <2>5, SomeEmits, ZenonT(40) DEF Continues, Moved, Live
  <2> QED BY <2>6, ContinuesKeeps, Zenon
<1>6. CASE Set(t, Drive(Emitting(c, <<"ROLLBACK_COMPLETED">>, "store"), <<"RolledBack">>)) /\ alerts' = alerts
  <2>1. "RolledBack" \in ActionLifecycleState /\ <<"Failed", "RolledBack">> \in TRANSITIONS
    BY Zenon DEF ActionLifecycleState, TRANSITIONS
  <2>2. PICK d : /\ task' = [task EXCEPT ![t] = d]
                 /\ Moved(d, c, "emit", "RolledBack", <<"ROLLBACK_COMPLETED">>, "store")
    BY <1>1, <1>2, <1>3, <1>6, <2>1, EmitDrive, Zenon DEF Set
  <2> QED BY <1>5, <1>6, <2>2, Zenon
<1>7. CASE Set(t, Drive(Emitting(c, <<"ROLLBACK_COMPLETED">>, "store"), <<"RollbackFailed">>)) /\ alerts' = alerts + 1
  <2>1. "RollbackFailed" \in ActionLifecycleState /\ <<"Failed", "RollbackFailed">> \in TRANSITIONS
    BY Zenon DEF ActionLifecycleState, TRANSITIONS
  <2>2. PICK d : /\ task' = [task EXCEPT ![t] = d]
                 /\ Moved(d, c, "emit", "RollbackFailed", <<"ROLLBACK_COMPLETED">>, "store")
    BY <1>1, <1>2, <1>3, <1>7, <2>1, EmitDrive, Zenon DEF Set
  <2> QED BY <1>5, <1>7, <2>2, Zenon
<1>8. CASE Set(t, Emitting(c, <<"ROLLBACK_COMPLETED">>, "store")) /\ alerts' = alerts
  <2>1. Moved(Emitting(c, <<"ROLLBACK_COMPLETED">>, "store"), c, "emit", "Failed",
              <<"ROLLBACK_COMPLETED">>, "store")
    BY <1>1, <1>2, <1>3, EmitOnly, Zenon
  <2>2. PICK d : /\ task' = [task EXCEPT ![t] = d]
                 /\ Moved(d, c, "emit", "Failed", <<"ROLLBACK_COMPLETED">>, "store")
    BY <1>8, <2>1, Zenon DEF Set
  <2> QED BY <1>5, <1>8, <2>2, Zenon
<1>9. CASE Set(t, Return(c, "err")) /\ alerts' = alerts
  BY <1>0, <1>9, ReturnKeeps, Zenon
<1> QED BY <1>4, <1>6, <1>7, <1>8, <1>9, Zenon DEF Rollback

\* The receipts still to emit are the first and the rest.
LEMMA RestOfReceipts ==
  ASSUME NEW s \in Seq(Receipt), s # <<>>
  PROVE  /\ Head(s) \in Receipt /\ Tail(s) \in Seq(Receipt) /\ In(Head(s), s)
         /\ \A k : In(k, s) <=> (k = Head(s) \/ In(k, Tail(s)))
         /\ Len(s) > 1 <=> Tail(s) # <<>>
<1>1. Len(s) \in Nat \ {0} /\ Head(s) = s[1] /\ Head(s) \in Receipt
  OBVIOUS
<1>2. Tail(s) \in Seq(Receipt) /\ Len(Tail(s)) = Len(s) - 1
  OBVIOUS
<1>3. \A i \in 1..Len(Tail(s)) : Tail(s)[i] = s[i + 1]
  OBVIOUS
<1>4. In(Head(s), s)
  BY <1>1 DEF In
<1>5. ASSUME NEW k, In(k, s) PROVE k = Head(s) \/ In(k, Tail(s))
  <2>1. PICK i \in 1..Len(s) : s[i] = k
    BY <1>5, Zenon DEF In
  <2>2. CASE i = 1
    BY <1>1, <2>1, <2>2, Zenon
  <2>3. CASE i # 1
    <3>1. i - 1 \in 1..Len(Tail(s)) /\ Tail(s)[i - 1] = k
      BY <1>1, <1>2, <1>3, <2>1, <2>3
    <3> QED BY <3>1, Zenon DEF In
  <2> QED BY <2>2, <2>3, Zenon
<1>6. ASSUME NEW k, In(k, Tail(s)) PROVE In(k, s)
  <2>1. PICK i \in 1..Len(Tail(s)) : Tail(s)[i] = k
    BY <1>6, Zenon DEF In
  <2>2. i + 1 \in 1..Len(s) /\ s[i + 1] = k
    BY <1>1, <1>2, <1>3, <2>1
  <2> QED BY <2>2, Zenon DEF In
<1>7. Len(s) > 1 <=> Tail(s) # <<>>
  <2>1. Tail(s) = <<>> <=> Len(Tail(s)) = 0
    BY <1>2
  <2> QED BY <1>1, <1>2, <2>1
<1> QED BY <1>1, <1>2, <1>4, <1>5, <1>6, <1>7, Zenon

\* A receipt emitted enters the chain of the context and leaves the list.
LEMMA NotedIs ==
  ASSUME NEW t \in Tasks, NEW c \in TaskRecord, NEW k \in Receipt, Tail(c.emits) \in Seq(Receipt)
  PROVE  LET m == [c EXCEPT !.chain = @ \cup {<<k, t>>}, !.emits = Tail(@)] IN
         /\ m \in TaskRecord /\ SameCall(m, c) /\ m.status = c.status /\ m.pc = c.pc /\ m.next = c.next
         /\ m.chain = c.chain \cup {<<k, t>>} /\ m.emits = Tail(c.emits)
<1>1. c.chain \in SUBSET (Receipt \X Tasks) /\ <<k, t>> \in Receipt \X Tasks
  BY Zenon DEF TaskRecord
<1>2. PICK C \in SUBSET (Receipt \X Tasks) : C = c.chain \cup {<<k, t>>}
  BY <1>1, Zenon
<1>3. PICK q \in Seq(Receipt) : q = Tail(c.emits)
  BY Zenon
<1>4. [c EXCEPT !.chain = @ \cup {<<k, t>>}, !.emits = Tail(@)] = [c EXCEPT !.chain = C, !.emits = q]
  BY <1>2, <1>3, Zenon DEF TaskRecord
<1>5. LET m == [c EXCEPT !.chain = C, !.emits = q] IN
      /\ m \in TaskRecord /\ SameCall(m, c) /\ m.status = c.status /\ m.pc = c.pc /\ m.next = c.next
      /\ m.chain = C /\ m.emits = q
  BY Zenon DEF TaskRecord, SameCall
<1> QED BY <1>2, <1>3, <1>4, <1>5, Zenon

\* The record of a call whose first receipt has been written.
LEMMA EmittedIs ==
  ASSUME NEW t \in Tasks, NEW c \in TaskRecord, c.emits # <<>>, c.next # "err"
  PROVE  LET d == Emitted(c, <<Head(c.emits), t>>) IN
         /\ d \in TaskRecord /\ SameCall(d, c) /\ d.status = c.status
         /\ d.chain = c.chain \cup {<<Head(c.emits), t>>} /\ d.emits = Tail(c.emits)
         /\ \/ Tail(c.emits) # <<>> /\ d.pc = c.pc /\ d.next = c.next
            \/ Tail(c.emits) = <<>> /\ d.pc = c.next
<1>1. c.emits \in Seq(Receipt) /\ c.next \in PC /\ c.chain \in SUBSET (Receipt \X Tasks)
  BY Zenon DEF TaskRecord
<1>2. Head(c.emits) \in Receipt /\ Tail(c.emits) \in Seq(Receipt)
      /\ (Len(c.emits) > 1 <=> Tail(c.emits) # <<>>)
  BY <1>1, RestOfReceipts, Zenon
<1> DEFINE m == [c EXCEPT !.chain = @ \cup {<<Head(c.emits), t>>}, !.emits = Tail(@)]
<1>3. /\ m \in TaskRecord /\ SameCall(m, c) /\ m.status = c.status /\ m.pc = c.pc /\ m.next = c.next
      /\ m.chain = c.chain \cup {<<Head(c.emits), t>>} /\ m.emits = Tail(c.emits)
  BY <1>1, <1>2, NotedIs, ZenonT(40)
<1>4. Emitted(c, <<Head(c.emits), t>>) =
        IF Len(c.emits) > 1 THEN m ELSE [m EXCEPT !.pc = c.next, !.next = "idle"]
  BY Zenon DEF Emitted
<1> HIDE DEF m
<1>5. CASE Tail(c.emits) # <<>>
  BY <1>2, <1>3, <1>4, <1>5, Zenon
<1>6. CASE Tail(c.emits) = <<>>
  <2> DEFINE e == [m EXCEPT !.pc = c.next, !.next = "idle"]
  <2>1. e \in TaskRecord /\ SameCall(e, m) /\ e.status = m.status /\ e.chain = m.chain
        /\ e.emits = m.emits /\ e.pc = c.next
    BY <1>1, <1>3, ZenonT(40) DEF TaskRecord, SameCall, PC
  <2>2. Emitted(c, <<Head(c.emits), t>>) = e
    BY <1>2, <1>4, <1>6, Zenon
  <2> HIDE DEF e
  <2> QED BY <1>3, <1>6, <2>1, <2>2, Zenon DEF SameCall
<1> QED BY <1>5, <1>6, Zenon

\* A call that will return an error emits its receipts and returns it.
LEMMA EmittedErr ==
  ASSUME NEW t \in Tasks, NEW c \in TaskRecord, c.emits # <<>>, c.next = "err"
  PROVE  LET d == Emitted(c, <<Head(c.emits), t>>) IN
         /\ d \in TaskRecord /\ SameCall(d, c) /\ d.status = c.status
         /\ \/ /\ Tail(c.emits) # <<>> /\ d.pc = c.pc /\ d.next = c.next
               /\ d.chain = c.chain \cup {<<Head(c.emits), t>>} /\ d.emits = Tail(c.emits)
            \/ Tail(c.emits) = <<>> /\ d.pc = "err"
<1>1. c.emits \in Seq(Receipt) /\ c.next \in PC /\ c.chain \in SUBSET (Receipt \X Tasks)
  BY Zenon DEF TaskRecord
<1>2. Head(c.emits) \in Receipt /\ Tail(c.emits) \in Seq(Receipt)
      /\ (Len(c.emits) > 1 <=> Tail(c.emits) # <<>>)
  BY <1>1, RestOfReceipts, Zenon
<1> DEFINE m == [c EXCEPT !.chain = @ \cup {<<Head(c.emits), t>>}, !.emits = Tail(@)]
<1>3. /\ m \in TaskRecord /\ SameCall(m, c) /\ m.status = c.status /\ m.pc = c.pc /\ m.next = c.next
      /\ m.chain = c.chain \cup {<<Head(c.emits), t>>} /\ m.emits = Tail(c.emits)
  BY <1>1, <1>2, NotedIs, Zenon
<1>4. Emitted(c, <<Head(c.emits), t>>) = IF Len(c.emits) > 1 THEN m ELSE Return(m, "err")
  BY Zenon DEF Emitted
<1> HIDE DEF m
<1>5. CASE Tail(c.emits) # <<>>
  BY <1>2, <1>3, <1>4, <1>5, Zenon
<1>6. CASE Tail(c.emits) = <<>>
  <2>1. Return(m, "err") \in TaskRecord /\ SameCall(Return(m, "err"), m)
        /\ Return(m, "err").status = m.status /\ Return(m, "err").pc = "err"
    BY <1>3, ReturnIs, Zenon
  <2>2. Emitted(c, <<Head(c.emits), t>>) = Return(m, "err")
    BY <1>2, <1>4, <1>6, Zenon
  <2> QED BY <1>3, <1>6, <2>1, <2>2, Zenon DEF SameCall
<1> QED BY <1>5, <1>6, Zenon

\* A call that has written a receipt is still in order.
LEMMA EmittedOK ==
  ASSUME NEW t \in Tasks, NEW c \in TaskRecord, NEW L, NEW P, CallOK(t, c, L, P), c.pc = "emit"
  PROVE  LET d == Emitted(c, <<Head(c.emits), t>>) IN
         /\ d \in TaskRecord /\ SameCall(d, c) /\ d.status = c.status
         /\ CallOK(t, d, L \cup {<<Head(c.emits), t>>}, P)
<1> DEFINE r == Head(c.emits)  d == Emitted(c, <<r, t>>)
<1>1. c.emits # <<>> /\ StatusOK(c) /\ ReceiptsOK(t, c) /\ c.chain \subseteq L /\ Stage(c) = c.next /\ Live(c)
  BY Zenon DEF CallOK, Stage, Live
<1>2. c.emits \in Seq(Receipt)
  BY Zenon DEF TaskRecord
<1>3. \A k : In(k, c.emits) <=> (k = r \/ In(k, Tail(c.emits)))
  BY <1>1, <1>2, RestOfReceipts, Zenon
<1>4. \A k : ~In(k, <<>>)
  BY InNone, Zenon
<1>5. CASE c.next # "err"
  <2>1. /\ d \in TaskRecord /\ SameCall(d, c) /\ d.status = c.status
        /\ d.chain = c.chain \cup {<<r, t>>} /\ d.emits = Tail(c.emits)
        /\ \/ d.emits # <<>> /\ d.pc = "emit" /\ d.next = c.next
           \/ d.emits = <<>> /\ d.pc = c.next
    BY <1>1, <1>5, EmittedIs, Zenon
  <2> HIDE DEF d
  <2>2. c.next \notin {"emit", "idle", "ok", "invalid"}
    BY <1>1, Zenon DEF StatusOK
  <2>3. Stage(d) = Stage(c) /\ Live(d) /\ (d.pc = "emit" <=> d.emits # <<>>)
    BY <1>1, <1>5, <2>1, <2>2, Zenon DEF Stage, Live
  <2>4. StatusOK(d)
    BY <1>1, <2>1, <2>3, Zenon DEF StatusOK, SameCall
  <2>5. \A k : (In(k, c.emits) => k = r \/ In(k, d.emits)) /\ (In(k, d.emits) => In(k, c.emits))
    BY <1>3, <2>1, Zenon
  <2>6. \A k : Told(c, k, t) => Told(d, k, t)
    BY <2>1, <2>5, Zenon DEF Told
  <2>7. Received(c) => Received(d)
    BY <2>1, <2>5, Zenon DEF Received
  <2>8. Authority(d) = Authority(c) /\ d.op = c.op
    BY <2>1, Zenon DEF Authority, SameCall
  <2>9. ReceiptsOK(t, d)
    BY <1>1, <2>1, <2>3, <2>5, <2>6, <2>7, <2>8, Zenon DEF ReceiptsOK
  <2>10. CallOK(t, d, L \cup {<<r, t>>}, P)
    BY <1>1, <2>1, <2>3, <2>4, <2>9, Zenon DEF CallOK, SameCall
  <2> QED BY <2>1, <2>10, Zenon DEF d
<1>6. CASE c.next = "err"
  <2>1. /\ d \in TaskRecord /\ SameCall(d, c) /\ d.status = c.status
        /\ \/ /\ d.emits # <<>> /\ d.pc = "emit" /\ d.next = c.next
              /\ d.chain = c.chain \cup {<<r, t>>} /\ d.emits = Tail(c.emits)
           \/ d.pc = "err"
    BY <1>1, <1>6, EmittedErr, Zenon
  <2> HIDE DEF d
  <2>2. CASE d.pc = "err"
    <3>1. CallOK(t, d, L \cup {<<r, t>>}, P)
      BY <2>1, <2>2, Zenon DEF CallOK, SameCall, Live
    <3> QED BY <2>1, <3>1, Zenon DEF d
  <2>3. CASE /\ d.emits # <<>> /\ d.pc = "emit" /\ d.next = c.next
             /\ d.chain = c.chain \cup {<<r, t>>} /\ d.emits = Tail(c.emits)
    <3>1. Stage(d) = Stage(c) /\ Live(d)
      BY <1>1, <2>3, Zenon DEF Stage, Live
    <3>2. StatusOK(d)
      BY <1>1, <2>1, <3>1, Zenon DEF StatusOK, SameCall
    <3>3. \A k : (In(k, c.emits) => k = r \/ In(k, d.emits)) /\ (In(k, d.emits) => In(k, c.emits))
      BY <1>3, <2>3, Zenon
    <3>4. \A k : Told(c, k, t) => Told(d, k, t)
      BY <2>3, <3>3, Zenon DEF Told
    <3>5. Received(c) => Received(d)
      BY <2>3, <3>3, Zenon DEF Received
    <3>6. Authority(d) = Authority(c) /\ d.op = c.op
      BY <2>1, Zenon DEF Authority, SameCall
    <3>7. ReceiptsOK(t, d)
      BY <1>1, <2>1, <2>3, <3>1, <3>3, <3>4, <3>5, <3>6, ZenonT(30) DEF ReceiptsOK
    <3>8. CallOK(t, d, L \cup {<<r, t>>}, P)
      BY <1>1, <2>1, <2>3, <3>1, <3>2, <3>7, ZenonT(30) DEF CallOK, SameCall
    <3> QED BY <2>1, <3>8, Zenon DEF d
  <2> QED BY <2>1, <2>2, <2>3, Zenon
<1> QED BY <1>5, <1>6, Zenon

\* Statuses, actions and bindings of the calls are as before.
SameStatuses == \A u \in Tasks : SameCall(task'[u], task[u]) /\ task'[u].status = task[u].status

\* Alerts and resumptions are counted by the statuses of the calls.
LEMMA StatusesKept ==
  ASSUME AlertsInv, OneResumePerBinding, SameStatuses, alerts' = alerts
  PROVE  AlertsInv' /\ OneResumePerBinding'
<1>1. {u \in Tasks : task'[u].status = "RollbackFailed"} = {u \in Tasks : task[u].status = "RollbackFailed"}
  BY Zenon DEF SameStatuses
<1>2. AlertsInv'
  BY <1>1, Zenon DEF AlertsInv
<1>3. OneResumePerBinding'
  BY DEF OneResumePerBinding, Calls, SameStatuses, SameCall
<1> QED BY <1>2, <1>3, Zenon

\* What is stored stays justified while the log grows.
LEMMA ContextsKept ==
  ASSUME ContextsInv, contexts' = contexts, \A a \in Actions : log[a] \subseteq log'[a],
         \A u \in Tasks : task[u].status = "RollbackFailed" =>
            task'[u].status = "RollbackFailed" /\ task'[u].action = task[u].action
  PROVE  ContextsInv'
<1>1. ASSUME NEW a \in Actions PROVE StoredOK(a)'
  <2>1. StoredOK(a) /\ log[a] \subseteq log'[a]
    BY Zenon DEF ContextsInv
  <2> QED BY <2>1, Zenon DEF StoredOK
<1> QED BY <1>1, Zenon DEF ContextsInv

\* Consuming or expiring a binding keeps SinkInv.
LEMMA SinkMoves ==
  ASSUME SinkInv, NEW b \in Bindings, bindings[b] # Absent, NEW s \in {"Expired", "Consumed"},
         bindings' = [bindings EXCEPT ![b].state = s], passes' \in [Bindings -> Nat],
         \A e \in Bindings : e # b => passes'[e] = passes[e]
  PROVE  SinkInv'
<1>1. bindings[b] \in Sink!Binding
  BY Zenon DEF SinkInv
<1>2. [bindings[b] EXCEPT !.state = s] \in Sink!Binding /\ [bindings[b] EXCEPT !.state = s].state = s
  BY <1>1, Zenon DEF Sink!Binding, Sink!BindingState
<1>3. PICK x \in Sink!Binding : x.state = s /\ bindings' = [bindings EXCEPT ![b] = x]
  BY <1>2, Zenon
<1>4. bindings' \in [Bindings -> {Absent} \cup Sink!Binding]
  BY <1>3, Zenon DEF SinkInv
<1>5. bindings'[b] = x /\ \A e \in Bindings : e # b => bindings'[e] = bindings[e]
  BY <1>3, Zenon DEF SinkInv
<1>6. x # Absent
  BY AbsentAssumption, Zenon
<1>7. \A e \in Bindings : bindings'[e] = Absent \/ bindings'[e].state = "Granted" => passes'[e] = 0
  BY <1>3, <1>5, <1>6, Zenon DEF SinkInv
<1> QED BY <1>4, <1>7, Zenon DEF SinkInv

\* Emitting a receipt keeps RuntimeInv: the chain of the context stays within the log.
LEMMA EmitKeeps ==
  ASSUME RuntimeInv, NEW t \in Tasks, Emit(t)
  PROVE  RuntimeInv'
<1> DEFINE c == task[t]  r == Head(c.emits)  d == Emitted(c, <<r, t>>)
<1>0. UNCHANGED <<contexts, alerts, bindings, passes>> /\ c.pc = "emit" /\ Live(c)
  BY Zenon DEF Emit, sinkVars, At, Live
<1>1. c \in TaskRecord /\ CallOK(t, c, log[c.action], passes[c.binding])
  BY <1>0, Begun, Zenon DEF RuntimeInv, Live
<1>2. CASE Set(t, Return(c, "err")) /\ log' = log
  BY <1>0, <1>2, ReturnKeeps, Zenon
<1>3. CASE log' = [log EXCEPT ![c.action] = @ \cup {<<r, t>>}] /\ Set(t, d)
  <2>0. TasksInv /\ SinkInv /\ LogInv /\ ContextsInv /\ AlertsInv /\ OneResumePerBinding
    BY Zenon DEF RuntimeInv
  <2>1. /\ d \in TaskRecord /\ SameCall(d, c) /\ d.status = c.status
        /\ CallOK(t, d, log[c.action] \cup {<<r, t>>}, passes[c.binding])
    BY <1>0, <1>1, EmittedOK, Zenon
  <2>2. task' = [task EXCEPT ![t] = d]
    BY <1>3, Zenon DEF Set
  <2>3. c.emits # <<>> /\ c.emits \in Seq(Receipt) /\ c.action \in Actions /\ ReceiptsOK(t, c) /\ StatusOK(c)
    BY <1>0, <1>1, Zenon DEF CallOK, TaskRecord
  <2>4. r \in Receipt /\ In(r, c.emits)
    BY <2>3, RestOfReceipts, Zenon
  <2> HIDE DEF d, r
  <2>5. log[c.action] \in SUBSET (Receipt \X Tasks) /\ log \in [Actions -> SUBSET (Receipt \X Tasks)]
    BY <2>0, <2>3, Zenon DEF LogInv
  <2>6. /\ log'[c.action] = log[c.action] \cup {<<r, t>>}
        /\ \A a \in Actions : a # c.action => log'[a] = log[a]
    BY <1>3, <2>3, <2>5, Zenon
  <2>7. \A a \in Actions : log[a] \subseteq log'[a]
    BY <2>6, Zenon
  <2>8. log' \in [Actions -> SUBSET (Receipt \X Tasks)]
    <3>1. log[c.action] \cup {<<r, t>>} \in SUBSET (Receipt \X Tasks)
      BY <2>4, <2>5
    <3> QED BY <1>3, <2>5, <3>1, Zenon
  <2>9. CallOK(t, d, log'[d.action], passes'[d.binding])
    BY <1>0, <2>1, <2>6, Zenon DEF SameCall
  <2>10. TasksInv'
    BY <1>0, <2>0, <2>1, <2>2, <2>7, <2>9, TasksMove, Zenon
  <2>11. SameStatuses
    BY <2>0, <2>1, <2>2, Zenon DEF TasksInv, SameCall, SameStatuses
  <2>12. SinkInv'
    BY <1>0, <2>0, Zenon DEF SinkInv
  <2>13. r = "APPROVAL_GRANTED" => c.binding \in Bindings
    BY <1>1, <2>3, <2>4, Zenon DEF ReceiptsOK, CallOK
  <2>14. c.op # "none"
    BY <1>1, Zenon DEF CallOK
  <2>15. \A a \in Actions, k \in Receipt, u \in Tasks : <<k, u>> \in log'[a] =>
           \/ <<k, u>> \in log[a]
           \/ k = r /\ u = t /\ a = c.action
    <3> SUFFICES ASSUME NEW a \in Actions, NEW k \in Receipt, NEW u \in Tasks, <<k, u>> \in log'[a]
                 PROVE  \/ <<k, u>> \in log[a]
                        \/ k = r /\ u = t /\ a = c.action
      BY Zenon
    <3>1. CASE a # c.action
      BY <2>6, <3>1, Zenon
    <3>2. CASE a = c.action
      <4>1. <<k, u>> \in log[a] \/ <<k, u>> = <<r, t>>
        BY <2>6, <3>2, Zenon
      <4> QED BY <3>2, <4>1, Zenon
    <3> QED BY <3>1, <3>2, Zenon
  <2>16. ASSUME NEW a \in Actions, NEW k \in Receipt, NEW u \in Tasks, <<k, u>> \in log'[a]
         PROVE  /\ task'[u].op # "none" /\ task'[u].action = a
                /\ k = "APPROVAL_GRANTED" => task'[u].binding \in Bindings
    <3>1. /\ task[u].op # "none" /\ task[u].action = a
          /\ k = "APPROVAL_GRANTED" => task[u].binding \in Bindings
      BY <2>0, <2>13, <2>14, <2>15, <2>16 DEF LogInv
    <3> QED BY <2>11, <3>1 DEF SameStatuses, SameCall
  <2>17. ASSUME NEW a \in Actions, NEW u \in Tasks, <<"EXECUTION_STARTED", u>> \in log'[a]
         PROVE  /\ <<"ACTION_QUEUED", u>> \in log'[a]
                /\ \/ <<"POLICY_ALLOW", u>> \in log'[a]
                   \/ <<"APPROVAL_GRANTED", u>> \in log'[a] /\ passes'[task'[u].binding] = 1
    <3>0. task'[u].binding = task[u].binding
      BY <2>11, Zenon DEF SameStatuses, SameCall
    <3>1. CASE <<"EXECUTION_STARTED", u>> \in log[a]
      <4>1. /\ <<"ACTION_QUEUED", u>> \in log[a]
            /\ \/ <<"POLICY_ALLOW", u>> \in log[a]
               \/ <<"APPROVAL_GRANTED", u>> \in log[a] /\ passes[task[u].binding] = 1
        BY <2>0, <3>1, Zenon DEF LogInv, ExecutionAuthorised
      <4> QED BY <1>0, <2>7, <3>0, <4>1, Zenon
    <3>2. CASE r = "EXECUTION_STARTED" /\ u = t /\ a = c.action
      <4>1. Stage(c) = "verify" /\ <<"ACTION_QUEUED", t>> \in c.chain /\ <<Authority(c), t>> \in c.chain
        BY <2>3, <2>4, <3>2, Zenon DEF ReceiptsOK
      <4>2. c.chain \subseteq log[a] /\ c.status = "Executing"
        BY <1>0, <1>1, <2>3, <3>2, <4>1, ZenonT(40) DEF CallOK, StatusOK
      <4>3. c.op \in {"submit", "resume"} /\ (c.op = "resume" => passes[c.binding] = 1)
        BY <1>1, <4>2, Zenon DEF CallOK
      <4> QED BY <1>0, <2>7, <3>0, <3>2, <4>1, <4>2, <4>3, ZenonT(40) DEF Authority
    <3>3. "EXECUTION_STARTED" \in Receipt
      BY Zenon DEF Receipt
    <3> QED BY <2>15, <2>17, <3>1, <3>2, <3>3, Zenon
  <2>18. LogInv'
    BY <2>8, <2>16, <2>17, Zenon DEF LogInv, ExecutionAuthorised
  <2>19. ContextsInv'
    BY <1>0, <2>0, <2>7, <2>11, ContextsKept, Zenon DEF SameStatuses, SameCall
  <2> QED BY <1>0, <2>0, <2>10, <2>11, <2>12, <2>18, <2>19, StatusesKept, ZenonT(40) DEF RuntimeInv
<1> QED BY <1>2, <1>3, Zenon DEF Emit

\* Storing the context keeps RuntimeInv: the stored chain is in the log.
LEMMA StoreKeeps ==
  ASSUME RuntimeInv, NEW t \in Tasks, Store(t)
  PROVE  RuntimeInv'
<1> DEFINE c == task[t]  d == Return(c, "ok")  x == [status |-> c.status, chain |-> c.chain]
<1>0. UNCHANGED <<log, alerts, bindings, passes>> /\ c.pc = "store" /\ Live(c)
      /\ task' = [task EXCEPT ![t] = d] /\ contexts' = [contexts EXCEPT ![c.action] = x]
  BY Zenon DEF Store, sinkVars, At, Live, Set
<1>1. c \in TaskRecord /\ CallOK(t, c, log[c.action], passes[c.binding])
  BY <1>0, Begun, Zenon DEF RuntimeInv, Live
<1>2. TasksInv /\ SinkInv /\ LogInv /\ ContextsInv /\ AlertsInv /\ OneResumePerBinding
  BY Zenon DEF RuntimeInv
<1>3. d \in TaskRecord /\ SameCall(d, c) /\ d.status = c.status
      /\ CallOK(t, d, log[c.action], passes[c.binding])
  BY <1>1, ReturnIs, ReturnOK, Zenon
<1>4. c.action \in Actions /\ StatusOK(c) /\ Stage(c) = "store" /\ c.chain \subseteq log[c.action]
  BY <1>0, <1>1, Settled, Zenon DEF CallOK
<1>5. /\ c.status \in Ended \cup {"ApprovalPending"} => \E u \in Tasks : <<"ACTION_RECEIVED", u>> \in c.chain
      /\ c.status \in Ended => \A k \in {"ACTION_QUEUED", "EXECUTION_STARTED",
                                         "EXECUTION_COMPLETED", "VERIFICATION_RESULT"} :
                                  <<k, t>> \in c.chain
  BY <1>0, <1>1, Settled, Zenon
<1>6. c.status \in {"ApprovalPending", "PolicyDenied", "Failed"} \cup Ended
  BY <1>4, Zenon DEF StatusOK, Ended
<1>7. x \in Context
  BY <1>1, Zenon DEF Context, TaskRecord
<1>8. x.status = c.status /\ x.chain = c.chain
  BY Zenon
<1> HIDE DEF d, x
<1>9. SameStatuses
  BY <1>0, <1>2, <1>3, Zenon DEF TasksInv, SameCall, SameStatuses
<1>10. TasksInv'
  <2>1. CallOK(t, d, log'[d.action], passes'[d.binding])
    BY <1>0, <1>3, Zenon DEF SameCall
  <2> QED BY <1>0, <1>2, <1>3, <2>1, TasksMove, Zenon
<1>11. SinkInv'
  BY <1>0, <1>2, Zenon DEF SinkInv
<1>12. LogInv'
  BY <1>0, <1>2, <1>9 DEF LogInv, SameStatuses, SameCall, ExecutionAuthorised
<1>13. contexts'[c.action] = x /\ \A a \in Actions : a # c.action => contexts'[a] = contexts[a]
  BY <1>0, <1>2, <1>4, Zenon DEF ContextsInv
<1>14. contexts' \in [Actions -> {Absent} \cup Context]
  BY <1>0, <1>2, <1>7, Zenon DEF ContextsInv
<1>15. ASSUME NEW a \in Actions PROVE StoredOK(a)'
  <2>1. CASE a = c.action
    <3>1. contexts'[a] = x /\ task'[t].action = a /\ task'[t].status = c.status
      BY <1>9, <1>13, <2>1, Zenon DEF SameStatuses, SameCall
    <3> QED BY <1>0, <1>4, <1>5, <1>6, <1>8, <2>1, <3>1, ZenonT(40) DEF StoredOK
  <2>2. CASE a # c.action
    <3>1. contexts'[a] = contexts[a] /\ StoredOK(a)
      BY <1>2, <1>13, <2>2, Zenon DEF ContextsInv
    <3> QED BY <1>0, <1>9, <3>1, ZenonT(40) DEF StoredOK, SameStatuses, SameCall
  <2> QED BY <2>1, <2>2, Zenon
<1>16. ContextsInv'
  BY <1>14, <1>15, Zenon DEF ContextsInv
<1> QED BY <1>0, <1>2, <1>9, <1>10, <1>11, <1>12, <1>16, StatusesKept, ZenonT(30) DEF RuntimeInv

\* consume_binding keeps RuntimeInv: a binding passes once.
LEMMA ConsumeKeeps ==
  ASSUME RuntimeInv, NEW t \in Tasks, ConsumeBinding(t)
  PROVE  RuntimeInv'
<1> DEFINE c == task[t]  b == c.binding
<1>0. UNCHANGED <<contexts, log, alerts>> /\ c.pc = "consume" /\ Live(c)
  BY Zenon DEF ConsumeBinding, At, Live
<1>1. c \in TaskRecord /\ CallOK(t, c, log[c.action], passes[c.binding])
  BY <1>0, Begun, Zenon DEF RuntimeInv, Live
<1>2. c.op = "resume" /\ c.status = "ApprovalPending" /\ c.emits = <<>> /\ c.chain \subseteq log[c.action]
      /\ (\E u \in Tasks : <<"ACTION_RECEIVED", u>> \in c.chain) /\ b \in Bindings /\ c.action \in Actions
      /\ c.envelope \in Envelopes
  BY <1>0, <1>1, Settled, Zenon DEF StatusOK, Ended, CallOK
<1>3. TasksInv /\ SinkInv /\ LogInv /\ ContextsInv /\ AlertsInv /\ OneResumePerBinding
  BY Zenon DEF RuntimeInv
<1>4. CASE Set(t, Return(c, "err")) /\ Sink!ConsumeRefused(b)
  <2>1. UNCHANGED <<bindings, passes>>
    BY <1>4, Zenon DEF Sink!ConsumeRefused, Sink!sinkVars
  <2> QED BY <1>0, <1>4, <2>1, ReturnKeeps, Zenon
<1>5. CASE Set(t, Return(c, "err")) /\ Sink!ConsumeExpired(b)
  <2> DEFINE d == Return(c, "err")
  <2>1. passes' = passes /\ bindings' = [bindings EXCEPT ![b].state = "Expired"] /\ bindings[b] # Absent
    BY <1>5, Zenon DEF Sink!ConsumeExpired, Sink!IsGranted
  <2>2. SinkInv'
    BY <1>2, <1>3, <2>1, SinkMoves, Zenon DEF SinkInv
  <2>3. d \in TaskRecord /\ SameCall(d, c) /\ d.status = c.status
        /\ CallOK(t, d, log[c.action], passes[c.binding]) /\ task' = [task EXCEPT ![t] = d]
    BY <1>1, <1>5, ReturnIs, ReturnOK, Zenon DEF Set
  <2> HIDE DEF d
  <2>4. SameStatuses
    BY <1>3, <2>3, Zenon DEF TasksInv, SameCall, SameStatuses
  <2>5. CallOK(t, d, log'[d.action], passes'[d.binding])
    BY <1>0, <2>1, <2>3, Zenon DEF SameCall
  <2>6. TasksInv'
    BY <1>0, <1>3, <2>1, <2>3, <2>5, TasksMove, ZenonT(40)
  <2>7. LogInv'
    BY <1>0, <1>3, <2>1, <2>4 DEF LogInv, SameStatuses, SameCall, ExecutionAuthorised
  <2>8. ContextsInv'
    BY <1>0, <1>3, <2>4, ContextsKept, Zenon DEF SameStatuses, SameCall
  <2> QED BY <1>0, <1>3, <2>2, <2>4, <2>6, <2>7, <2>8, StatusesKept, ZenonT(30) DEF RuntimeInv
<1>6. ASSUME NEW d, Sink!ConsumeGranted(b), task' = [task EXCEPT ![t] = d], d \in TaskRecord,
             SameCall(d, c), d.chain = c.chain, d.pc = "emit", d.emits # <<>>,
             StatusOK(d), ReceiptsOK(t, d), d.status # "RollbackFailed"
      PROVE  RuntimeInv'
  <2>1. /\ passes' = [passes EXCEPT ![b] = @ + 1] /\ bindings[b] # Absent /\ bindings[b].state = "Granted"
        /\ bindings' = [bindings EXCEPT ![b].state = "Consumed"]
    BY <1>6, Zenon DEF Sink!ConsumeGranted, Sink!Consumable, Sink!IsGranted
  <2>2. passes[b] = 0 /\ passes'[b] = 1 /\ \A e \in Bindings : e # b => passes'[e] = passes[e]
    BY <1>2, <1>3, <2>1 DEF SinkInv
  <2>3. SinkInv'
    <3>1. passes' \in [Bindings -> Nat]
      BY <1>2, <1>3, <2>1 DEF SinkInv
    <3> QED BY <1>2, <1>3, <2>1, <2>2, <3>1, SinkMoves, ZenonT(40)
  <2>4. \A e \in Bindings : passes[e] = 1 => passes'[e] = 1
    BY <2>2, Zenon
  <2>5. d.op = "resume" /\ d.action = c.action /\ d.binding = b /\ d.envelope = c.envelope
    BY <1>2, <1>6, Zenon DEF SameCall
  <2>6. CallOK(t, d, log'[d.action], passes'[d.binding])
    BY <1>0, <1>2, <1>6, <2>2, <2>5, Zenon DEF CallOK, Live
  <2>7. TasksInv'
    BY <1>0, <1>3, <1>6, <2>4, <2>6, TasksMove, Zenon
  <2>8. \A u \in Tasks : /\ SameCall(task'[u], task[u])
                         /\ task'[u].status = "RollbackFailed" <=> task[u].status = "RollbackFailed"
                         /\ u # t => task'[u] = task[u]
    BY <1>2, <1>3, <1>6, Zenon DEF TasksInv, SameCall
  <2>9. LogInv'
    <3>1. ASSUME NEW a \in Actions, NEW u \in Tasks, <<"EXECUTION_STARTED", u>> \in log[a]
          PROVE  /\ <<"ACTION_QUEUED", u>> \in log[a]
                 /\ \/ <<"POLICY_ALLOW", u>> \in log[a]
                    \/ <<"APPROVAL_GRANTED", u>> \in log[a] /\ passes'[task'[u].binding] = 1
      <4>1. /\ <<"ACTION_QUEUED", u>> \in log[a]
            /\ \/ <<"POLICY_ALLOW", u>> \in log[a]
               \/ <<"APPROVAL_GRANTED", u>> \in log[a] /\ passes[task[u].binding] = 1
        BY <1>3, <3>1, Zenon DEF LogInv, ExecutionAuthorised
      <4>2. "APPROVAL_GRANTED" \in Receipt
        BY Zenon DEF Receipt
      <4>3. <<"APPROVAL_GRANTED", u>> \in log[a] => task[u].binding \in Bindings
        BY <1>3, <4>2, Zenon DEF LogInv
      <4>4. task'[u].binding = task[u].binding
        BY <2>8, Zenon DEF SameCall
      <4> QED BY <2>4, <4>1, <4>3, <4>4, ZenonT(40)
    <3>2. ExecutionAuthorised'
      BY <1>0, <3>1, Zenon DEF ExecutionAuthorised
    <3> QED BY <1>0, <1>3, <2>8, <3>2 DEF LogInv, SameCall
  <2>10. ContextsInv'
    BY <1>0, <1>3, <2>8, ContextsKept, Zenon DEF SameCall
  <2>11. AlertsInv'
    <3>1. {u \in Tasks : task'[u].status = "RollbackFailed"} = {u \in Tasks : task[u].status = "RollbackFailed"}
      BY <2>8, Zenon
    <3> QED BY <1>0, <1>3, <3>1, Zenon DEF AlertsInv
  <2>12. OneResumePerBinding'
    <3>1. ASSUME NEW u \in Tasks, u # t, task[u].op = "resume", task[u].binding = b,
                 task[u].status \notin {"Created", "ApprovalPending"}
          PROVE  FALSE
      <4>1. CallOK(u, task[u], log[task[u].action], passes[b])
        <5>1. task[u] # Idle
          BY <3>1 DEF Idle
        <5>2. CallOK(u, task[u], log[task[u].action], passes[task[u].binding])
          BY <1>3, <5>1, Zenon DEF TasksInv
        <5> QED BY <3>1, <5>2, Zenon
      <4>2. passes[b] = 1
        BY <3>1, <4>1, Zenon DEF CallOK
      <4> QED BY <2>2, <4>2
    <3> QED BY <1>3, <2>5, <2>8, <3>1 DEF OneResumePerBinding, Calls, SameCall
  <2> QED BY <2>3, <2>7, <2>9, <2>10, <2>11, <2>12, Zenon DEF RuntimeInv
<1>7. CASE Sink!ConsumeGranted(b) /\ Set(t, Drive(Emitting(c, <<"APPROVAL_GRANTED">>, "queue"), <<"Approved">>))
  <2>1. <<"APPROVAL_GRANTED">> \in Seq(Receipt) /\ "queue" \in PC
        /\ "Approved" \in ActionLifecycleState /\ <<"ApprovalPending", "Approved">> \in TRANSITIONS
    BY DEF Receipt, PC, ActionLifecycleState, TRANSITIONS
  <2>2. PICK d : task' = [task EXCEPT ![t] = d] /\ Moved(d, c, "emit", "Approved", <<"APPROVAL_GRANTED">>, "queue")
    BY <1>1, <1>2, <1>7, <2>1, EmitDrive, Zenon DEF Set
  <2>3. StatusOK(d)
    BY <1>2, <2>2, Zenon DEF Moved, StatusOK, Stage, SameCall
  <2>4. \A k : In(k, d.emits) <=> k = "APPROVAL_GRANTED"
    BY <2>2, InOne, Zenon DEF Moved
  <2>5. ReceiptsOK(t, d)
    BY <1>2, <2>2, <2>4 DEF Moved, SameCall, ReceiptsOK, Stage, Ended, Received, Told, Authority
  <2>6. d \in TaskRecord /\ SameCall(d, c) /\ d.chain = c.chain /\ d.pc = "emit" /\ d.emits # <<>>
        /\ d.status # "RollbackFailed"
    BY <2>2 DEF Moved
  <2> QED BY <1>6, <1>7, <2>2, <2>3, <2>5, <2>6, Zenon
<1>8. CASE Sink!ConsumeGranted(b) /\ Set(t, Emitting(c, <<"APPROVAL_DENIED">>, "err"))
  <2>1. <<"APPROVAL_DENIED">> \in Seq(Receipt) /\ "err" \in PC
    BY DEF Receipt, PC
  <2>2. Moved(Emitting(c, <<"APPROVAL_DENIED">>, "err"), c, "emit", "ApprovalPending", <<"APPROVAL_DENIED">>, "err")
    BY <1>1, <1>2, <2>1, EmitOnly, Zenon
  <2>3. PICK d : task' = [task EXCEPT ![t] = d] /\ Moved(d, c, "emit", "ApprovalPending", <<"APPROVAL_DENIED">>, "err")
    BY <1>8, <2>2, Zenon DEF Set
  <2>4. StatusOK(d)
    BY <1>2, <2>3, Zenon DEF Moved, StatusOK, Stage, SameCall
  <2>5. \A k : In(k, d.emits) <=> k = "APPROVAL_DENIED"
    BY <2>3, InOne, ZenonT(40) DEF Moved
  <2>6. ReceiptsOK(t, d)
    BY <1>2, <2>3, <2>5 DEF Moved, SameCall, ReceiptsOK, Stage, Ended, Received
  <2>7. d \in TaskRecord /\ SameCall(d, c) /\ d.chain = c.chain /\ d.pc = "emit" /\ d.emits # <<>>
        /\ d.status # "RollbackFailed"
    BY <2>3 DEF Moved
  <2> QED BY <1>6, <1>8, <2>3, <2>4, <2>6, <2>7, Zenon
<1> QED BY <1>4, <1>5, <1>7, <1>8, Zenon DEF ConsumeBinding

\* A call that begins keeps RuntimeInv.
LEMMA CallBegins ==
  ASSUME RuntimeInv, NEW t \in Tasks, NEW d \in TaskRecord, task[t] = Idle,
         task' = [task EXCEPT ![t] = d],
         CallOK(t, d, log[d.action], passes[d.binding]), d.status \in {"Created", "ApprovalPending"},
         UNCHANGED <<contexts, log, alerts, bindings, passes>>
  PROVE  RuntimeInv'
<1>0. TasksInv /\ SinkInv /\ LogInv /\ ContextsInv /\ AlertsInv /\ OneResumePerBinding
  BY Zenon DEF RuntimeInv
<1>1. TasksInv'
  BY <1>0, TasksMove, Zenon
<1>2. task'[t] = d /\ task[t].op = "none" /\ task[t].status = "Created"
      /\ \A u \in Tasks : u # t => task'[u] = task[u]
  BY <1>0 DEF TasksInv, Idle
<1>3. SinkInv'
  BY <1>0, Zenon DEF SinkInv
<1>4. \A a \in Actions, k \in Receipt : <<k, t>> \notin log[a]
  BY <1>0, <1>2 DEF LogInv
<1>5. LogInv'
  <2>1. "EXECUTION_STARTED" \in Receipt
    BY Zenon DEF Receipt
  <2>2. \A a \in Actions, k \in Receipt, u \in Tasks :
          <<k, u>> \in log[a] => /\ task'[u].op # "none" /\ task'[u].action = a
                                 /\ k = "APPROVAL_GRANTED" => task'[u].binding \in Bindings
    BY <1>0, <1>2, <1>4 DEF LogInv
  <2>3. ExecutionAuthorised'
    BY <1>0, <1>2, <1>4, <2>1, Zenon DEF LogInv, ExecutionAuthorised
  <2> QED BY <1>0, <2>2, <2>3 DEF LogInv
<1>6. ContextsInv'
  BY <1>0, <1>2, ContextsKept, Zenon
<1>7. AlertsInv'
  <2>1. {u \in Tasks : task'[u].status = "RollbackFailed"} = {u \in Tasks : task[u].status = "RollbackFailed"}
    BY <1>2, Zenon
  <2> QED BY <1>0, <2>1, Zenon DEF AlertsInv
<1>8. OneResumePerBinding'
  BY <1>0, <1>2 DEF OneResumePerBinding, Calls
<1> QED BY <1>1, <1>3, <1>5, <1>6, <1>7, <1>8, Zenon DEF RuntimeInv

\* An idle task has a record with nothing in it.
LEMMA IdleIs ==
  /\ Idle \in TaskRecord /\ Idle.op = "none" /\ Idle.pc = "idle" /\ Idle.status = "Created"
  /\ Idle.chain = {} /\ Idle.emits = <<>>
  BY DEF Idle, TaskRecord, PC, ActionLifecycleState

\* submit_action keeps RuntimeInv.
LEMMA SubmitKeeps ==
  ASSUME RuntimeInv, NEW t \in Tasks, NEW a \in Actions, NEW e \in Envelopes, SubmitAction(t, a, e)
  PROVE  RuntimeInv'
<1> DEFINE d == [Idle EXCEPT !.op = "submit", !.pc = "validate", !.action = a, !.envelope = e]
<1>1. /\ d \in TaskRecord /\ d.op = "submit" /\ d.pc = "validate" /\ d.action = a /\ d.envelope = e
      /\ d.status = "Created" /\ d.chain = {} /\ d.emits = <<>>
  BY IdleIs, Zenon DEF TaskRecord, PC
<1>2. task[t] = Idle /\ task' = [task EXCEPT ![t] = d]
      /\ UNCHANGED <<contexts, log, alerts, bindings, passes>>
  BY Zenon DEF SubmitAction, Set, sinkVars
<1> HIDE DEF d
<1>3. \A k : ~In(k, d.emits)
  BY <1>1, InNone, Zenon
<1>4. StatusOK(d)
  BY <1>1, Zenon DEF StatusOK, Stage
<1>5. ReceiptsOK(t, d)
  BY <1>1, <1>3, Zenon DEF ReceiptsOK, Stage, Ended
<1>6. CallOK(t, d, log[d.action], passes[d.binding])
  BY <1>1, <1>4, <1>5, Zenon DEF CallOK, Live
<1> QED BY <1>1, <1>2, <1>6, CallBegins, Zenon

\* resume_with_binding keeps RuntimeInv.
LEMMA ResumeKeeps ==
  ASSUME RuntimeInv, NEW t \in Tasks, NEW a \in Actions, NEW e \in Envelopes, NEW b \in Bindings,
         ResumeWithBinding(t, a, e, b)
  PROVE  RuntimeInv'
<1> DEFINE c == [Idle EXCEPT !.op = "resume", !.action = a, !.envelope = e, !.binding = b]
<1>1. /\ c \in TaskRecord /\ c.op = "resume" /\ c.action = a /\ c.envelope = e /\ c.binding = b
      /\ c.status = "Created" /\ c.chain = {} /\ c.emits = <<>>
  BY IdleIs, ZenonT(40) DEF TaskRecord, PC
<1>2. task[t] = Idle /\ UNCHANGED <<contexts, log, alerts, bindings, passes>>
  BY Zenon DEF ResumeWithBinding, sinkVars
<1>3. CASE Set(t, Return(c, "err"))
  <2> DEFINE d == Return(c, "err")
  <2>1. d \in TaskRecord /\ SameCall(d, c) /\ d.pc = "err" /\ d.status = c.status
    BY <1>1, ReturnIs, Zenon
  <2>2. task' = [task EXCEPT ![t] = d]
    BY <1>3, Zenon DEF Set
  <2> HIDE DEF d
  <2>3. CallOK(t, d, log[d.action], passes[d.binding])
    BY <1>1, <2>1, Zenon DEF CallOK, Live, SameCall
  <2> QED BY <1>1, <1>2, <2>1, <2>2, <2>3, CallBegins, Zenon
<1>4. CASE /\ contexts[a] # Absent /\ contexts[a].status = "ApprovalPending"
           /\ Set(t, [c EXCEPT !.pc = "consume", !.status = contexts[a].status, !.chain = contexts[a].chain])
  <2> DEFINE d == [c EXCEPT !.pc = "consume", !.status = contexts[a].status, !.chain = contexts[a].chain]
  <2>1. contexts[a] \in Context /\ StoredOK(a)
    BY <1>4, Zenon DEF RuntimeInv, ContextsInv
  <2>2. contexts[a].chain \in SUBSET (Receipt \X Tasks) /\ contexts[a].chain \subseteq log[a]
        /\ \E u \in Tasks : <<"ACTION_RECEIVED", u>> \in contexts[a].chain
    BY <1>4, <2>1, Zenon DEF Context, StoredOK
  <2>3. PICK C \in SUBSET (Receipt \X Tasks) : C = contexts[a].chain
    BY <2>2, Zenon
  <2>4. d = [c EXCEPT !.pc = "consume", !.status = "ApprovalPending", !.chain = C]
    BY <1>4, <2>3, Zenon
  <2> HIDE DEF c
  <2>5. /\ d \in TaskRecord /\ SameCall(d, c) /\ d.pc = "consume" /\ d.status = "ApprovalPending"
        /\ d.chain = C /\ d.emits = <<>>
    BY <1>1, <2>4, ZenonT(40) DEF TaskRecord, PC, SameCall, ActionLifecycleState
  <2>6. task' = [task EXCEPT ![t] = d]
    BY <1>4, Zenon DEF Set
  <2> HIDE DEF d
  <2>7. d.op = "resume" /\ d.action = a /\ d.envelope = e /\ d.binding = b
    BY <1>1, <2>5, Zenon DEF SameCall
  <2>8. \A k : ~In(k, d.emits)
    BY <2>5, InNone, Zenon
  <2>9. StatusOK(d)
    BY <2>5, <2>7, Zenon DEF StatusOK, Stage
  <2>10. ReceiptsOK(t, d)
    BY <2>2, <2>3, <2>5, <2>8, Zenon DEF ReceiptsOK, Stage, Ended, Received
  <2>11. CallOK(t, d, log[d.action], passes[d.binding])
    BY <2>2, <2>3, <2>5, <2>7, <2>9, <2>10, Zenon DEF CallOK, Live
  <2> QED BY <1>2, <2>5, <2>6, <2>11, CallBegins, ZenonT(30)
<1> QED BY <1>3, <1>4, Zenon DEF ResumeWithBinding

\* The surroundings do not touch the calls.
LEMMA AroundKeeps ==
  ASSUME RuntimeInv, UNCHANGED <<task, contexts, log, alerts, passes>>, SinkInv'
  PROVE  RuntimeInv'
<1>1. TasksInv' /\ LogInv'
  BY DEF RuntimeInv, TasksInv, LogInv, ExecutionAuthorised
<1>2. ContextsInv' /\ AlertsInv' /\ OneResumePerBinding'
  BY ZenonT(60) DEF RuntimeInv, ContextsInv, StoredOK, AlertsInv, OneResumePerBinding, Calls
<1> QED BY <1>1, <1>2, Zenon DEF RuntimeInv

\* What InjectGrantedBinding needs to know of the requests it grants.
RequestsInv == /\ requests \in [Actions -> {Absent} \cup Sink!Request]
               /\ now \in Nat

\* A grant mints a binding that has never passed.
LEMMA GrantKeeps ==
  ASSUME RuntimeInv, RequestsInv, Grant
  PROVE  RuntimeInv'
<1>1. PICK a \in Actions, b \in Bindings, g \in Grantors : Sink!InjectGrantedBinding(a, b, g)
  BY Zenon DEF Grant
<1> DEFINE x == [state |-> "Granted", request |-> a, hash |-> requests[a].hash,
                 granted_by |-> g, expires_at |-> now + Sink!EffectiveTtl(requests[a])]
<1>2. /\ requests[a] # Absent /\ bindings[b] = Absent /\ passes' = passes
      /\ bindings' = [bindings EXCEPT ![b] = x]
  BY <1>1, Zenon DEF Sink!InjectGrantedBinding
<1>3. requests[a] \in Sink!Request
  BY <1>2, Zenon DEF RequestsInv
<1>4. requests[a].hash \in Hashes /\ requests[a].ttl \in Nat
  BY <1>3, RuntimeBounds, Zenon DEF Sink!Request
<1>5. now + Sink!EffectiveTtl(requests[a]) \in Int
  BY <1>4, RuntimeBounds DEF RequestsInv, Sink!EffectiveTtl
<1>6. x \in Sink!Binding
  BY <1>4, <1>5, Zenon DEF Sink!Binding, Sink!BindingState
<1> HIDE DEF x
<1>7. SinkInv
  BY Zenon DEF RuntimeInv
<1>8. bindings' \in [Bindings -> {Absent} \cup Sink!Binding]
  BY <1>2, <1>6, <1>7, Zenon DEF SinkInv
<1>9. \A e \in Bindings : e # b => bindings'[e] = bindings[e]
  BY <1>2, <1>7, Zenon DEF SinkInv
<1>10. SinkInv'
  BY <1>2, <1>7, <1>8, <1>9, Zenon DEF SinkInv
<1>11. UNCHANGED <<task, contexts, log, alerts>>
  BY Zenon DEF Grant
<1> QED BY <1>2, <1>10, <1>11, AroundKeeps, Zenon

\* The passage of time expires bindings at most.
LEMMA TickKeeps ==
  ASSUME RuntimeInv, Tick
  PROVE  RuntimeInv'
<1>1. UNCHANGED <<task, contexts, log, alerts, bindings, passes>>
  BY Zenon DEF Tick, Sink!SinkTick
<1>2. SinkInv'
  BY <1>1, Zenon DEF RuntimeInv, SinkInv
<1> QED BY <1>1, <1>2, AroundKeeps, Zenon

\* What touches neither calls, contexts, log, alerts nor bindings keeps RuntimeInv.
LEMMA RegistryKeeps ==
  ASSUME RuntimeInv, UNCHANGED <<task, contexts, log, alerts, bindings, passes>>
  PROVE  RuntimeInv'
<1>1. SinkInv'
  BY Zenon DEF RuntimeInv, SinkInv
<1> QED BY <1>1, AroundKeeps, Zenon

\* The requests of the sink keep their type.
LEMMA RequestsKept ==
  ASSUME RuntimeInv, RequestsInv, [Next]_vars
  PROVE  RequestsInv'
<1>1. ASSUME NEW t \in Tasks, RequestApproval(t) PROVE RequestsInv'
  <2>1. PICK ttl \in Ttls : Sink!SubmitRequest(task[t].action, [hash |-> task[t].envelope.hash, ttl |-> ttl])
    BY <1>1, Zenon DEF RequestApproval
  <2>2. task[t].pc = "request"
    BY <1>1, Zenon DEF RequestApproval, At
  <2>3. task[t].envelope \in Envelopes
    BY <2>2, Begun, Zenon DEF RuntimeInv, CallOK
  <2>4. [hash |-> task[t].envelope.hash, ttl |-> ttl] \in Sink!Request
    BY <2>3, EnvelopeAssumption, Zenon DEF Sink!Request
  <2> QED BY <2>1, <2>4, Zenon DEF Sink!SubmitRequest, RequestsInv
<1>2. ASSUME NEW t \in Tasks, Call(t) PROVE UNCHANGED <<requests, now>>
  BY <1>2, Zenon DEF Call, SubmitAction, ResumeWithBinding, sinkVars
<1>3. ASSUME NEW t \in Tasks, Step(t), ~RequestApproval(t) PROVE UNCHANGED <<requests, now>>
  <2>1. CASE ConsumeBinding(t)
    BY <2>1, Zenon DEF ConsumeBinding, Sink!ConsumeRefused, Sink!ConsumeExpired, Sink!ConsumeGranted, Sink!sinkVars
  <2>2. CASE Validate(t) \/ PolicyEvaluate(t) \/ Enqueue(t) \/ Route(t)
    BY <2>2, Zenon DEF Validate, PolicyEvaluate, Enqueue, Route, sinkVars
  <2>3. CASE Execute(t) \/ Verify(t) \/ Rollback(t) \/ Emit(t) \/ Store(t)
    BY <2>3, Zenon DEF Execute, Verify, Rollback, Emit, Store, sinkVars
  <2> QED BY <1>3, <2>1, <2>2, <2>3, Zenon DEF Step
<1>4. Grant => UNCHANGED <<requests, now>>
  BY Zenon DEF Grant, Sink!InjectGrantedBinding
<1>5. Tick => RequestsInv'
  BY DEF Tick, Sink!SinkTick, RequestsInv
<1>6. Registry \/ UNCHANGED vars => UNCHANGED <<requests, now>>
  BY Zenon DEF Registry, Register, PruneExpired, sinkVars, vars
<1> QED BY <1>1, <1>2, <1>3, <1>4, <1>5, <1>6, Zenon DEF Next, RequestsInv

\* RuntimeInv holds when the runtime starts.
LEMMA RuntimeInvStart ==
  ASSUME Init
  PROVE  RuntimeInv /\ RequestsInv
<1>1. TasksInv
  BY IdleIs, Zenon DEF Init, TasksInv
<1>2. SinkInv /\ RequestsInv
  BY Zenon DEF Init, Sink!SinkInit, SinkInv, RequestsInv
<1>3. LogInv
  BY Zenon DEF Init, LogInv, ExecutionAuthorised
<1>4. ContextsInv
  BY Zenon DEF Init, ContextsInv, StoredOK
<1>5. AlertsInv
  <2>1. {t \in Tasks : task[t].status = "RollbackFailed"} = {}
    BY IdleIs, Zenon DEF Init
  <2> QED BY <2>1, FS_EmptySet DEF Init, AlertsInv
<1>6. OneResumePerBinding
  BY IdleIs, Zenon DEF Init, OneResumePerBinding, Calls
<1> QED BY <1>1, <1>2, <1>3, <1>4, <1>5, <1>6, Zenon DEF RuntimeInv

\* Every step keeps RuntimeInv.
LEMMA StepKeeps ==
  ASSUME RuntimeInv, RequestsInv, [Next]_vars
  PROVE  RuntimeInv'
<1>1. ASSUME NEW t \in Tasks, Call(t) PROVE RuntimeInv'
  BY <1>1, SubmitKeeps, ResumeKeeps, Zenon DEF Call
<1>2. ASSUME NEW t \in Tasks, Step(t) PROVE RuntimeInv'
  BY <1>2, ValidateKeeps, PolicyEvaluateKeeps, RequestApprovalKeeps, EnqueueKeeps, RouteKeeps,
     ExecuteKeeps, VerifyKeeps, RollbackKeeps, EmitKeeps, StoreKeeps, ConsumeKeeps, Zenon DEF Step
<1>3. CASE Grant \/ Tick
  BY <1>3, GrantKeeps, TickKeeps, Zenon
<1>4. CASE Registry \/ UNCHANGED vars
  <2>1. UNCHANGED <<task, contexts, log, alerts, bindings, passes>>
    BY <1>4, Zenon DEF Registry, Register, PruneExpired, sinkVars, vars
  <2> QED BY <2>1, RegistryKeeps, Zenon
<1> QED BY <1>1, <1>2, <1>3, <1>4, Zenon DEF Next

\* RuntimeInv is an invariant of the runtime, for any number of calls, actions and bindings.
THEOREM RuntimeHolds == Spec => [](RuntimeInv /\ RequestsInv)
<1>1. Init => RuntimeInv /\ RequestsInv
  BY RuntimeInvStart, Zenon
<1>2. RuntimeInv /\ RequestsInv /\ [Next]_vars => (RuntimeInv /\ RequestsInv)'
  BY StepKeeps, RequestsKept, Zenon
<1> QED BY <1>1, <1>2, PTL DEF Spec

\* No action is executed by submit_action without a POLICY_ALLOW, or by
\* resume_with_binding without an APPROVAL_GRANTED, in the evidence log: the authority
\* of an execution is on record, whatever the interleaving of the calls.
THEOREM ExecutesAuthorised == Spec => []ExecutionAuthorised
<1>1. RuntimeInv => ExecutionAuthorised
  BY Zenon DEF RuntimeInv, LogInv
<1> QED BY <1>1, RuntimeHolds, PTL

\* At most one call of resume_with_binding gets past the approval check with a given
\* binding.
THEOREM ResumesOnce == Spec => []OneResumePerBinding
<1>1. RuntimeInv => OneResumePerBinding
  BY Zenon DEF RuntimeInv
<1> QED BY <1>1, RuntimeHolds, PTL

\* The evidence chain stored with a context names only receipts the evidence log holds,
\* and one stored as terminal tells one whole execution, whatever the interleaving.
THEOREM StoredChainLogged == Spec => []PersistedChainSound
<1>1. RuntimeInv => PersistedChainSound
  <2>1. ASSUME RuntimeInv, NEW a \in Actions, contexts[a] # Absent
        PROVE  /\ contexts[a].chain \subseteq log[a]
               /\ IsTerminal(contexts[a].status) =>
                    /\ \E t \in Tasks : <<"ACTION_RECEIVED", t>> \in contexts[a].chain
                    /\ \E t \in Tasks :
                         \A k \in {"ACTION_QUEUED", "EXECUTION_STARTED",
                                   "EXECUTION_COMPLETED", "VERIFICATION_RESULT"} :
                           <<k, t>> \in contexts[a].chain
    <3>1. StoredOK(a)
      BY <2>1, Zenon DEF RuntimeInv, ContextsInv
    <3>2. IsTerminal(contexts[a].status) => contexts[a].status \in Ended
      BY <2>1, <3>1, Zenon DEF StoredOK, IsTerminal, Ended
    <3> QED BY <2>1, <3>1, <3>2, Zenon DEF StoredOK
  <2> QED BY <2>1, Zenon DEF PersistedChainSound
<1> QED BY <1>1, RuntimeHolds, PTL
==================================================================================
