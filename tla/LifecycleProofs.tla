----------------------------- MODULE LifecycleProofs -----------------------------
(* Proofs about what the capability runtime stores, for any number of calls in  *)
(* flight. StoryInv says which receipts of the log a call carries in its chain: *)
(* its own and those of the submission, which is over when a resume begins.     *)
(* What a call stores at its end is therefore the story of these two, whatever  *)
(* other resumes of the action have written meanwhile.                          *)
EXTENDS RuntimeProofs

--------------------------------------------------------------------------------
\* An action is submitted once, and recorded only after that.
OneSubmit == \A t, u \in Calls("submit") : task[t].action = task[u].action => t = u

RecordSubmitted == \A a \in Actions : contexts[a] # Absent => \E t \in Calls("submit") : task[t].action = a

\* No record of an action exists while its submission is under way, and one does while
\* a resume is.
LiveRecord ==
  \A t \in Tasks : Live(task[t]) =>
    (task[t].op = "submit" <=> contexts[task[t].action] = Absent)

LiveStory ==
  \A t \in Tasks : Live(task[t]) =>
    task[t].chain = StoryOf(task[t].action, {t} \cup Submitters(task[t].action))

StoredStory(a) ==
  contexts[a] # Absent =>
    /\ \E w \in Tasks : /\ task[w].action = a /\ task[w].pc = "ok"
                        /\ contexts[a].chain = StoryOf(a, {w} \cup Submitters(a))
    /\ contexts[a].status = "ApprovalPending" => contexts[a].chain = StoryOf(a, Submitters(a))

StoryInv ==
  OneSubmit /\ RecordSubmitted /\ LiveRecord /\ LiveStory /\ \A a \in Actions : StoredStory(a)

--------------------------------------------------------------------------------
\* drive_to changes no more of a call than its status and, on a transition that is not
\* in the table, its stage.
LEMMA DriveAny ==
  ASSUME NEW c \in TaskRecord, NEW path
  PROVE  /\ SameCall(Drive(c, path), c) /\ Drive(c, path).chain = c.chain
         /\ Drive(c, path).pc \in {c.pc, "invalid"}
<1> DEFINE A == [c EXCEPT !.status = path[Len(path)]]  B == [c EXCEPT !.pc = "invalid"]
<1>1. SameCall(A, c) /\ A.chain = c.chain /\ A.pc = c.pc
  BY Zenon DEF TaskRecord, SameCall
<1>2. SameCall(B, c) /\ B.chain = c.chain /\ B.pc = "invalid"
  BY Zenon DEF TaskRecord, SameCall
<1>3. Drive(c, path) = A \/ Drive(c, path) = B
  BY Zenon DEF Drive
<1> HIDE DEF A, B
<1> QED BY <1>1, <1>2, <1>3, Zenon

\* A step of the pipeline that neither emits nor stores goes on with the chain it has,
\* or returns an error.
GoesOn(c, d) ==
  SameCall(d, c) /\ (d.pc = "err" \/ (d.pc \notin {"idle", "ok", "err"} /\ d.chain = c.chain))

\* Beginning to emit goes on.
LEMMA EmitGoes ==
  ASSUME NEW c \in TaskRecord, NEW r, NEW n, NEW path
  PROVE  GoesOn(c, Emitting(c, r, n)) /\ GoesOn(c, Drive(Emitting(c, r, n), path))
<1> DEFINE e == Emitting(c, r, n)
<1>1. SameCall(e, c) /\ e.pc = "emit" /\ e.chain = c.chain
  BY Zenon DEF Emitting, TaskRecord, SameCall
<1>2. SameCall(Drive(e, path), e) /\ Drive(e, path).chain = e.chain /\ Drive(e, path).pc \in {e.pc, "invalid"}
  <2> DEFINE A == [e EXCEPT !.status = path[Len(path)]]  B == [e EXCEPT !.pc = "invalid"]
  <2>1. SameCall(A, e) /\ A.chain = e.chain /\ A.pc = e.pc
    BY Zenon DEF TaskRecord, SameCall, Emitting
  <2>2. SameCall(B, e) /\ B.chain = e.chain /\ B.pc = "invalid"
    BY Zenon DEF TaskRecord, SameCall, Emitting
  <2>3. Drive(e, path) = A \/ Drive(e, path) = B
    BY Zenon DEF Drive
  <2> HIDE DEF A, B
  <2> QED BY <2>1, <2>2, <2>3, Zenon
<1> HIDE DEF e
<1>3. GoesOn(c, e) /\ GoesOn(c, Drive(e, path))
  BY <1>1, <1>2, Zenon DEF GoesOn, SameCall
<1> QED BY <1>3, Zenon DEF e

\* Going to the store goes on.
LEMMA StoreGoes ==
  ASSUME NEW c \in TaskRecord, NEW path
  PROVE  GoesOn(c, Goto(c, "store")) /\ GoesOn(c, Drive(Goto(c, "store"), path))
<1> DEFINE e == Goto(c, "store")
<1>1. e \in TaskRecord /\ SameCall(e, c) /\ e.pc = "store" /\ e.chain = c.chain
  BY GotoIs DEF PC
<1>2. SameCall(Drive(e, path), e) /\ Drive(e, path).chain = e.chain /\ Drive(e, path).pc \in {e.pc, "invalid"}
  BY <1>1, DriveAny, Zenon
<1> HIDE DEF e
<1>3. GoesOn(c, e) /\ GoesOn(c, Drive(e, path))
  BY <1>1, <1>2, Zenon DEF GoesOn, SameCall
<1> QED BY <1>3, Zenon DEF e

\* Returning an error goes on.
LEMMA ReturnGoes ==
  ASSUME NEW c \in TaskRecord
  PROVE  GoesOn(c, Return(c, "err"))
  BY ReturnIs, Zenon DEF GoesOn

\* Routing goes on.
LEMMA RouteGoes ==
  ASSUME NEW c \in TaskRecord, NEW b
  PROVE  GoesOn(c, [c EXCEPT !.pc = "execute", !.routed = b])
  BY Zenon DEF GoesOn, SameCall, TaskRecord

\* A step of the pipeline emits, stores, or goes on with one call and nothing else.
LEMMA StepGoes ==
  ASSUME RuntimeInv, NEW t \in Tasks, Step(t)
  PROVE  \/ Emit(t) \/ Store(t)
         \/ /\ Live(task[t]) /\ contexts' = contexts /\ log' = log
            /\ \E d : Set(t, d) /\ GoesOn(task[t], d)
<1> DEFINE c == task[t]
<1>0. task[t].pc # "idle" => c \in TaskRecord
  BY Begun, Zenon DEF RuntimeInv
<1>1. CASE Validate(t)
  <2>1. c.pc = "validate" /\ contexts' = contexts /\ log' = log
    BY <1>1, Zenon DEF Validate, At
  <2>2. \E d : Set(t, d) /\ GoesOn(c, d)
    BY <1>0, <1>1, <2>1, EmitGoes, StoreGoes, ZenonT(30) DEF Validate
  <2> QED BY <2>1, <2>2, Zenon DEF Live
<1>2. CASE PolicyEvaluate(t)
  <2>1. c.pc = "policy" /\ contexts' = contexts /\ log' = log
    BY <1>2, Zenon DEF PolicyEvaluate, At
  <2>2. \A d \in PolicyOutcome(c) : GoesOn(c, d)
    BY <1>0, <2>1, EmitGoes, StoreGoes, ReturnGoes, ZenonT(30) DEF PolicyOutcome
  <2>3. \E d : Set(t, d) /\ GoesOn(c, d)
    BY <1>2, <2>2, Zenon DEF PolicyEvaluate
  <2> QED BY <2>1, <2>3, Zenon DEF Live
<1>3. CASE RequestApproval(t)
  <2>1. c.pc = "request" /\ contexts' = contexts /\ log' = log
    BY <1>3, Zenon DEF RequestApproval, At
  <2>2. \E d : Set(t, d) /\ GoesOn(c, d)
    BY <1>0, <1>3, <2>1, EmitGoes, Zenon DEF RequestApproval
  <2> QED BY <2>1, <2>2, Zenon DEF Live
<1>4. CASE Enqueue(t)
  <2>1. c.pc = "queue" /\ contexts' = contexts /\ log' = log
    BY <1>4, Zenon DEF Enqueue, At
  <2>2. \E d : Set(t, d) /\ GoesOn(c, d)
    BY <1>0, <1>4, <2>1, EmitGoes, StoreGoes, ZenonT(30) DEF Enqueue
  <2> QED BY <2>1, <2>2, Zenon DEF Live
<1>5. CASE Route(t)
  <2>1. c.pc = "route" /\ contexts' = contexts /\ log' = log
    BY <1>5, Zenon DEF Route, At
  <2>2. \E d : Set(t, d) /\ GoesOn(c, d)
    BY <1>0, <1>5, <2>1, RouteGoes, Zenon DEF Route
  <2> QED BY <2>1, <2>2, Zenon DEF Live
<1>6. CASE Execute(t)
  <2>1. c.pc = "execute" /\ contexts' = contexts /\ log' = log
    BY <1>6, Zenon DEF Execute, At
  <2>2. \E d : Set(t, d) /\ GoesOn(c, d)
    BY <1>0, <1>6, <2>1, EmitGoes, StoreGoes, ZenonT(30) DEF Execute
  <2> QED BY <2>1, <2>2, Zenon DEF Live
<1>7. CASE Verify(t)
  <2>1. c.pc = "verify" /\ contexts' = contexts /\ log' = log
    BY <1>7, Zenon DEF Verify, At
  <2>2. \E d : Set(t, d) /\ GoesOn(c, d)
    BY <1>0, <1>7, <2>1, EmitGoes, Zenon DEF Verify
  <2> QED BY <2>1, <2>2, Zenon DEF Live
<1>8. CASE Rollback(t)
  <2>1. c.pc = "rollback" /\ contexts' = contexts /\ log' = log
    BY <1>8, Zenon DEF Rollback, At
  <2>2. \E d : Set(t, d) /\ GoesOn(c, d)
    BY <1>0, <1>8, <2>1, EmitGoes, StoreGoes, ReturnGoes, ZenonT(30) DEF Rollback
  <2> QED BY <2>1, <2>2, Zenon DEF Live
<1>9. CASE ConsumeBinding(t)
  <2>1. c.pc = "consume" /\ contexts' = contexts /\ log' = log
    BY <1>9, Zenon DEF ConsumeBinding, At
  <2>2. \E d : Set(t, d) /\ GoesOn(c, d)
    BY <1>0, <1>9, <2>1, EmitGoes, ReturnGoes, ZenonT(30) DEF ConsumeBinding
  <2> QED BY <2>1, <2>2, Zenon DEF Live
<1> QED BY <1>1, <1>2, <1>3, <1>4, <1>5, <1>6, <1>7, <1>8, <1>9 DEF Step

\* A call that has begun is a submission or a resumption of an action.
LEMMA BegunOp ==
  ASSUME TasksInv, NEW t \in Tasks, task[t].pc # "idle"
  PROVE  task[t].op \in {"submit", "resume"} /\ task[t].action \in Actions
  BY Begun, Zenon DEF CallOK

\* The call of t goes on as d.
Turns(t, d) ==
  /\ task' = [task EXCEPT ![t] = d] /\ SameCall(d, task[t])
  /\ Live(d) \/ d.pc \in {"ok", "err"}

\* On the way to d, the call of t notes in its chain the receipts L that it appends to the log.
Notes(t, d, a, L) ==
  /\ \A r \in L : r[2] = t
  /\ log' = [log EXCEPT ![a] = @ \cup L]
  /\ Live(d) => d.chain = task[t].chain \cup L

\* The submission of an action and its resumes are never live together, so while a call is live
\* no other live call counts it among its submitters.
LEMMA LiveApart ==
  ASSUME TasksInv, StoryInv, NEW t \in Tasks, NEW u \in Tasks, Live(task[t]), Live(task[u]), u # t,
         task[t].action = task[u].action
  PROVE  t \notin Submitters(task[u].action)
<1>1. task[t].op = "submit" => task[u].op = "submit"
  BY Zenon DEF StoryInv, LiveRecord
<1>2. ~(task[t].op = "submit" /\ task[u].op = "submit")
  BY Zenon DEF StoryInv, OneSubmit, Calls
<1> QED BY <1>1, <1>2, Zenon DEF Submitters, Calls

\* Receipts of another call do not enter the story of the calls of S.
LEMMA StoryElse ==
  ASSUME NEW K, NEW L, NEW S, NEW t, t \notin S, \A r \in L : r[2] = t
  PROVE  {r \in K \cup L : r[2] \in S} = {r \in K : r[2] \in S}
  BY Zenon

\* A live call that goes on, and appends to the log no more than it notes in its chain, leaves
\* every other story as it was.
LEMMA TurnsKeeps ==
  ASSUME TasksInv, LogInv, StoryInv, NEW t \in Tasks, NEW d, Live(task[t]), Turns(t, d), contexts' = contexts,
         NEW a \in Actions, a = task[t].action, NEW L, Notes(t, d, a, L)
  PROVE  StoryInv'
<1>0. /\ \A r \in L : r[2] = t
      /\ log' = [log EXCEPT ![a] = @ \cup L]
      /\ Live(d) => d.chain = task[t].chain \cup L
  BY Zenon DEF Notes
<1>1. task'[t] = d /\ (\A u \in Tasks : u # t => task'[u] = task[u])
  BY Zenon DEF Turns, TasksInv
<1>2. \A u \in Tasks : SameCall(task'[u], task[u]) /\ (Live(task'[u]) => Live(task[u]))
  BY <1>1, Zenon DEF Turns, SameCall
<1>3. log'[a] = log[a] \cup L /\ \A e \in Actions : e # a => log'[e] = log[e]
  BY <1>0, Zenon DEF LogInv
<1>4. \A e \in Actions : Submitters(e)' = Submitters(e)
  BY <1>2, Zenon DEF Submitters, Calls, SameCall
<1>5. OneSubmit' /\ RecordSubmitted'
  <2>0. \A u \in Tasks : task'[u].op = task[u].op /\ task'[u].action = task[u].action
    BY <1>2, Zenon DEF SameCall
  <2>1. OneSubmit /\ RecordSubmitted
    BY Zenon DEF StoryInv
  <2> QED BY <2>0, <2>1 DEF OneSubmit, RecordSubmitted, Calls
<1>6. LiveRecord'
  BY <1>2, ZenonT(30) DEF StoryInv, LiveRecord, SameCall
<1>9. LiveStory'
  <2>1. SUFFICES ASSUME NEW u \in Tasks, Live(task'[u])
                 PROVE  task'[u].chain = {r \in log'[task'[u].action] :
                                            r[2] \in {u} \cup Submitters(task[u].action)'}
    BY Zenon DEF LiveStory, StoryOf
  <2>2. PICK e \in Actions : e = task[u].action /\ task'[u].action = e /\ Live(task[u])
    BY <1>2, <2>1, BegunOp, Zenon DEF Live, SameCall
  <2>3. Submitters(task[u].action)' = Submitters(e)
    BY <1>2, <2>2, Zenon DEF Submitters, Calls, SameCall
  <2>4. task[u].chain = StoryOf(e, {u} \cup Submitters(e))
    BY <2>2, <2>3, Zenon DEF StoryInv, LiveStory
  <2>5. CASE u = t
    <3>1. task'[u].chain = task[u].chain \cup L /\ e = a
      BY <1>0, <1>1, <2>1, <2>2, <2>5, Zenon
    <3>2. task'[u].chain = {r \in log'[e] : r[2] \in {u} \cup Submitters(e)}
      BY <1>0, <1>3, <2>4, <2>5, <3>1, ZenonT(40) DEF StoryOf
    <3> QED BY <2>2, <2>3, <3>2, Zenon
  <2>6. CASE u # t
    <3>1. task'[u].chain = task[u].chain
      BY <1>1, <2>6, Zenon
    <3>2. CASE e # a
      BY <1>3, <2>2, <2>3, <2>4, <3>1, <3>2, Zenon DEF StoryOf
    <3>3. CASE e = a
      <4>1. t \notin {u} \cup Submitters(e)
        BY <2>2, <2>3, <2>6, <3>3, LiveApart, Zenon
      <4>2. task'[u].chain = {r \in log'[e] : r[2] \in {u} \cup Submitters(e)}
        <5>1. {r \in log[a] \cup L : r[2] \in {u} \cup Submitters(e)} = StoryOf(a, {u} \cup Submitters(e))
          BY <1>0, <4>1, StoryElse, Zenon DEF StoryOf
        <5> QED BY <1>3, <2>4, <3>1, <3>3, <5>1, Zenon
      <4> QED BY <2>2, <2>3, <4>2, Zenon
    <3> QED BY <3>2, <3>3, Zenon
  <2> QED BY <2>5, <2>6, Zenon
<1>10. ASSUME NEW e \in Actions PROVE StoredStory(e)'
  <2>1. SUFFICES ASSUME contexts[e] # Absent
                 PROVE  /\ \E w \in Tasks : /\ task'[w].action = e /\ task'[w].pc = "ok"
                                            /\ contexts[e].chain = {r \in log'[e] : r[2] \in {w} \cup Submitters(e)'}
                        /\ contexts[e].status = "ApprovalPending" =>
                              contexts[e].chain = {r \in log'[e] : r[2] \in Submitters(e)'}
    BY Zenon DEF StoredStory, StoryOf
  <2>2. PICK w \in Tasks : /\ task[w].action = e /\ task[w].pc = "ok"
                           /\ contexts[e].chain = StoryOf(e, {w} \cup Submitters(e))
    BY <2>1, Zenon DEF StoryInv, StoredStory
  <2>3. contexts[e].status = "ApprovalPending" => contexts[e].chain = StoryOf(e, Submitters(e))
    BY <2>1, Zenon DEF StoryInv, StoredStory
  <2>4. w # t /\ task'[w] = task[w]
    BY <1>1, <2>2, Zenon DEF Live
  <2>5. e # a \/ t \notin Submitters(e)
    BY <2>1, Zenon DEF StoryInv, LiveRecord, Submitters, Calls
  <2>6. {r \in log'[e] : r[2] \in {w} \cup Submitters(e)} = StoryOf(e, {w} \cup Submitters(e))
    <3>1. CASE e # a
      BY <1>3, <3>1, Zenon DEF StoryOf
    <3>2. CASE e = a
      <4>1. t \notin {w} \cup Submitters(a)
        BY <2>4, <2>5, <3>2, Zenon
      <4>2. {r \in log[a] \cup L : r[2] \in {w} \cup Submitters(a)} = StoryOf(a, {w} \cup Submitters(a))
        BY <1>0, <4>1, StoryElse, Zenon DEF StoryOf
      <4> QED BY <1>3, <3>2, <4>2, Zenon
    <3> QED BY <3>1, <3>2, Zenon
  <2>7. {r \in log'[e] : r[2] \in Submitters(e)} = StoryOf(e, Submitters(e))
    BY <1>0, <1>3, <2>5, ZenonT(40) DEF StoryOf
  <2>8. Submitters(e)' = Submitters(e)
    BY <1>4, Zenon
  <2>9. contexts[e].chain = {r \in log'[e] : r[2] \in {w} \cup Submitters(e)'}
    BY <2>2, <2>6, <2>8, Zenon
  <2>10. contexts[e].status = "ApprovalPending" => contexts[e].chain = {r \in log'[e] : r[2] \in Submitters(e)'}
    BY <2>3, <2>7, <2>8, Zenon
  <2> QED BY <2>2, <2>4, <2>9, <2>10, Zenon
<1> QED BY <1>5, <1>6, <1>9, <1>10, Zenon DEF StoryInv

\* A step that neither emits nor stores keeps StoryInv.
LEMMA GoesKeeps ==
  ASSUME RuntimeInv, RuntimeInv', StoryInv, NEW t \in Tasks, Live(task[t]), contexts' = contexts,
         log' = log, NEW d, Set(t, d), GoesOn(task[t], d)
  PROVE  StoryInv'
<1>0. TasksInv /\ TasksInv' /\ LogInv
  BY Zenon DEF RuntimeInv
<1>1. task[t].op \in {"submit", "resume"} /\ task[t].action \in Actions
  BY <1>0, BegunOp, Zenon DEF Live
<1>2. task'[t] = d /\ task' = [task EXCEPT ![t] = d]
  BY <1>0, Zenon DEF Set, TasksInv
<1>3. d.op # "none"
  BY <1>1, Zenon DEF GoesOn, SameCall
<1>4. Live(d) \/ d.pc \in {"ok", "err"}
  BY <1>0, <1>2, <1>3 DEF TasksInv, CallOK, Idle
<1>5. PICK a \in Actions : a = task[t].action
  BY <1>1, Zenon
<1>6. Turns(t, d) /\ (Live(d) => d.chain = task[t].chain \cup {})
  BY <1>2, <1>4, Zenon DEF Turns, GoesOn, Live
<1>7. Notes(t, d, a, {})
  BY <1>0, <1>6, ZenonT(30) DEF LogInv, Notes
<1> QED BY <1>0, <1>5, <1>6, <1>7, TurnsKeeps, ZenonT(40)

\* Emitting keeps StoryInv: the receipt enters the call's chain and the log together.
LEMMA EmitStory ==
  ASSUME RuntimeInv, StoryInv, NEW t \in Tasks, Emit(t)
  PROVE  StoryInv'
<1> DEFINE c == task[t]  r == Head(c.emits)  d == Emitted(c, <<r, t>>)
<1>0. contexts' = contexts /\ c.pc = "emit" /\ Live(c) /\ TasksInv /\ LogInv
  BY Zenon DEF Emit, At, Live, RuntimeInv
<1>1. c \in TaskRecord /\ CallOK(t, c, log[c.action], passes[c.binding]) /\ c.action \in Actions
  BY <1>0, Begun, Zenon DEF Live, CallOK
<1>2. PICK a \in Actions : a = c.action
  BY <1>1, Zenon
<1>3. c.emits # <<>>
  BY <1>0, <1>1, Zenon DEF CallOK
<1>5. CASE Set(t, Return(c, "err")) /\ log' = log
  <2>1. Turns(t, Return(c, "err")) /\ Return(c, "err").pc = "err"
    BY <1>1, <1>5, ReturnIs, Zenon DEF Set, Turns
  <2>2. ~Live(Return(c, "err"))
    BY <2>1, Zenon DEF Live
  <2>3. Notes(t, Return(c, "err"), a, {})
    BY <1>0, <1>5, <2>2, ZenonT(30) DEF LogInv, Notes
  <2> QED BY <1>0, <1>2, <2>1, <2>3, TurnsKeeps, ZenonT(40)
<1>6. CASE log' = [log EXCEPT ![c.action] = @ \cup {<<r, t>>}] /\ Set(t, d)
  <2>1. SameCall(d, c) /\ CallOK(t, d, log[c.action] \cup {<<r, t>>}, passes[c.binding])
    BY <1>0, <1>1, EmittedOK, Zenon
  <2>2. Live(d) => d.chain = c.chain \cup {<<r, t>>}
    <3>1. CASE c.next = "err"
      BY <1>1, <1>3, <3>1, EmittedErr, ZenonT(30) DEF Live
    <3>2. CASE c.next # "err"
      BY <1>1, <1>3, <3>2, EmittedIs, ZenonT(30)
    <3> QED BY <3>1, <3>2, Zenon
  <2>3. Turns(t, d)
    BY <1>6, <2>1, Zenon DEF Turns, Set, CallOK
  <2> HIDE DEF d, r
  <2>4. \A x \in {<<r, t>>} : x[2] = t
    OBVIOUS
  <2>5. Notes(t, d, a, {<<r, t>>})
    BY <1>2, <1>6, <2>2, <2>4, Zenon DEF Notes
  <2> QED BY <1>0, <1>2, <2>3, <2>5, TurnsKeeps, ZenonT(40)
<1> QED BY <1>5, <1>6, Zenon DEF Emit

\* Storing keeps StoryInv: the call ends and its chain becomes the record's.
LEMMA StoreStory ==
  ASSUME RuntimeInv, StoryInv, NEW t \in Tasks, Store(t)
  PROVE  StoryInv'
<1> DEFINE c == task[t]  d == Return(c, "ok")  x == [status |-> c.status, chain |-> c.chain]
<1>0. /\ c.pc = "store" /\ Live(c) /\ TasksInv /\ ContextsInv /\ log' = log
      /\ task' = [task EXCEPT ![t] = d] /\ contexts' = [contexts EXCEPT ![c.action] = x]
  BY Zenon DEF Store, At, Live, RuntimeInv, Set
<1>1. c \in TaskRecord /\ CallOK(t, c, log[c.action], passes[c.binding]) /\ c.action \in Actions
      /\ c.op \in {"submit", "resume"}
  BY <1>0, Begun, Zenon DEF Live, CallOK
<1>2. PICK a \in Actions : a = c.action
  BY <1>1, Zenon
<1>3. SameCall(d, c) /\ d.pc = "ok" /\ ~Live(d)
  BY <1>1, ReturnIs, Zenon DEF Live
<1>4. x \in Context /\ x.chain = c.chain /\ x.status = c.status
  BY <1>1, Zenon DEF Context, TaskRecord
<1>4a. c.op = "resume" => c.status # "ApprovalPending"
  <2>1. StatusOK(c) /\ Stage(c) = "store"
    BY <1>0, <1>1, Settled, ZenonT(40)
  <2> QED BY <2>1, Zenon DEF StatusOK
<1> HIDE DEF d, x
<1>5. task'[t] = d /\ \A u \in Tasks : u # t => task'[u] = task[u]
  BY <1>0, Zenon DEF TasksInv
<1>6. contexts'[a] = x /\ x # Absent /\ \A e \in Actions : e # a => contexts'[e] = contexts[e]
  BY <1>0, <1>2, <1>4, AbsentAssumption, ZenonT(30) DEF ContextsInv
<1>7. \A u \in Tasks : SameCall(task'[u], task[u]) /\ (Live(task'[u]) => Live(task[u]) /\ u # t)
  BY <1>3, <1>5, Zenon DEF SameCall
<1>8. OneSubmit'
  <2>1. \A u \in Tasks : task'[u].op = task[u].op /\ task'[u].action = task[u].action
    BY <1>7, Zenon DEF SameCall
  <2>2. OneSubmit
    BY Zenon DEF StoryInv
  <2> QED BY <2>1, <2>2 DEF OneSubmit, Calls
<1>10. \A e \in Actions : Submitters(e)' = Submitters(e)
  BY <1>7, Zenon DEF Submitters, Calls, SameCall
<1>11. LiveRecord'
  <2>1. SUFFICES ASSUME NEW u \in Tasks, Live(task'[u])
                 PROVE  task'[u].op = "submit" <=> contexts'[task'[u].action] = Absent
    BY Zenon DEF LiveRecord
  <2>2. u # t /\ task'[u] = task[u] /\ Live(task[u]) /\ task[u].action \in Actions
    BY <1>0, <1>5, <1>7, <2>1, BegunOp, ZenonT(30) DEF Live
  <2>3. task[u].op = "submit" <=> contexts[task[u].action] = Absent
    BY <2>2, Zenon DEF StoryInv, LiveRecord
  <2>4. CASE task[u].action # a
    BY <1>6, <2>2, <2>3, <2>4, Zenon
  <2>5. CASE task[u].action = a
    <3>1. task[u].op # "submit"
      <4>1. t \in Submitters(a) \/ c.op = "resume"
        BY <1>1, <1>2, Zenon DEF Submitters, Calls
      <4>2. t \notin Submitters(a) /\ u \notin Submitters(a)
        BY <1>0, <1>2, <2>2, <2>5, LiveApart, Zenon
      <4> QED BY <2>2, <2>5, <4>2, Zenon DEF Submitters, Calls
    <3> QED BY <1>6, <2>2, <2>5, <3>1, Zenon
  <2> QED BY <2>4, <2>5, Zenon
<1>12. RecordSubmitted'
  <2>1. ASSUME NEW e \in Actions, contexts'[e] # Absent PROVE \E u \in Calls("submit") : task[u].action = e
    <3>1. CASE e # a
      BY <1>6, <2>1, <3>1, Zenon DEF StoryInv, RecordSubmitted
    <3>2. CASE e = a /\ c.op = "submit"
      BY <1>2, <3>2, Zenon DEF Calls
    <3>3. CASE e = a /\ c.op = "resume"
      BY <1>0, <1>2, <3>3, Zenon DEF StoryInv, LiveRecord, RecordSubmitted
    <3> QED BY <1>1, <3>1, <3>2, <3>3, Zenon
  <2> QED BY <1>7, <2>1 DEF RecordSubmitted, Calls, SameCall
<1>13. LiveStory'
  <2>1. SUFFICES ASSUME NEW u \in Tasks, Live(task'[u]), NEW e, e = task'[u].action
                 PROVE  task'[u].chain = {r \in log[e] : r[2] \in {u} \cup Submitters(e)'}
    BY <1>0, ZenonT(40) DEF LiveStory, StoryOf, Submitters, Calls
  <2>2. u # t /\ task'[u] = task[u] /\ Live(task[u]) /\ task[u].action \in Actions
    BY <1>0, <1>5, <1>7, <2>1, BegunOp, ZenonT(30) DEF Live
  <2>3. task[u].chain = StoryOf(task[u].action, {u} \cup Submitters(task[u].action))
    BY <2>2, Zenon DEF StoryInv, LiveStory
  <2>5. e = task[u].action /\ Submitters(e)' = Submitters(e)
    BY <1>10, <2>1, <2>2, Zenon
  <2> QED BY <1>0, <2>2, <2>3, <2>5, Zenon DEF StoryOf
<1>14. ASSUME NEW e \in Actions PROVE StoredStory(e)'
  <2>1. SUFFICES ASSUME contexts'[e] # Absent
                 PROVE  /\ \E w \in Tasks : /\ task'[w].action = e /\ task'[w].pc = "ok"
                                            /\ contexts'[e].chain = StoryOf(e, {w} \cup Submitters(e))
                        /\ contexts'[e].status = "ApprovalPending" =>
                              contexts'[e].chain = StoryOf(e, Submitters(e))
    BY <1>0, <1>10, Zenon DEF StoredStory, StoryOf
  <2>2. CASE e # a
    <3>1. PICK w \in Tasks : /\ task[w].action = e /\ task[w].pc = "ok"
                             /\ contexts[e].chain = StoryOf(e, {w} \cup Submitters(e))
      BY <1>6, <2>1, <2>2, Zenon DEF StoryInv, StoredStory
    <3>2. task'[w] = task[w]
      BY <1>0, <1>5, <3>1, Zenon
    <3>3. contexts[e].status = "ApprovalPending" => contexts[e].chain = StoryOf(e, Submitters(e))
      BY <1>6, <2>1, <2>2, Zenon DEF StoryInv, StoredStory
    <3> QED BY <1>6, <2>2, <3>1, <3>2, <3>3, Zenon
  <2>3. CASE e = a
    <3>1. x.chain = StoryOf(a, {t} \cup Submitters(a))
      BY <1>0, <1>2, <1>4, Zenon DEF StoryInv, LiveStory
    <3>2. task'[t].action = a /\ task'[t].pc = "ok"
      BY <1>2, <1>3, <1>5, Zenon DEF SameCall
    <3>3. x.status = "ApprovalPending" => {t} \cup Submitters(a) = Submitters(a)
      <4>1. x.status = "ApprovalPending" => c.op = "submit"
        BY <1>1, <1>4, <1>4a, Zenon
      <4>2. c.op = "submit" => t \in Submitters(a)
        BY <1>2, Zenon DEF Submitters, Calls
      <4> QED BY <4>1, <4>2, Zenon
    <3> QED BY <1>6, <2>3, <3>1, <3>2, <3>3, Zenon
  <2> QED BY <2>2, <2>3, Zenon
<1> QED BY <1>8, <1>11, <1>12, <1>13, <1>14, ZenonT(30) DEF StoryInv

\* A call that begins has written nothing yet.
LEMMA IdleIsUntold ==
  ASSUME LogInv, NEW t \in Tasks, task[t].op = "none", NEW a \in Actions, NEW r \in log[a]
  PROVE  r[2] # t
<1>1. r \in Receipt \X Tasks
  BY Zenon DEF LogInv
<1>2. PICK k \in Receipt, u \in Tasks : r = <<k, u>>
  BY <1>1
<1>3. r[2] = u
  BY <1>2
<1> QED BY <1>2, <1>3, Zenon DEF LogInv

\* submit_action keeps StoryInv: an action is submitted once.
LEMMA SubmitStory ==
  ASSUME RuntimeInv, StoryInv, NEW t \in Tasks, NEW a \in Actions, NEW f \in Envelopes, SubmitAction(t, a, f)
  PROVE  StoryInv'
<1> DEFINE d == [Idle EXCEPT !.op = "submit", !.pc = "validate", !.action = a, !.envelope = f]
<1>0. /\ task[t] = Idle /\ task' = [task EXCEPT ![t] = d] /\ contexts' = contexts /\ log' = log
      /\ \A u \in Tasks : task[u].op = "submit" => task[u].action # a
      /\ TasksInv /\ LogInv
  BY Zenon DEF SubmitAction, Set, RuntimeInv
<1>1. d.op = "submit" /\ d.pc = "validate" /\ d.action = a /\ d.chain = {}
  BY IdleIs, Zenon DEF TaskRecord, PC
<1> HIDE DEF d
<1>2. task'[t] = d /\ (\A u \in Tasks : u # t => task'[u] = task[u]) /\ task[t].op = "none" /\ ~Live(task[t])
      /\ Live(d) /\ task[t].pc = "idle"
  BY <1>0, <1>1, IdleIs, Zenon DEF TasksInv, Live
<1>3. contexts[a] = Absent
  BY <1>0, Zenon DEF StoryInv, RecordSubmitted, Calls
<1>4. OneSubmit'
  BY <1>0, <1>1, <1>2 DEF StoryInv, OneSubmit, Calls
<1>5. RecordSubmitted'
  BY <1>0, <1>1, <1>2 DEF StoryInv, RecordSubmitted, Calls
<1>6. LiveRecord'
  <2>1. ASSUME NEW u \in Tasks, Live(task'[u]) PROVE task'[u].op = "submit" <=> contexts[task'[u].action] = Absent
    <3>1. CASE u = t
      BY <1>1, <1>2, <1>3, <3>1, Zenon
    <3>2. CASE u # t
      BY <1>2, <2>1, <3>2, Zenon DEF StoryInv, LiveRecord
    <3> QED BY <3>1, <3>2, Zenon
  <2> QED BY <1>0, <2>1, Zenon DEF LiveRecord
<1>7. \A e \in Actions : e # a => Submitters(e)' = Submitters(e)
  BY <1>1, <1>2, ZenonT(30) DEF Submitters, Calls
<1>8. Submitters(a)' = {t}
  BY <1>0, <1>1, <1>2, ZenonT(30) DEF Submitters, Calls
<1>9. ASSUME NEW u \in Tasks, u # t, Live(task[u]) PROVE task[u].action # a
  BY <1>0, <1>3, <1>9, BegunOp, Zenon DEF StoryInv, LiveRecord, Live
<1>10. LiveStory'
  <2>1. SUFFICES ASSUME NEW u \in Tasks, Live(task'[u]), NEW e, e = task'[u].action
                 PROVE  task'[u].chain = {r \in log[e] : r[2] \in {u} \cup Submitters(e)'}
    BY <1>0, <2>1, Zenon DEF LiveStory, StoryOf, Submitters, Calls
  <2>2. CASE u = t
    <3>1. \A r \in log[a] : r[2] # t
      BY <1>0, <1>2, IdleIsUntold, Zenon
    <3>2. e = a /\ task'[u].chain = {}
      BY <1>1, <1>2, <2>1, <2>2, Zenon
    <3> QED BY <1>8, <2>2, <3>1, <3>2, Zenon
  <2>3. CASE u # t
    <3>1. task'[u] = task[u] /\ Live(task[u])
      BY <1>2, <2>1, <2>3, Zenon
    <3>2. task[u].action # a /\ task[u].action \in Actions
      BY <1>0, <1>9, <2>3, <3>1, BegunOp, Zenon DEF Live
    <3>3. e = task[u].action
      BY <2>1, <3>1, Zenon
    <3>4. task[u].chain = StoryOf(e, {u} \cup Submitters(e))
      BY <3>1, <3>3, Zenon DEF StoryInv, LiveStory
    <3>5. Submitters(e)' = Submitters(e)
      BY <1>7, <3>2, <3>3, Zenon
    <3> QED BY <3>1, <3>4, <3>5, Zenon DEF StoryOf
  <2> QED BY <2>2, <2>3, Zenon
<1>11. ASSUME NEW e \in Actions PROVE StoredStory(e)'
  <2>1. SUFFICES ASSUME contexts[e] # Absent
                 PROVE  /\ \E w \in Tasks : /\ task'[w].action = e /\ task'[w].pc = "ok"
                                            /\ contexts[e].chain = {r \in log[e] : r[2] \in {w} \cup Submitters(e)'}
                        /\ contexts[e].status = "ApprovalPending" =>
                              contexts[e].chain = {r \in log[e] : r[2] \in Submitters(e)'}
    BY <1>0, Zenon DEF StoredStory, StoryOf
  <2>2. e # a /\ Submitters(e)' = Submitters(e)
    BY <1>3, <1>7, <2>1, Zenon
  <2>3. PICK w \in Tasks : /\ task[w].action = e /\ task[w].pc = "ok"
                           /\ contexts[e].chain = StoryOf(e, {w} \cup Submitters(e))
    BY <2>1, Zenon DEF StoryInv, StoredStory
  <2>4. contexts[e].status = "ApprovalPending" => contexts[e].chain = StoryOf(e, Submitters(e))
    BY <2>1, Zenon DEF StoryInv, StoredStory
  <2>5. w # t /\ task'[w] = task[w]
    BY <1>2, <2>3, Zenon
  <2> QED BY <2>2, <2>3, <2>4, <2>5, Zenon DEF StoryOf
<1> QED BY <1>4, <1>5, <1>6, <1>10, <1>11, ZenonT(30) DEF StoryInv

\* resume_with_binding keeps StoryInv: what it clones is the story of the submission.
LEMMA ResumeStory ==
  ASSUME RuntimeInv, StoryInv, NEW t \in Tasks, NEW a \in Actions, NEW f \in Envelopes, NEW b \in Bindings,
         ResumeWithBinding(t, a, f, b)
  PROVE  StoryInv'
<1> DEFINE c == [Idle EXCEPT !.op = "resume", !.action = a, !.envelope = f, !.binding = b]
<1>0. task[t] = Idle /\ contexts' = contexts /\ log' = log /\ TasksInv /\ LogInv
  BY Zenon DEF ResumeWithBinding, RuntimeInv
<1>1. c \in TaskRecord /\ c.op = "resume" /\ c.action = a
  BY IdleIs, ZenonT(30) DEF TaskRecord, PC
<1>3. ASSUME NEW d, Set(t, d), SameCall(d, c),
             \/ ~Live(d)
             \/ /\ Live(d) /\ contexts[a] # Absent /\ contexts[a].status = "ApprovalPending"
                /\ d.chain = contexts[a].chain
      PROVE  StoryInv'
  <2>1. d.op = "resume" /\ d.action = a
    BY <1>1, <1>3, Zenon DEF SameCall
  <2>2. task'[t] = d /\ (\A u \in Tasks : u # t => task'[u] = task[u]) /\ task[t].op = "none" /\ ~Live(task[t])
        /\ task[t].pc = "idle"
    BY <1>0, <1>3, IdleIs, ZenonT(40) DEF TasksInv, Live, Set
  <2>3. OneSubmit'
    BY <2>1, <2>2 DEF StoryInv, OneSubmit, Calls
  <2>4. RecordSubmitted'
    BY <1>0, <2>1, <2>2 DEF StoryInv, RecordSubmitted, Calls
  <2>5. LiveRecord'
    <3>1. ASSUME NEW u \in Tasks, Live(task'[u]) PROVE task'[u].op = "submit" <=> contexts[task'[u].action] = Absent
      <4>1. CASE u = t
        BY <1>3, <2>1, <2>2, <3>1, <4>1, Zenon
      <4>2. CASE u # t
        BY <2>2, <3>1, <4>2, Zenon DEF StoryInv, LiveRecord
      <4> QED BY <4>1, <4>2, Zenon
    <3> QED BY <1>0, <3>1, Zenon DEF LiveRecord
  <2>6. \A e : Submitters(e)' = Submitters(e)
    BY <2>1, <2>2, ZenonT(30) DEF Submitters, Calls
  <2>7. LiveStory'
    <3>1. SUFFICES ASSUME NEW u \in Tasks, Live(task'[u]), NEW e, e = task'[u].action
                   PROVE  task'[u].chain = {r \in log[e] : r[2] \in {u} \cup Submitters(e)'}
      BY <1>0, <3>1, Zenon DEF LiveStory, StoryOf, Submitters, Calls
    <3>2. CASE u = t
      <4>1. \A r \in log[a] : r[2] # t
        BY <1>0, <2>2, IdleIsUntold, Zenon
      <4>2. contexts[a] # Absent /\ contexts[a].status = "ApprovalPending" /\ d.chain = contexts[a].chain
        BY <1>3, <2>2, <3>1, <3>2, Zenon
      <4>3. contexts[a].chain = StoryOf(a, Submitters(a))
        BY <4>2, Zenon DEF StoryInv, StoredStory
      <4>4. e = a /\ task'[u].chain = StoryOf(a, Submitters(a)) /\ Submitters(a)' = Submitters(a)
        BY <2>1, <2>2, <2>6, <3>1, <3>2, <4>2, <4>3, Zenon
      <4> QED BY <3>2, <4>1, <4>4, ZenonT(30) DEF StoryOf
    <3>3. CASE u # t
      <4>1. task'[u] = task[u] /\ Live(task[u])
        BY <2>2, <3>1, <3>3, Zenon
      <4>2. e = task[u].action
        BY <3>1, <4>1, Zenon
      <4>3. task[u].chain = StoryOf(e, {u} \cup Submitters(e))
        BY <4>1, <4>2, Zenon DEF StoryInv, LiveStory
      <4>4. Submitters(e)' = Submitters(e)
        BY <2>6, Zenon
      <4> QED BY <4>1, <4>3, <4>4, Zenon DEF StoryOf
    <3> QED BY <3>2, <3>3, Zenon
  <2>8. ASSUME NEW e \in Actions PROVE StoredStory(e)'
    <3>1. SUFFICES ASSUME contexts[e] # Absent
                   PROVE  /\ \E w \in Tasks : /\ task'[w].action = e /\ task'[w].pc = "ok"
                                              /\ contexts[e].chain = {r \in log[e] : r[2] \in {w} \cup Submitters(e)'}
                          /\ contexts[e].status = "ApprovalPending" =>
                                contexts[e].chain = {r \in log[e] : r[2] \in Submitters(e)'}
      BY <1>0, Zenon DEF StoredStory, StoryOf
    <3>2. PICK w \in Tasks : /\ task[w].action = e /\ task[w].pc = "ok"
                             /\ contexts[e].chain = StoryOf(e, {w} \cup Submitters(e))
      BY <3>1, Zenon DEF StoryInv, StoredStory
    <3>3. contexts[e].status = "ApprovalPending" => contexts[e].chain = StoryOf(e, Submitters(e))
      BY <3>1, Zenon DEF StoryInv, StoredStory
    <3>4. w # t /\ task'[w] = task[w] /\ Submitters(e)' = Submitters(e)
      BY <2>2, <2>6, <3>2, Zenon
    <3> QED BY <3>2, <3>3, <3>4, Zenon DEF StoryOf
  <2> QED BY <2>3, <2>4, <2>5, <2>7, <2>8, Zenon DEF StoryInv
<1>4. CASE Set(t, Return(c, "err"))
  <2>1. SameCall(Return(c, "err"), c) /\ ~Live(Return(c, "err"))
    BY <1>1, ReturnIs, Zenon DEF Live
  <2> QED BY <1>3, <1>4, <2>1, Zenon
<1>5. CASE /\ contexts[a] # Absent /\ contexts[a].status = "ApprovalPending"
           /\ Set(t, [c EXCEPT !.pc = "consume", !.status = contexts[a].status, !.chain = contexts[a].chain])
  <2> DEFINE d == [c EXCEPT !.pc = "consume", !.status = contexts[a].status, !.chain = contexts[a].chain]
  <2>1. SameCall(d, c) /\ d.pc = "consume" /\ d.chain = contexts[a].chain
    BY <1>1, Zenon DEF SameCall, TaskRecord
  <2>2. Live(d)
    BY <2>1, Zenon DEF Live
  <2> HIDE DEF d
  <2> QED BY <1>3, <1>5, <2>1, <2>2, Zenon DEF d
<1> QED BY <1>4, <1>5, Zenon DEF ResumeWithBinding

\* StoryInv holds when the runtime starts.
LEMMA StoryStart ==
  ASSUME Init
  PROVE  StoryInv
<1>1. \A t \in Tasks : task[t].op = "none" /\ ~Live(task[t])
  BY IdleIs, Zenon DEF Init, Live
<1>2. \A a \in Actions : contexts[a] = Absent
  BY Zenon DEF Init
<1> QED BY <1>1, <1>2, Zenon DEF StoryInv, OneSubmit, RecordSubmitted, LiveRecord, LiveStory, StoredStory, Calls

\* Every step keeps StoryInv.
LEMMA StoryKept ==
  ASSUME RuntimeInv, RuntimeInv', StoryInv, [Next]_vars
  PROVE  StoryInv'
<1>1. ASSUME NEW t \in Tasks, Call(t) PROVE StoryInv'
  BY <1>1, SubmitStory, ResumeStory, Zenon DEF Call
<1>2. ASSUME NEW t \in Tasks, Step(t) PROVE StoryInv'
  BY <1>2, StepGoes, EmitStory, StoreStory, GoesKeeps, ZenonT(30)
<1>3. CASE Grant \/ Tick \/ Registry \/ UNCHANGED vars
  <2>1. task' = task /\ contexts' = contexts /\ log' = log
    BY <1>3, Zenon DEF Grant, Tick, Registry, Register, PruneExpired, vars
  <2>2. OneSubmit' /\ RecordSubmitted' /\ LiveRecord'
    BY <2>1, Zenon DEF StoryInv, OneSubmit, RecordSubmitted, LiveRecord, Calls
  <2>3. LiveStory'
    BY <2>1, ZenonT(30) DEF StoryInv, LiveStory, StoryOf, Submitters, Calls
  <2>4. ASSUME NEW a \in Actions PROVE StoredStory(a)'
    <3>1. Submitters(a)' = Submitters(a) /\ StoredStory(a)
      BY <2>1, Zenon DEF StoryInv, Submitters, Calls
    <3> QED BY <2>1, <3>1, Zenon DEF StoredStory, StoryOf
  <2> QED BY <2>2, <2>3, <2>4, Zenon DEF StoryInv
<1> QED BY <1>1, <1>2, <1>3, Zenon DEF Next

\* The registry and the queue hold what they should.
PlacesInv == registered \subseteq Target /\ queue \in [QueueClass -> SUBSET Tasks]

\* Every step keeps the registry and the queue typed.
LEMMA PlacesKept ==
  ASSUME PlacesInv, [Next]_vars
  PROVE  PlacesInv'
<1>1. ASSUME NEW t \in Tasks, Call(t) PROVE UNCHANGED <<registered, queue>>
  BY <1>1, ZenonT(30) DEF Call, SubmitAction, ResumeWithBinding
<1>2. ASSUME NEW t \in Tasks, Step(t) PROVE PlacesInv'
  <2>1. CASE Enqueue(t)
    <3>1. SelectQueueClass(task[t].envelope) \in QueueClass
      BY Zenon DEF SelectQueueClass, QueueClass
    <3> QED BY <2>1, <3>1, Zenon DEF Enqueue, PlacesInv
  <2>2. CASE Validate(t) \/ PolicyEvaluate(t) \/ RequestApproval(t) \/ Route(t) \/ Execute(t)
    BY <2>2, Zenon DEF Validate, PolicyEvaluate, RequestApproval, Route, Execute, PlacesInv
  <2>3. CASE Verify(t) \/ Rollback(t) \/ Emit(t) \/ Store(t) \/ ConsumeBinding(t)
    BY <2>3, Zenon DEF Verify, Rollback, Emit, Store, ConsumeBinding, PlacesInv
  <2> QED BY <1>2, <2>1, <2>2, <2>3, ZenonT(40) DEF Step
<1>3. Registry => PlacesInv'
  BY Zenon DEF Registry, Register, PruneExpired, PlacesInv
<1>4. Grant \/ Tick \/ UNCHANGED vars => UNCHANGED <<registered, queue>>
  BY Zenon DEF Grant, Tick, vars
<1> QED BY <1>1, <1>2, <1>3, <1>4, ZenonT(40) DEF Next, PlacesInv

\* No more contexts are stored as RollbackFailed than alerts were raised.
LEMMA AlertsCover ==
  ASSUME RuntimeInv
  PROVE  RollbackFailuresAlerted
<1> DEFINE F == {t \in Tasks : task[t].status = "RollbackFailed"}
           R == {a \in Actions : contexts[a] # Absent /\ contexts[a].status = "RollbackFailed"}
           G == {t \in F : task[t].action \in R}
<1>1. F \subseteq Tasks /\ IsFiniteSet(F) /\ Cardinality(F) <= alerts /\ alerts \in Nat
  BY FS_Subset, RuntimeBounds, Zenon DEF RuntimeInv, AlertsInv
<1>2. IsFiniteSet(G) /\ Cardinality(G) <= Cardinality(F)
  <2>1. G \subseteq F
    BY Zenon
  <2> HIDE DEF F, G
  <2> QED BY <1>1, <2>1, FS_Subset, Zenon
<1>3. \A a \in R : \E t \in G : task[t].action = a
  BY Zenon DEF RuntimeInv, ContextsInv, StoredOK
<1>4. [t \in G |-> task[t].action] \in Surjection(G, R)
  BY <1>3, Zenon DEF Surjection
<1>5. IsFiniteSet(R) /\ Cardinality(R) <= Cardinality(G)
  <2> HIDE DEF R, G
  <2> QED BY <1>2, <1>4, FS_Surjection, Zenon
<1>6. Cardinality(R) \in Nat /\ Cardinality(G) \in Nat /\ Cardinality(F) \in Nat
  BY <1>1, <1>2, <1>5, FS_CardinalityType, ZenonT(30)
<1>7. Cardinality(R) <= alerts
  <2> HIDE DEF R, G, F
  <2> QED BY <1>1, <1>2, <1>5, <1>6
<1> QED BY <1>7, Zenon DEF RollbackFailuresAlerted

\* The invariants say together what PipelineSound says.
LEMMA PipelineFollows ==
  ASSUME RuntimeInv, StoryInv, PlacesInv
  PROVE  PipelineSound
<1>1. TypeOK
  BY Zenon DEF RuntimeInv, TasksInv, LogInv, ContextsInv, AlertsInv, PlacesInv, TypeOK
<1>2. NoInvalidTransition
  BY IdleIs, Zenon DEF RuntimeInv, TasksInv, CallOK, Live, NoInvalidTransition, At
<1>3. ChainTellsItsCalls
  BY Zenon DEF StoryInv, StoredStory, ChainTellsItsCalls, At
<1> QED BY <1>1, <1>2, <1>3, AlertsCover, ZenonT(30) DEF PipelineSound

--------------------------------------------------------------------------------
\* The call c is a resume of the action a that has not returned.
InFlight(c, a) == c.op = "resume" /\ c.action = a /\ c.pc \notin {"ok", "err"}

\* Who is admitted, task by task.
LEMMA AdmittedIs == Admitted = [a \in Actions |-> {u \in Tasks : InFlight(task[u], a)}]
  BY Zenon DEF Admitted, Calls, Finished, InFlight

\* If one call changes and is in flight as before, nobody is admitted and nobody leaves.
LEMMA AdmittedSame ==
  ASSUME NEW t \in Tasks, \A u \in Tasks : u # t => task'[u] = task[u],
         \A a \in Actions : InFlight(task'[t], a) <=> InFlight(task[t], a)
  PROVE  Admitted' = Admitted
<1>1. \A u \in Tasks, a \in Actions : InFlight(task'[u], a) <=> InFlight(task[u], a)
  BY Zenon
<1>2. Admitted' = [a \in Actions |-> {u \in Tasks : InFlight(task'[u], a)}]
  BY Zenon DEF Admitted, Calls, Finished, InFlight
<1> QED BY <1>1, <1>2, AdmittedIs, Zenon

\* A resume that returns leaves, and no other does.
LEMMA AdmittedLeaves ==
  ASSUME NEW t \in Tasks, \A u \in Tasks : u # t => task'[u] = task[u], NEW a \in Actions,
         InFlight(task[t], a), task'[t].pc \in {"ok", "err"}
  PROVE  t \in Admitted[a] /\ Admitted' = [Admitted EXCEPT ![a] = @ \ {t}]
<1>1. \A u \in Tasks, e \in Actions :
        InFlight(task'[u], e) <=> InFlight(task[u], e) /\ ~(u = t /\ e = a)
  BY Zenon DEF InFlight
<1>2. Admitted' = [e \in Actions |-> {u \in Tasks : InFlight(task'[u], e)}]
  BY Zenon DEF Admitted, Calls, Finished, InFlight
<1>3. \A e \in Actions : Admitted'[e] = IF e = a THEN Admitted[a] \ {t} ELSE Admitted[e]
  BY <1>1, <1>2, AdmittedIs, ZenonT(40)
<1> QED BY <1>2, <1>3, AdmittedIs, ZenonT(40)

\* A resume that finds its action in APPROVAL_PENDING is admitted.
LEMMA AdmittedEnters ==
  ASSUME NEW t \in Tasks, \A u \in Tasks : u # t => task'[u] = task[u], NEW a \in Actions,
         task[t].op = "none", InFlight(task'[t], a)
  PROVE  Admitted' = [Admitted EXCEPT ![a] = @ \cup {t}]
<1>1. \A u \in Tasks, e \in Actions :
        InFlight(task'[u], e) <=> InFlight(task[u], e) \/ (u = t /\ e = a)
  BY Zenon DEF InFlight
<1>2. Admitted' = [e \in Actions |-> {u \in Tasks : InFlight(task'[u], e)}]
  BY Zenon DEF Admitted, Calls, Finished, InFlight
<1>3. \A e \in Actions : Admitted'[e] = IF e = a THEN Admitted[a] \cup {t} ELSE Admitted[e]
  BY <1>1, <1>2, AdmittedIs, ZenonT(40)
<1> QED BY <1>2, <1>3, AdmittedIs, ZenonT(40)

\* A call that goes on as d without storing leaves without a record, or changes nothing shown.
LEMMA TurnMoves ==
  ASSUME TasksInv, NEW t \in Tasks, NEW d, Live(task[t]), Turns(t, d), d.pc # "ok", contexts' = contexts
  PROVE  Abstract!LifecycleNext \/ UNCHANGED Abstract!lifecycleVars
<1>1. task'[t] = d /\ (\A u \in Tasks : u # t => task'[u] = task[u]) /\ Shown' = Shown
  BY Zenon DEF Turns, TasksInv, Shown
<1>2. task[t].action \in Actions /\ task[t].pc \notin {"ok", "err"}
  BY BegunOp, Zenon DEF Live
<1>3. PICK a \in Actions : a = task[t].action
  BY <1>2, Zenon
<1>4. CASE d.pc = "err" /\ task[t].op = "resume"
  <2>1. InFlight(task[t], a) /\ task'[t].pc \in {"ok", "err"}
    BY <1>1, <1>2, <1>3, <1>4, Zenon DEF InFlight
  <2>2. t \in Admitted[a] /\ Admitted' = [Admitted EXCEPT ![a] = @ \ {t}]
    BY <1>1, <2>1, AdmittedLeaves, Zenon
  <2>3. Abstract!Leave(a, t)
    BY <1>1, <2>2, Zenon DEF Abstract!Leave
  <2> QED BY <2>3, Zenon DEF Abstract!LifecycleNext
<1>5. CASE d.pc # "err" \/ task[t].op # "resume"
  <2>1. \A e \in Actions : InFlight(task'[t], e) <=> InFlight(task[t], e)
    BY <1>1, <1>2, <1>5, ZenonT(30) DEF InFlight, Turns, SameCall
  <2>2. Admitted' = Admitted
    BY <1>1, <2>1, AdmittedSame, Zenon
  <2> QED BY <1>1, <2>2, Zenon DEF Abstract!lifecycleVars
<1> QED BY <1>4, <1>5, Zenon

\* Emitting changes nothing shown, or ends the call.
LEMMA EmitMoves ==
  ASSUME RuntimeInv, NEW t \in Tasks, Emit(t)
  PROVE  Abstract!LifecycleNext \/ UNCHANGED Abstract!lifecycleVars
<1> DEFINE c == task[t]  r == Head(c.emits)  d == Emitted(c, <<r, t>>)
<1>0. contexts' = contexts /\ c.pc = "emit" /\ Live(c) /\ TasksInv
  BY Zenon DEF Emit, At, Live, RuntimeInv
<1>1. c \in TaskRecord /\ CallOK(t, c, log[c.action], passes[c.binding]) /\ c.action \in Actions
  BY <1>0, Begun, Zenon DEF Live, CallOK
<1>2. c.emits # <<>>
  BY <1>0, <1>1, Zenon DEF CallOK
<1>3. CASE Set(t, Return(c, "err"))
  <2>1. Turns(t, Return(c, "err")) /\ Return(c, "err").pc # "ok"
    BY <1>1, <1>3, ReturnIs, Zenon DEF Set, Turns
  <2> QED BY <1>0, <2>1, TurnMoves, Zenon
<1>4. CASE Set(t, d)
  <2>1. SameCall(d, c) /\ CallOK(t, d, log[c.action] \cup {<<r, t>>}, passes[c.binding])
    BY <1>0, <1>1, EmittedOK, Zenon
  <2>2. d.pc # "ok"
    <3>1. CASE c.next = "err"
      BY <1>0, <1>1, <1>2, <3>1, EmittedErr, Zenon
    <3>2. CASE c.next # "err"
      <4>1. c.next # "ok"
        BY <1>0, <1>1, Zenon DEF CallOK, StatusOK, Stage
      <4>2. d.pc = c.pc \/ d.pc = c.next
        BY <1>1, <1>2, <3>2, EmittedIs, Zenon
      <4> QED BY <1>0, <4>1, <4>2, Zenon
    <3> QED BY <3>1, <3>2, Zenon
  <2>3. Turns(t, d)
    BY <1>4, <2>1, Zenon DEF Turns, Set, CallOK
  <2> QED BY <1>0, <2>2, <2>3, TurnMoves, Zenon
<1> QED BY <1>3, <1>4, Zenon DEF Emit

\* A step that neither emits nor stores changes nothing shown, or ends the call.
LEMMA GoesMoves ==
  ASSUME RuntimeInv, RuntimeInv', NEW t \in Tasks, Live(task[t]), contexts' = contexts,
         NEW d, Set(t, d), GoesOn(task[t], d)
  PROVE  Abstract!LifecycleNext \/ UNCHANGED Abstract!lifecycleVars
<1>0. TasksInv /\ TasksInv'
  BY Zenon DEF RuntimeInv
<1>1. task[t].op \in {"submit", "resume"}
  BY <1>0, BegunOp, Zenon DEF Live
<1>2. task'[t] = d /\ task' = [task EXCEPT ![t] = d]
  BY <1>0, Zenon DEF Set, TasksInv
<1>3. d.op # "none"
  BY <1>1, Zenon DEF GoesOn, SameCall
<1>4. Live(d) \/ d.pc \in {"ok", "err"}
  BY <1>0, <1>2, <1>3 DEF TasksInv, CallOK, Idle
<1>5. Turns(t, d) /\ d.pc # "ok"
  BY <1>2, <1>4, Zenon DEF Turns, GoesOn
<1> QED BY <1>0, <1>5, TurnMoves, Zenon

\* Storing records a submission, or the outcome of an admitted resume.
LEMMA StoreMoves ==
  ASSUME RuntimeInv, StoryInv, NEW t \in Tasks, Store(t)
  PROVE  Abstract!LifecycleNext
<1> DEFINE c == task[t]  d == Return(c, "ok")  x == [status |-> c.status, chain |-> c.chain]
<1>0. /\ c.pc = "store" /\ Live(c) /\ TasksInv /\ ContextsInv
      /\ task' = [task EXCEPT ![t] = d] /\ contexts' = [contexts EXCEPT ![c.action] = x]
  BY Zenon DEF Store, At, Live, RuntimeInv, Set
<1>1. c \in TaskRecord /\ CallOK(t, c, log[c.action], passes[c.binding]) /\ c.action \in Actions
      /\ c.op \in {"submit", "resume"}
  BY <1>0, Begun, Zenon DEF Live, CallOK
<1>2. PICK a \in Actions : a = c.action
  BY <1>1, Zenon
<1>3. x \in Context /\ x.status = c.status
  BY <1>1, Zenon DEF Context, TaskRecord
<1>4. SameCall(d, c) /\ d.pc = "ok"
  BY <1>1, ReturnIs, Zenon
<1> HIDE DEF x, d
<1>5. contexts'[a] = x /\ x # Absent /\ \A e \in Actions : e # a => contexts'[e] = contexts[e]
  BY <1>0, <1>2, <1>3, AbsentAssumption, ZenonT(30) DEF ContextsInv
<1>6. Shown' = [Shown EXCEPT ![a] = c.status]
  BY <1>3, <1>5, Zenon DEF Shown
<1>7. StatusOK(c) /\ Stage(c) = "store"
  BY <1>0, <1>1, Settled, ZenonT(40)
<1>8. task'[t] = d /\ \A u \in Tasks : u # t => task'[u] = task[u]
  BY <1>0, Zenon DEF TasksInv
<1>9. CASE c.op = "submit"
  <2>1. Shown[a] = Absent
    BY <1>0, <1>2, <1>9, ZenonT(40) DEF StoryInv, LiveRecord, Shown
  <2>2. c.status \in {"ApprovalPending", "PolicyDenied", "Succeeded", "Failed", "RolledBack", "RollbackFailed"}
    BY <1>7, Zenon DEF StatusOK
  <2>3. \A e \in Actions : InFlight(task'[t], e) <=> InFlight(task[t], e)
    BY <1>4, <1>8, <1>9, Zenon DEF InFlight, SameCall
  <2>4. Admitted' = Admitted
    BY <1>8, <2>3, AdmittedSame, Zenon
  <2>5. Abstract!Record(a)
    BY <1>6, <2>1, <2>2, <2>4, ZenonT(40) DEF Abstract!Record
  <2> QED BY <2>5, Zenon DEF Abstract!LifecycleNext
<1>10. CASE c.op = "resume"
  <2>1. c.status \in {"Succeeded", "Failed"}
    BY <1>7, <1>10, Zenon DEF StatusOK
  <2>2. InFlight(task[t], a) /\ task'[t].pc \in {"ok", "err"}
    BY <1>0, <1>2, <1>4, <1>8, <1>10, Zenon DEF InFlight
  <2>3. t \in Admitted[a] /\ Admitted' = [Admitted EXCEPT ![a] = @ \ {t}]
    BY <1>8, <2>2, AdmittedLeaves, Zenon
  <2>4. Abstract!Leave(a, t)
    BY <1>6, <2>1, <2>3, ZenonT(40) DEF Abstract!Leave
  <2> QED BY <2>4, Zenon DEF Abstract!LifecycleNext
<1> QED BY <1>1, <1>9, <1>10, Zenon

\* A call that begins is admitted if it resumes an action in APPROVAL_PENDING.
LEMMA CallMovesRecord ==
  ASSUME RuntimeInv, NEW t \in Tasks, Call(t)
  PROVE  Abstract!LifecycleNext \/ UNCHANGED Abstract!lifecycleVars
<1>0. TasksInv /\ contexts' = contexts /\ Shown' = Shown /\ task[t] = Idle /\ task[t].op = "none"
  BY IdleIs, ZenonT(30) DEF Call, SubmitAction, ResumeWithBinding, Shown, RuntimeInv
<1>1. ASSUME NEW a \in Actions, NEW f \in Envelopes, SubmitAction(t, a, f)
      PROVE  UNCHANGED Abstract!lifecycleVars
  <2> DEFINE d == [Idle EXCEPT !.op = "submit", !.pc = "validate", !.action = a, !.envelope = f]
  <2>1. d.op = "submit"
    BY IdleIs, Zenon DEF TaskRecord
  <2>2. task' = [task EXCEPT ![t] = d]
    BY <1>1, Zenon DEF SubmitAction, Set
  <2> HIDE DEF d
  <2>3. task'[t] = d /\ \A u \in Tasks : u # t => task'[u] = task[u]
    BY <1>0, <2>2, Zenon DEF TasksInv
  <2>4. \A e \in Actions : InFlight(task'[t], e) <=> InFlight(task[t], e)
    BY <1>0, <2>1, <2>3, Zenon DEF InFlight
  <2>5. Admitted' = Admitted
    BY <2>3, <2>4, AdmittedSame, Zenon
  <2> QED BY <1>0, <2>5, Zenon DEF Abstract!lifecycleVars
<1>2. ASSUME NEW a \in Actions, NEW f \in Envelopes, NEW b \in Bindings, ResumeWithBinding(t, a, f, b)
      PROVE  Abstract!LifecycleNext \/ UNCHANGED Abstract!lifecycleVars
  <2> DEFINE c == [Idle EXCEPT !.op = "resume", !.action = a, !.envelope = f, !.binding = b]
             d == [c EXCEPT !.pc = "consume", !.status = contexts[a].status, !.chain = contexts[a].chain]
  <2>1. c \in TaskRecord /\ c.op = "resume" /\ c.action = a
    BY IdleIs, ZenonT(30) DEF TaskRecord, PC
  <2>2. d.op = "resume" /\ d.action = a /\ d.pc = "consume"
    BY <2>1, Zenon DEF TaskRecord
  <2>3. Return(c, "err").pc = "err"
    BY <2>1, ReturnIs, Zenon
  <2>4. \/ Set(t, Return(c, "err"))
        \/ contexts[a] # Absent /\ contexts[a].status = "ApprovalPending" /\ Set(t, d)
    BY <1>2, Zenon DEF ResumeWithBinding
  <2> HIDE DEF c, d
  <2>5. CASE Set(t, Return(c, "err"))
    <3>1. task'[t] = Return(c, "err") /\ \A u \in Tasks : u # t => task'[u] = task[u]
      BY <1>0, <2>5, Zenon DEF TasksInv, Set
    <3>2. \A e \in Actions : InFlight(task'[t], e) <=> InFlight(task[t], e)
      BY <1>0, <2>3, <3>1, Zenon DEF InFlight
    <3>3. Admitted' = Admitted
      BY <3>1, <3>2, AdmittedSame, Zenon
    <3> QED BY <1>0, <3>3, Zenon DEF Abstract!lifecycleVars
  <2>6. CASE contexts[a] # Absent /\ contexts[a].status = "ApprovalPending" /\ Set(t, d)
    <3>1. task'[t] = d /\ \A u \in Tasks : u # t => task'[u] = task[u]
      BY <1>0, <2>6, Zenon DEF TasksInv, Set
    <3>2. InFlight(task'[t], a)
      BY <2>2, <3>1, Zenon DEF InFlight
    <3>3. Admitted' = [Admitted EXCEPT ![a] = @ \cup {t}]
      BY <1>0, <3>1, <3>2, AdmittedEnters, Zenon
    <3>4. Shown[a] = "ApprovalPending"
      BY <2>6, Zenon DEF Shown
    <3>5. Abstract!Admit(a, t)
      BY <1>0, <3>3, <3>4, Zenon DEF Abstract!Admit
    <3> QED BY <3>5, Zenon DEF Abstract!LifecycleNext
  <2> QED BY <2>4, <2>5, <2>6, Zenon
<1> QED BY <1>1, <1>2, Zenon DEF Call

\* Every step of the runtime is a step of the lifecycle or changes nothing it shows.
LEMMA RecordMoves ==
  ASSUME RuntimeInv, RuntimeInv', StoryInv, [Next]_vars
  PROVE  [Abstract!LifecycleNext]_(Abstract!lifecycleVars)
<1>1. ASSUME NEW t \in Tasks, Step(t) PROVE Abstract!LifecycleNext \/ UNCHANGED Abstract!lifecycleVars
  BY <1>1, StepGoes, EmitMoves, StoreMoves, GoesMoves, ZenonT(30)
<1>2. Grant \/ Tick \/ Registry \/ UNCHANGED vars => UNCHANGED Abstract!lifecycleVars
  <2>1. Grant \/ Tick \/ Registry \/ UNCHANGED vars => task' = task /\ contexts' = contexts
    BY Zenon DEF Grant, Tick, Registry, Register, PruneExpired, vars
  <2> QED BY <2>1, Zenon DEF Abstract!lifecycleVars, Shown, Admitted, Calls, Finished
<1> QED BY <1>1, <1>2, CallMovesRecord, Zenon DEF Next

\* The three invariants hold together.
LEMMA StoryHolds == Spec => [](RuntimeInv /\ StoryInv /\ PlacesInv)
<1>1. Init => StoryInv /\ PlacesInv
  BY StoryStart, Zenon DEF Init, PlacesInv
<1>2. RuntimeInv /\ RuntimeInv' /\ StoryInv /\ PlacesInv /\ [Next]_vars => StoryInv' /\ PlacesInv'
  BY StoryKept, PlacesKept, Zenon
<1> QED BY <1>1, <1>2, RuntimeHolds, PTL DEF Spec

\* For any number of calls in flight and wherever one fails, the pipeline never asks for an edge
\* outside TRANSITIONS, a stored context names exactly the receipts of the submission and of the
\* call that stored it, and every failed rollback is alerted.
THEOREM PipelineIsSound == Spec => []PipelineSound
<1>1. RuntimeInv /\ StoryInv /\ PlacesInv => PipelineSound
  BY PipelineFollows, Zenon
<1> QED BY <1>1, StoryHolds, PTL

\* For any number of calls in flight, the records that get_action_status shows and the resumes
\* that are under way implement ActionLifecycle.
THEOREM RecordsRefine == Spec => RecordsFollowLifecycle
<1>1. Init => Abstract!LifecycleInit
  <2>1. Init => \A t \in Tasks : task[t].op = "none"
    BY IdleIs, Zenon DEF Init
  <2> QED BY <2>1, Zenon DEF Init, Abstract!LifecycleInit, Shown, Admitted, Calls
<1>2. RuntimeInv /\ RuntimeInv' /\ StoryInv /\ [Next]_vars => [Abstract!LifecycleNext]_(Abstract!lifecycleVars)
  BY RecordMoves, Zenon
<1> QED BY <1>1, <1>2, StoryHolds, PTL DEF Spec, RecordsFollowLifecycle, Abstract!LifecycleSpec

\* A record other than APPROVAL_PENDING never changes again once no resume admitted before is in
\* flight: only an overtaken resume can still write over a terminal state.
THEOREM SettledRecordsAreFinal == Spec => Abstract!SettledIsFinal
<1>1. [Abstract!LifecycleNext]_(Abstract!lifecycleVars)
        => [\A a \in Actions : Abstract!Settled(a) => Abstract!Settled(a)' /\ Shown'[a] = Shown[a]]_(Abstract!lifecycleVars)
  <2> SUFFICES ASSUME Abstract!LifecycleNext, NEW a \in Actions, Abstract!Settled(a)
               PROVE  Abstract!Settled(a)' /\ Shown'[a] = Shown[a]
    BY Zenon
  <2>1. Shown[a] \notin {Absent, "ApprovalPending"} /\ Admitted[a] = {}
    BY Zenon DEF Abstract!Settled
  <2>2. ASSUME NEW e \in Actions, Abstract!Record(e) PROVE Shown'[a] = Shown[a] /\ Admitted'[a] = Admitted[a]
    BY <2>1, <2>2, ZenonT(30) DEF Abstract!Record, Shown, Admitted
  <2>3. ASSUME NEW e \in Actions, NEW r \in Tasks, Abstract!Admit(e, r)
        PROVE  Shown'[a] = Shown[a] /\ Admitted'[a] = Admitted[a]
    <3>1. e # a /\ Shown' = Shown /\ Admitted' = [Admitted EXCEPT ![e] = @ \cup {r}]
      BY <2>1, <2>3, Zenon DEF Abstract!Admit
    <3> QED BY <3>1, AdmittedIs, Zenon
  <2>4. ASSUME NEW e \in Actions, NEW r \in Tasks, Abstract!Leave(e, r)
        PROVE  Shown'[a] = Shown[a] /\ Admitted'[a] = Admitted[a]
    <3>1. e # a /\ Admitted' = [Admitted EXCEPT ![e] = @ \ {r}]
      BY <2>1, <2>4, Zenon DEF Abstract!Leave
    <3>2. Shown' = Shown \/ \E s : Shown' = [Shown EXCEPT ![e] = s]
      BY <2>4, Zenon DEF Abstract!Leave
    <3> QED BY <3>1, <3>2, AdmittedIs, Zenon DEF Shown
  <2> QED BY <2>1, <2>2, <2>3, <2>4, ZenonT(30) DEF Abstract!LifecycleNext, Abstract!Settled
<1> QED BY <1>1, RecordsRefine, PTL DEF RecordsFollowLifecycle, Abstract!LifecycleSpec, Abstract!SettledIsFinal
==================================================================================
