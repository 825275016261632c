------------------------- MODULE CapabilityRuntime --------------------------
(***************************************************************************)
(* The L3 capability runtime, fully wired: submit_action and               *)
(* resume_with_binding of InMemoryCapabilityRuntime (runtime.rs) over the  *)
(* eight-step pipeline (pipeline.rs), the approval sink, the adapter       *)
(* registry, the dispatch queue and the evidence emitter.                  *)
(*                                                                         *)
(* Every RPC is a tokio task.  A task works on its own copy of the         *)
(* ActionContext and touches shared state only through one lock at a time  *)
(* (registry, queue, sink, evidence chain, context map), so a task is a    *)
(* sequence of steps with one such access in each, and tasks interleave    *)
(* between any two of them.  The context map is written only at the very   *)
(* end of an RPC that did not return an error.                             *)
(*                                                                         *)
(* The lifecycle vocabulary is that of status.rs, and TRANSITIONS is the   *)
(* table T1..T21 of pipeline.rs.                                           *)
(***************************************************************************)
EXTENDS Integers, FiniteSets, Sequences

CONSTANTS
  Tasks,          \* RPC handlers; one task serves one RPC
  Actions,        \* action ids, minted fresh by submit_action
  Envelopes,      \* the envelopes callers send, see Envelope
  RecoveryOnly,   \* targets whose adapter is for recovery mode only
  Capacity,       \* capacity of a queue class
  MaxSubmits,     \* bound on the number of submit_action calls
  MaxResumes,     \* bound on the number of resume_with_binding calls
  Bindings, Hashes, Grantors, Ttls, DefaultTtl, MaxTime, Absent

ASSUME EnvelopeAssumption ==
  Envelopes \subseteq [hash: Hashes, subject: Grantors, is_ai: BOOLEAN,
                       target: STRING, intent: BOOLEAN, valid: BOOLEAN]
ASSUME RuntimeBounds ==
  /\ {Capacity, MaxSubmits, MaxResumes} \subseteq Nat /\ IsFiniteSet(Tasks)
  /\ Ttls \subseteq Nat /\ DefaultTtl \in Nat \ {0} /\ MaxTime \in Nat

ActionLifecycleState ==
  {"Created", "PolicyPending", "ApprovalPending", "OverridePending",
   "PolicyDenied", "OverrideDenied", "Approved", "Queued", "Executing",
   "Verifying", "Succeeded", "Failed", "RolledBack", "RollbackFailed"}

\* is_terminal: the strict terminals.  FAILED and POLICY_DENIED are not.
IsTerminal(s) == s \in {"Succeeded", "RolledBack", "RollbackFailed", "OverrideDenied"}

TRANSITIONS ==
  {<<"Created", "PolicyPending">>, <<"Created", "Failed">>,
   <<"PolicyPending", "Approved">>, <<"PolicyPending", "ApprovalPending">>,
   <<"PolicyPending", "PolicyDenied">>, <<"PolicyPending", "OverridePending">>,
   <<"ApprovalPending", "Approved">>, <<"ApprovalPending", "Failed">>,
   <<"OverridePending", "Approved">>, <<"OverridePending", "OverrideDenied">>,
   <<"Approved", "Queued">>, <<"Queued", "Executing">>, <<"Queued", "Failed">>,
   <<"Executing", "Verifying">>, <<"Executing", "Failed">>,
   <<"Verifying", "Succeeded">>, <<"Verifying", "Failed">>,
   <<"Failed", "RolledBack">>, <<"Failed", "RollbackFailed">>,
   <<"PolicyDenied", "OverridePending">>}

VARIABLES
  task,        \* the RPC handlers
  contexts,    \* the stored ActionContext of an action, or Absent
  registered,  \* targets with a live adapter in the registry
  queue,       \* class -> tasks whose context is enrolled
  log,         \* action -> receipts in the evidence log about it
  alerts,      \* operator_alerts
  requests, bindings, latest, now, passes

Sink == INSTANCE ApprovalSink WITH Requests <- Actions

sinkVars == <<requests, bindings, latest, now, passes>>
vars == <<task, contexts, registered, queue, log, alerts, sinkVars>>

Target == {e.target : e \in Envelopes}
QueueClass == {"Interactive", "AgentProposal"}

\* Record types written to the log; POLICY_DECISION is split by its outcome.
Receipt ==
  {"ACTION_RECEIVED", "POLICY_ALLOW", "POLICY_REQUIRE_APPROVAL", "POLICY_DENY",
   "APPROVAL_REQUESTED", "APPROVAL_GRANTED", "APPROVAL_DENIED", "ACTION_QUEUED",
   "AI_INTERACTIVE_QUEUE_DOWNGRADE", "ROUTING_DECISION", "EXECUTION_STARTED",
   "EXECUTION_COMPLETED", "VERIFICATION_RESULT", "ROLLBACK_COMPLETED"}

\* What the context map keeps of an action: its status and the receipts named by
\* its evidence_chain.  The sandbox_profile entry that a sandbox composer may put
\* in front of them is no receipt, and nothing reads it.
Context == [status: ActionLifecycleState, chain: SUBSET (Receipt \X Tasks)]

ASSUME AbsentAssumption ==
  Absent \notin Actions /\ Absent \notin Context /\ Absent \notin Sink!Binding

Idle == [op |-> "none", pc |-> "idle", action |-> Absent, envelope |-> Absent,
         binding |-> Absent, status |-> "Created", chain |-> {},
         emits |-> <<>>, next |-> "idle", routed |-> FALSE]

Init ==
  /\ task = [t \in Tasks |-> Idle]
  /\ contexts = [a \in Actions |-> Absent]
  /\ registered \in SUBSET Target
  /\ queue = [c \in QueueClass |-> {}]
  /\ log = [a \in Actions |-> {}]
  /\ alerts = 0
  /\ Sink!SinkInit

-----------------------------------------------------------------------------
(* Operators on the local state of a task. *)

Goto(c, pc) == [c EXCEPT !.pc = pc]

\* The RPC returns, and its local context is dropped.
Return(c, result) == [c EXCEPT !.pc = result, !.chain = {}, !.emits = <<>>, !.next = "idle"]

\* Await the emitter for each receipt in turn, then go on at next.
Emitting(c, receipts, next) ==
  [c EXCEPT !.pc = "emit", !.emits = receipts, !.next = next]

\* apply_transition along a path: InvalidTransition unless the table has every
\* edge of it.
Drive(c, path) ==
  LET states == <<c.status>> \o path
  IN IF \A i \in 1..Len(path) : <<states[i], states[i+1]>> \in TRANSITIONS
     THEN [c EXCEPT !.status = path[Len(path)]]
     ELSE [c EXCEPT !.pc = "invalid"]

At(t, pc) == task[t].pc = pc
Set(t, c) == task' = [task EXCEPT ![t] = c]
Calls(op) == {t \in Tasks : task[t].op = op}
Finished(t) == task[t].pc \in {"ok", "err"}

-----------------------------------------------------------------------------
(* submit_action *)

\* A fresh id and a fresh context in CREATED.
SubmitAction(t, a, e) ==
  /\ task[t] = Idle
  /\ Cardinality(Calls("submit")) < MaxSubmits
  /\ \A u \in Tasks : task[u].op = "submit" => task[u].action # a
  /\ Set(t, [Idle EXCEPT !.op = "submit", !.pc = "validate", !.action = a, !.envelope = e])
  /\ UNCHANGED <<contexts, registered, queue, log, alerts, sinkVars>>

\* Mutant of Validate: a refused envelope is stored without its transition.
ValidateUnmarked(t) ==
  /\ At(t, "validate")
  /\ LET c == task[t] IN
       \/ /\ c.envelope.valid
          /\ Set(t, Drive(Emitting(c, <<"ACTION_RECEIVED">>, "policy"), <<"PolicyPending">>))
       \/ ~c.envelope.valid /\ Set(t, Goto(c, "store"))
  /\ UNCHANGED <<contexts, registered, queue, log, alerts, sinkVars>>

\* step_validate_with_provenance_and_sandbox: the provenance of an AI envelope
\* may be refused, an ill-formed envelope always is.
Validate(t) ==
  /\ At(t, "validate")
  /\ LET c == task[t] IN
       \/ /\ c.envelope.valid
          /\ Set(t, Drive(Emitting(c, <<"ACTION_RECEIVED">>, "policy"), <<"PolicyPending">>))
       \/ /\ ~c.envelope.valid \/ c.envelope.is_ai
          /\ Set(t, Drive(Goto(c, "store"), <<"Failed">>))
  /\ UNCHANGED <<contexts, registered, queue, log, alerts, sinkVars>>

\* step_policy_evaluate_with_kernel_and_emit, by what the kernel answers.
PolicyOutcome(c) ==
  {Drive(Emitting(c, <<"POLICY_ALLOW">>, "queue"), <<"Approved">>),
   Drive(Emitting(c, <<"POLICY_REQUIRE_APPROVAL">>, "request"), <<"ApprovalPending">>),
   Drive(Emitting(c, <<"POLICY_DENY">>, "store"), <<"PolicyDenied">>),
   Drive(Goto(c, "store"), <<"PolicyDenied">>),   \* SubjectUnauthenticated
   Return(c, "err")}                                \* Unspecified, kernel error

PolicyEvaluate(t) ==
  /\ At(t, "policy")
  /\ \E c \in PolicyOutcome(task[t]) : Set(t, c)
  /\ UNCHANGED <<contexts, registered, queue, log, alerts, sinkVars>>

\* step_request_approval: hand the request to the sink, then say so.
RequestApproval(t) ==
  /\ At(t, "request")
  /\ \E ttl \in Ttls :
       Sink!SubmitRequest(task[t].action, [hash |-> task[t].envelope.hash, ttl |-> ttl])
  /\ Set(t, Emitting(task[t], <<"APPROVAL_REQUESTED">>, "store"))
  /\ UNCHANGED <<contexts, registered, queue, log, alerts>>

-----------------------------------------------------------------------------
(* The steps shared by submit_action and resume_with_binding. *)

\* select_queue_class; the pipeline passes recovery_mode = false.
SelectQueueClass(e) == IF e.is_ai THEN "AgentProposal" ELSE "Interactive"

QueuedReceipts(e) ==
  IF e.is_ai THEN <<"ACTION_QUEUED", "AI_INTERACTIVE_QUEUE_DOWNGRADE">>
             ELSE <<"ACTION_QUEUED">>

\* step_queue_with_engine_and_emit.  enroll may also refuse for the rate limit
\* or the agent cap (module DispatchQueue); every refusal ends in FAILED.
Enqueue(t) ==
  /\ At(t, "queue")
  /\ LET c == task[t]
         class == SelectQueueClass(c.envelope) IN
       \/ /\ Cardinality(queue[class]) < Capacity
          /\ queue' = [queue EXCEPT ![class] = @ \cup {t}]
          /\ Set(t, Drive(Emitting(c, QueuedReceipts(c.envelope), "route"), <<"Queued">>))
       \/ /\ Set(t, Drive(Goto(c, "store"), <<"Queued", "Failed">>))
          /\ UNCHANGED queue
  /\ UNCHANGED <<contexts, registered, log, alerts, sinkVars>>

\* Mutant of Route: the task waits for an adapter of its target.
RouteAwaitsAdapter(t) ==
  /\ At(t, "route")
  /\ task[t].envelope.target \in registered
  /\ Set(t, [task[t] EXCEPT !.pc = "execute", !.routed = TRUE])
  /\ UNCHANGED <<contexts, registered, queue, log, alerts, sinkVars>>

\* The first registry lookup of step_execute_with_engines_and_emit.
Route(t) ==
  /\ At(t, "route")
  /\ Set(t, [task[t] EXCEPT !.pc = "execute",
                             !.routed = (task[t].envelope.target \in registered)])
  /\ UNCHANGED <<contexts, registered, queue, log, alerts, sinkVars>>

ExecutedReceipts(c) ==
  IF c.routed THEN <<"ROUTING_DECISION", "EXECUTION_STARTED", "EXECUTION_COMPLETED">>
              ELSE <<"EXECUTION_STARTED", "EXECUTION_COMPLETED">>

\* The second lookup, in step_execute_with_engines, then the receipts up to
\* the EXECUTION_COMPLETED with which step_verify_with_engine_and_emit opens.
Execute(t) ==
  /\ At(t, "execute")
  /\ LET c == task[t] IN
       \/ /\ c.envelope.target \notin registered
          /\ Set(t, Drive(Goto(c, "store"), <<"Failed">>))     \* DependencyUnready
       \/ /\ c.envelope.target \in registered \cap RecoveryOnly
          /\ Set(t, Drive(Goto(c, "store"), <<"Failed">>))     \* AdapterRefused
       \/ /\ c.envelope.target \in registered
          /\ Set(t, Drive(Emitting(c, ExecutedReceipts(c), "verify"), <<"Executing">>))
  /\ UNCHANGED <<contexts, registered, queue, log, alerts, sinkVars>>

\* step_verify_with_engine: without a verification intent it always passes (the
\* driver's inject_verify_failure, which only tests set, is left out).
\* Only submit_action goes on to the rollback step after a failure.
Verify(t) ==
  /\ At(t, "verify")
  /\ LET c == task[t] IN
       \/ Set(t, Drive(Emitting(c, <<"VERIFICATION_RESULT">>, "store"),
                       <<"Verifying", "Succeeded">>))
       \/ /\ c.envelope.intent
          /\ Set(t, Drive(Emitting(c, <<"VERIFICATION_RESULT">>,
                                   IF c.op = "submit" THEN "rollback" ELSE "store"),
                          <<"Verifying", "Failed">>))
  /\ UNCHANGED <<contexts, registered, queue, log, alerts, sinkVars>>

\* step_rollback_with_driver_and_emit, by the outcome of the driver.
Rollback(t) ==
  /\ At(t, "rollback")
  /\ LET c == task[t]
         reported == Emitting(c, <<"ROLLBACK_COMPLETED">>, "store") IN
       \/ /\ c.envelope.target \notin registered
          /\ Set(t, Goto(c, "store"))
          /\ UNCHANGED alerts
       \/ /\ c.envelope.target \in registered
          /\ \/ Set(t, Drive(reported, <<"RolledBack">>)) /\ UNCHANGED alerts
             \/ Set(t, Drive(reported, <<"RollbackFailed">>)) /\ alerts' = alerts + 1
             \/ Set(t, reported) /\ UNCHANGED alerts         \* NotAttempted, NotApplicable
             \/ Set(t, Return(c, "err")) /\ UNCHANGED alerts   \* unknown strategy token
  /\ UNCHANGED <<contexts, registered, queue, log, sinkVars>>

\* Mutant of Emitted: the receipt id is not noted in the context.
EmittedUnnoted(c, receipt) ==
  LET sent == [c EXCEPT !.emits = Tail(@)]
  IN IF Len(c.emits) > 1 THEN sent
     ELSE IF c.next = "err" THEN Return(sent, "err")
     ELSE [sent EXCEPT !.pc = c.next, !.next = "idle"]

Emitted(c, receipt) ==
  LET noted == [c EXCEPT !.chain = @ \cup {receipt}, !.emits = Tail(@)]
  IN IF Len(c.emits) > 1 THEN noted
     ELSE IF c.next = "err" THEN Return(noted, "err")
     ELSE [noted EXCEPT !.pc = c.next, !.next = "idle"]

\* EvidenceEmitter::emit: append one receipt under the chain's lock and note
\* its id in the context, or fail the RPC with EvidenceEmitFailed.
Emit(t) ==
  /\ At(t, "emit")
  /\ LET c == task[t]
         receipt == <<Head(c.emits), t>> IN
       \/ /\ log' = [log EXCEPT ![c.action] = @ \cup {receipt}]
          /\ Set(t, Emitted(c, receipt))
       \/ Set(t, Return(c, "err")) /\ UNCHANGED log
  /\ UNCHANGED <<contexts, registered, queue, alerts, sinkVars>>

\* The last statement of both RPCs: insert the final context.
Store(t) ==
  /\ At(t, "store")
  /\ contexts' = [contexts EXCEPT ![task[t].action] =
                    [status |-> task[t].status, chain |-> task[t].chain]]
  /\ Set(t, Return(task[t], "ok"))
  /\ UNCHANGED <<registered, queue, log, alerts, sinkVars>>

-----------------------------------------------------------------------------
(* resume_with_binding *)

\* Mutant of ResumeWithBinding: the stored chain is not carried over.
ResumeFreshChain(t, a, e, b) ==
  /\ task[t] = Idle
  /\ Cardinality(Calls("resume")) < MaxResumes
  /\ contexts[a] # Absent /\ contexts[a].status = "ApprovalPending"
  /\ Set(t, [Idle EXCEPT !.op = "resume", !.action = a, !.envelope = e, !.binding = b,
                         !.pc = "consume", !.status = contexts[a].status])
  /\ UNCHANGED <<contexts, registered, queue, log, alerts, sinkVars>>

\* The stored context is cloned under the read lock, which is then released.
ResumeWithBinding(t, a, e, b) ==
  /\ task[t] = Idle
  /\ Cardinality(Calls("resume")) < MaxResumes
  /\ LET c == [Idle EXCEPT !.op = "resume", !.action = a, !.envelope = e, !.binding = b] IN
       IF contexts[a] # Absent /\ contexts[a].status = "ApprovalPending"
       THEN Set(t, [c EXCEPT !.pc = "consume", !.status = contexts[a].status,
                             !.chain = contexts[a].chain])
       ELSE Set(t, Return(c, "err"))
  /\ UNCHANGED <<contexts, registered, queue, log, alerts, sinkVars>>

\* The checks step_consume_binding makes once the binding is spent: same
\* canonical hash, and an AI subject is not its own approver.  The approver
\* class filter is left to the choice in ConsumeBinding.
Accepts(e, b) ==
  /\ bindings[b].hash = e.hash
  /\ ~(e.is_ai /\ bindings[b].granted_by = e.subject)

\* Mutant of ConsumeBinding: the binding is looked at, not spent.
ConsumeBindingUnspent(t) ==
  /\ At(t, "consume")
  /\ Sink!Consumable(task[t].binding)
  /\ Set(t, Drive(Emitting(task[t], <<"APPROVAL_GRANTED">>, "queue"), <<"Approved">>))
  /\ UNCHANGED <<contexts, registered, queue, log, alerts, sinkVars>>

ConsumeBinding(t) ==
  /\ At(t, "consume")
  /\ LET c == task[t]
         b == c.binding IN
       \/ /\ Sink!ConsumeRefused(b) \/ Sink!ConsumeExpired(b)
          /\ Set(t, Return(c, "err"))
       \/ /\ Sink!ConsumeGranted(b)
          /\ \/ /\ Accepts(c.envelope, b)
                /\ Set(t, Drive(Emitting(c, <<"APPROVAL_GRANTED">>, "queue"), <<"Approved">>))
             \/ Set(t, Emitting(c, <<"APPROVAL_DENIED">>, "err"))
  /\ UNCHANGED <<contexts, registered, queue, log, alerts>>

-----------------------------------------------------------------------------
(* The surroundings: operators grant bindings, time passes, adapters come    *)
(* and go (register, prune_expired).                                         *)

Grant ==
  /\ \E a \in Actions, b \in Bindings, g \in Grantors : Sink!InjectGrantedBinding(a, b, g)
  /\ UNCHANGED <<task, contexts, registered, queue, log, alerts>>

Tick == Sink!SinkTick /\ UNCHANGED <<task, contexts, registered, queue, log, alerts>>

Register(k) ==
  /\ k \notin registered
  /\ registered' = registered \cup {k}
  /\ UNCHANGED <<task, contexts, queue, log, alerts, sinkVars>>

PruneExpired(K) ==
  /\ K # {}
  /\ registered' = registered \ K
  /\ UNCHANGED <<task, contexts, queue, log, alerts, sinkVars>>

Registry == \/ \E k \in Target : Register(k)
            \/ \E K \in SUBSET registered : PruneExpired(K)

Step(t) ==
  \/ Validate(t) \/ PolicyEvaluate(t) \/ RequestApproval(t)
  \/ Enqueue(t) \/ Route(t) \/ Execute(t) \/ Verify(t) \/ Rollback(t)
  \/ Emit(t) \/ Store(t) \/ ConsumeBinding(t)

Call(t) ==
  \E a \in Actions, e \in Envelopes :
    SubmitAction(t, a, e) \/ \E b \in Bindings : ResumeWithBinding(t, a, e, b)

Next == (\E t \in Tasks : Call(t) \/ Step(t)) \/ Grant \/ Tick \/ Registry

Spec == Init /\ [][Next]_vars

\* The executor keeps polling a task until its RPC returns.
FairSpec == Spec /\ \A t \in Tasks : WF_vars(Step(t))

-----------------------------------------------------------------------------
PC == {"idle", "validate", "policy", "request", "queue", "route", "execute", "verify",
       "rollback", "emit", "store", "consume", "ok", "err", "invalid"}

TaskRecord ==
  [op: {"none", "submit", "resume"}, pc: PC, action: Actions \cup {Absent},
   envelope: Envelopes \cup {Absent}, binding: Bindings \cup {Absent},
   status: ActionLifecycleState, chain: SUBSET (Receipt \X Tasks), emits: Seq(Receipt),
   next: PC, routed: BOOLEAN]

(***************************************************************************)
(* Types of the runtime's state.                                           *)
(***************************************************************************)
TypeOK ==
  /\ task \in [Tasks -> TaskRecord]
  /\ contexts \in [Actions -> {Absent} \cup Context]
  /\ registered \subseteq Target
  /\ queue \in [QueueClass -> SUBSET Tasks]
  /\ log \in [Actions -> SUBSET (Receipt \X Tasks)]
  /\ alerts \in Nat

(***************************************************************************)
(* The pipeline, on the submit path and on the hand-written resume path,   *)
(* never asks apply_transition for an edge that TRANSITIONS does not have. *)
(***************************************************************************)
NoInvalidTransition == \A t \in Tasks : ~At(t, "invalid")

(***************************************************************************)
(* Nothing runs without its own authorisation: a task has an               *)
(* EXECUTION_STARTED receipt only if the log already holds its             *)
(* ACTION_QUEUED and either the kernel's ALLOW for this very task or an    *)
(* APPROVAL_GRANTED of this task for a binding that was really spent.      *)
(***************************************************************************)
ExecutionAuthorised ==
  \A a \in Actions, t \in Tasks : <<"EXECUTION_STARTED", t>> \in log[a] =>
    /\ <<"ACTION_QUEUED", t>> \in log[a]
    /\ \/ <<"POLICY_ALLOW", t>> \in log[a]
       \/ <<"APPROVAL_GRANTED", t>> \in log[a] /\ passes[task[t].binding] = 1

(***************************************************************************)
(* Of the resume_with_binding calls that present one binding, at most one  *)
(* gets past APPROVAL_PENDING, however they interleave.                    *)
(***************************************************************************)
OneResumePerBinding ==
  \A t, u \in Calls("resume") :
    /\ task[t].binding = task[u].binding
    /\ task[t].status \notin {"Created", "ApprovalPending"}
    /\ task[u].status \notin {"Created", "ApprovalPending"}
    => t = u

(***************************************************************************)
(* The receipts named in a stored context are in the evidence log, and a   *)
(* context stored as SUCCEEDED or rolled back names the whole story of     *)
(* one execution, from ACTION_RECEIVED to VERIFICATION_RESULT.             *)
(***************************************************************************)
PersistedChainSound ==
  \A a \in Actions : contexts[a] # Absent =>
    /\ contexts[a].chain \subseteq log[a]
    /\ IsTerminal(contexts[a].status) =>
         /\ \E t \in Tasks : <<"ACTION_RECEIVED", t>> \in contexts[a].chain
         /\ \E t \in Tasks :
              \A k \in {"ACTION_QUEUED", "EXECUTION_STARTED",
                        "EXECUTION_COMPLETED", "VERIFICATION_RESULT"} :
                <<k, t>> \in contexts[a].chain

Submitters(a) == {t \in Calls("submit") : task[t].action = a}

\* The receipts about an action that the calls of S have written.
StoryOf(a, S) == {r \in log[a] : r[2] \in S}

(***************************************************************************)
(* A stored context tells whole calls: it names exactly the receipts that  *)
(* the submission and the call that stored it have written, none of them   *)
(* lost and none of a resume that failed or was overtaken, however many    *)
(* resumes are in flight and wherever one of them breaks off.              *)
(***************************************************************************)
ChainTellsItsCalls ==
  \A a \in Actions : contexts[a] # Absent =>
    \E w \in Tasks : /\ task[w].action = a /\ At(w, "ok")
                      /\ contexts[a].chain = StoryOf(a, {w} \cup Submitters(a))

(***************************************************************************)
(* An operator alert has been raised for every action recorded as          *)
(* ROLLBACK_FAILED.                                                        *)
(***************************************************************************)
RollbackFailuresAlerted ==
  Cardinality({a \in Actions : contexts[a] # Absent
                               /\ contexts[a].status = "RollbackFailed"}) <= alerts

(***************************************************************************)
(* The pipeline is sound however the calls interleave and wherever one     *)
(* fails: it asks for no edge outside TRANSITIONS, a stored context tells  *)
(* the calls it rests on from end to end, and every failed rollback is     *)
(* alerted.                                                                *)
(***************************************************************************)
PipelineSound ==
  TypeOK /\ NoInvalidTransition /\ ChainTellsItsCalls /\ RollbackFailuresAlerted

\* What get_action_status shows of an action.
Shown == [a \in Actions |-> IF contexts[a] = Absent THEN Absent ELSE contexts[a].status]

\* The resumes that have found their action in APPROVAL_PENDING and not returned.
Admitted == [a \in Actions |-> {t \in Calls("resume") : task[t].action = a /\ ~Finished(t)}]

Abstract == INSTANCE ActionLifecycle
              WITH Resumes <- Tasks, NotRecorded <- Absent, status <- Shown, admitted <- Admitted

(***************************************************************************)
(* Refinement: the context map, as get_action_status shows it, and the     *)
(* resumes in flight implement ActionLifecycle, however many there are.    *)
(***************************************************************************)
RecordsFollowLifecycle == Abstract!LifecycleSpec

(***************************************************************************)
(* Every RPC returns: no step of the pipeline waits for another task.      *)
(***************************************************************************)
CallsReturn == \A t \in Tasks : task[t].op # "none" ~> Finished(t)

-----------------------------------------------------------------------------
(* What comments in the source say and the code does not do: TLC refutes     *)
(* each of these.                                                            *)

(***************************************************************************)
(* "Any transition out of SUCCEEDED (terminal)" is forbidden (status.rs):  *)
(* a strict terminal in the context map is never overwritten.              *)
(***************************************************************************)
TerminalIsFinal ==
  [][\A a \in Actions :
       contexts[a] # Absent /\ IsTerminal(contexts[a].status)
         => contexts'[a].status = contexts[a].status]_vars

Quiet(a) == \A t \in Tasks : task[t].action = a => Finished(t)

(***************************************************************************)
(* The persisted context alone tells the full chain of receipts of its     *)
(* action (evidence_emit.rs), once no task works on the action.            *)
(***************************************************************************)
PersistedChainComplete ==
  \A a \in Actions :
    contexts[a] # Absent /\ Quiet(a) => log[a] = contexts[a].chain

(***************************************************************************)
(* Every transition produces a receipt (evidence_emit.rs): an action       *)
(* recorded as FAILED has a receipt that reports a failure.                *)
(***************************************************************************)
FailureReceipted ==
  \A a \in Actions : contexts[a] # Absent /\ contexts[a].status = "Failed" =>
    \E t \in Tasks : <<"VERIFICATION_RESULT", t>> \in contexts[a].chain

(***************************************************************************)
(* The queue counts in-flight enrolments (total_len, dispatch_queue.rs):   *)
(* no enrolled context belongs to a call that has completed.               *)
(***************************************************************************)
QueueHoldsInFlight ==
  \A class \in QueueClass : \A t \in queue[class] : ~At(t, "ok")

(***************************************************************************)
(* ROUTING_DECISION is emitted after the adapter is resolved (pipeline.rs):*)
(* every execution that started was routed on the record.                  *)
(***************************************************************************)
ExecutionRouted ==
  \A a \in Actions, t \in Tasks :
    <<"EXECUTION_STARTED", t>> \in log[a] => <<"ROUTING_DECISION", t>> \in log[a]
=============================================================================
