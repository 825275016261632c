--------------------------- MODULE DispatchQueue ---------------------------
(***************************************************************************)
(* The L3 dispatch queue of the capability runtime                         *)
(* (crates/aios-capability-runtime/src/dispatch_queue.rs): four FIFO       *)
(* classes with fixed capacities, a hard cap on AGENT_PROPOSAL, and one    *)
(* token bucket per subject.                                               *)
(*                                                                         *)
(* Several tasks enrol concurrently.  `enroll' takes two locks one after   *)
(* the other and never both: a token is consumed under `rate_limiters',    *)
(* the capacity check and the push happen under `queues'.  They are two    *)
(* actions here, and any other task may run between them.                  *)
(*                                                                         *)
(* Tokens are counted in units of 1/TokenCost, so that the refill of 0.5   *)
(* tokens per second is the integer RefillPerTick; the clock is the        *)
(* monotonic Instant, and buckets are refilled lazily, as in the code.     *)
(***************************************************************************)
EXTENDS Integers, Sequences

CONSTANTS Tasks,          \* tokio tasks that may be inside enroll()
          Subjects,       \* subject_canonical_id values
          Classes,        \* the classes callers enrol into
          Capacity,       \* capacity_per_class
          BurstCapacity,  \* DEFAULT_BURST_CAPACITY, in tokens
          TokenCost,      \* units in one token
          RefillPerTick,  \* units gained per tick of the clock
          QueueMaxTime,   \* bound on the clock
          MaxAttempts     \* bound on the number of enroll() calls

QueueClass == {"Interactive", "AgentProposal", "Background", "RecoveryPriority"}

ASSUME CapacityAssumption == /\ Capacity \in [QueueClass -> Nat]
                             /\ Classes \subseteq QueueClass
ASSUME BucketAssumption == /\ BurstCapacity \in Nat \ {0}
                           /\ TokenCost \in Nat \ {0}
                           /\ RefillPerTick \in Nat
ASSUME BoundAssumption == QueueMaxTime \in Nat /\ MaxAttempts \in Nat

VARIABLES clock,      \* the monotonic clock
          bucket,     \* rate_limiters: subject -> TokenBucket, once created
          queues,     \* class -> FIFO of enrolled contexts
          call,       \* task -> the context it is enrolling, or Idle
          attempts,   \* number of enroll() calls so far
          granted,    \* history: subject -> instants of its consumed tokens
          enrolled,   \* history: class -> contexts ever pushed
          dequeued    \* history: class -> contexts ever popped

vars == <<clock, bucket, queues, call, attempts, granted, enrolled, dequeued>>

\* An enrolled context; the id stands for its action_id.
Context == [id : Nat, subject : Subjects, class : QueueClass]

NoBucket == [exists |-> FALSE, tokens |-> 0, last |-> 0]
Idle == [at |-> "idle"]

-----------------------------------------------------------------------------
(* TokenBucket *)

FullBucket == BurstCapacity * TokenCost

AtMost(m, n) == IF n <= m THEN n ELSE m

\* TokenBucket::refill_to_now, on a bucket made by default_ai_agent() if the
\* subject has none yet.  The result is the balance after the refill.
Refilled(b, t) ==
    IF b.exists
    THEN AtMost(FullBucket, b.tokens + RefillPerTick * (t - b.last))
    ELSE FullBucket

-----------------------------------------------------------------------------
(* Admission *)

\* capacity_per_class.values().sum()
TotalCapacity == Capacity["Interactive"] + Capacity["AgentProposal"]
                   + Capacity["Background"] + Capacity["RecoveryPriority"]

\* Mutant of HasRoom: the depth before the push is compared with the capacity.
HasRoomAtCapacity(c) ==
    /\ Len(queues[c]) <= Capacity[c]
    /\ c = "AgentProposal" => (Len(queues[c]) + 1) * 2 <= TotalCapacity

\* The two refusals of enroll(), evaluated under the `queues' write lock.
HasRoom(c) ==
    /\ Len(queues[c]) + 1 <= Capacity[c]
    /\ c = "AgentProposal" => (Len(queues[c]) + 1) * 2 <= TotalCapacity

-----------------------------------------------------------------------------

Init ==
    /\ clock = 0
    /\ bucket = [s \in Subjects |-> NoBucket]
    /\ queues = [c \in QueueClass |-> <<>>]
    /\ call = [t \in Tasks |-> Idle]
    /\ attempts = 0
    /\ granted = [s \in Subjects |-> <<>>]
    /\ enrolled = [c \in QueueClass |-> <<>>]
    /\ dequeued = [c \in QueueClass |-> <<>>]

\* Mutant of RateGate: last_refill is not moved when a token is taken.
RateGateKeepsLast(t, s, c) ==
    LET tokens == Refilled(bucket[s], clock)
    IN  /\ call[t].at = "idle"
        /\ attempts < MaxAttempts
        /\ tokens >= TokenCost
        /\ attempts' = attempts + 1
        /\ bucket' = [bucket EXCEPT ![s] =
                        [exists |-> TRUE, last |-> bucket[s].last, tokens |-> tokens - TokenCost]]
        /\ granted' = [granted EXCEPT ![s] = Append(@, clock)]
        /\ call' = [call EXCEPT ![t] =
                      [at |-> "queues", ctx |-> [id |-> attempts', subject |-> s, class |-> c]]]
        /\ UNCHANGED <<clock, queues, enrolled, dequeued>>

\* enroll(), first critical section: refill the subject's bucket, then take a
\* token or return RateLimited(subject).  A refused attempt also moves last_refill.
RateGate(t, s, c) ==
    LET tokens == Refilled(bucket[s], clock)
        admitted == tokens >= TokenCost
    IN  /\ call[t].at = "idle"
        /\ attempts < MaxAttempts
        /\ attempts' = attempts + 1
        /\ bucket' = [bucket EXCEPT ![s] =
                        [exists |-> TRUE, last |-> clock,
                         tokens |-> IF admitted THEN tokens - TokenCost ELSE tokens]]
        /\ granted' = IF admitted
                      THEN [granted EXCEPT ![s] = Append(@, clock)]
                      ELSE granted
        /\ call' = [call EXCEPT ![t] =
                        IF admitted
                        THEN [at |-> "queues",
                              ctx |-> [id |-> attempts', subject |-> s, class |-> c]]
                        ELSE Idle]
        /\ UNCHANGED <<clock, queues, enrolled, dequeued>>

\* enroll(), second critical section: capacity, AGENT_PROPOSAL cap, push_back.
Admit(t) ==
    LET ctx == call[t].ctx
    IN  /\ call[t].at = "queues"
        /\ \/ /\ HasRoom(ctx.class)
              /\ queues' = [queues EXCEPT ![ctx.class] = Append(@, ctx)]
              /\ enrolled' = [enrolled EXCEPT ![ctx.class] = Append(@, ctx)]
              /\ call' = [call EXCEPT ![t] = Idle]
           \/ /\ ~HasRoom(ctx.class)
              /\ call' = [call EXCEPT ![t] = Idle]
              /\ UNCHANGED <<queues, enrolled>>
        /\ UNCHANGED <<clock, bucket, attempts, granted, dequeued>>

\* dequeue(): pop_front under the `queues' write lock; None when empty.
Dequeue(c) ==
    /\ queues[c] # <<>>
    /\ queues' = [queues EXCEPT ![c] = Tail(@)]
    /\ dequeued' = [dequeued EXCEPT ![c] = Append(@, Head(queues[c]))]
    /\ UNCHANGED <<clock, bucket, call, attempts, granted, enrolled>>

\* Time passes between critical sections.
Tick ==
    /\ clock < QueueMaxTime
    /\ clock' = clock + 1
    /\ UNCHANGED <<bucket, queues, call, attempts, granted, enrolled, dequeued>>

Next ==
    \/ \E t \in Tasks, s \in Subjects, c \in Classes : RateGate(t, s, c)
    \/ \E t \in Tasks : Admit(t)
    \/ \E c \in QueueClass : Dequeue(c)
    \/ Tick

Spec == Init /\ [][Next]_vars

-----------------------------------------------------------------------------
(* Properties *)

\* Every variable has its type: queues hold contexts of their own class, and
\* a balance never goes below zero or above the burst.
TypeOK ==
    /\ clock \in Nat
    /\ bucket \in [Subjects -> [exists : BOOLEAN, tokens : 0..FullBucket, last : Nat]]
    /\ queues \in [QueueClass -> Seq(Context)]
    /\ call \in [Tasks -> {Idle} \cup [at : {"queues"}, ctx : Context]]
    /\ attempts \in Nat
    /\ granted \in [Subjects -> Seq(Nat)]
    /\ enrolled \in [QueueClass -> Seq(Context)]
    /\ dequeued \in [QueueClass -> Seq(Context)]

\* However the tasks inside enroll() interleave, no class holds more than its
\* configured capacity: tasks that passed the rate gate together re-check the
\* depth under the `queues' lock before they push.
ClassCapacity == \A c \in QueueClass : Len(queues[c]) <= Capacity[c]

\* The constitutional AGENT_PROPOSAL cap: half of the summed capacity, whatever
\* AGENT_PROPOSAL capacity the operator configured, odd totals included.
AgentProposalCap == Len(queues["AgentProposal"]) * 2 <= TotalCapacity

\* Per class, nothing is lost, duplicated or reordered between enroll() and
\* dequeue().
FifoConservation == \A c \in QueueClass : enrolled[c] = dequeued[c] \o queues[c]

\* What the queue owes its callers although enroll() takes two locks in turn:
\* enrolments that passed the rate gate together neither overfill a class nor
\* break the AGENT_PROPOSAL cap, and what they pushed leaves in that order.
QueueSound == ClassCapacity /\ AgentProposalCap /\ FifoConservation

\* Grants i..n of subject s fit the envelope "one burst plus the refill of the
\* time between the first and the last of them".
WindowFits(s, i, t, n) ==
    n * TokenCost <= FullBucket + RefillPerTick * (t - granted[s][i])

\* The rate limit over every window, not only from the bucket's creation: any
\* run of consecutive tokens granted to a subject fits the envelope, although
\* the code keeps one balance and refills it only when the subject calls.
RateEnvelope ==
    \A s \in Subjects : \A i, j \in DOMAIN granted[s] :
        i <= j => WindowFits(s, i, granted[s][j], j - i + 1)

\* The converse: RateLimited is returned only when one more token now would
\* have broken the envelope, so lazy refilling and the min() at the burst
\* never cost a subject a token it was owed.
RefusalJustified ==
    [][\A t \in Tasks, s \in Subjects, c \in Classes :
          RateGate(t, s, c) /\ granted' = granted
            => \E i \in DOMAIN granted[s] :
                  ~WindowFits(s, i, clock, Len(granted[s]) - i + 2)]_vars

\* total_len()
TotalLen(q) == Len(q["Interactive"]) + Len(q["AgentProposal"])
                 + Len(q["Background"]) + Len(q["RecoveryPriority"])

\* What the comment on enroll() says of the cap: after an admission to
\* AGENT_PROPOSAL that class holds at most half of the enrolled contexts.
AgentProposalShare ==
    [][Len(queues'["AgentProposal"]) > Len(queues["AgentProposal"])
         => Len(queues'["AgentProposal"]) * 2 <= TotalLen(queues')]_vars

=============================================================================
