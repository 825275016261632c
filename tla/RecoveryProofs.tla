----------------------------- MODULE RecoveryProofs ------------------------------
(* Proofs about the scheduler's queue and about the recovery boundary and its   *)
(* clients (kernel updates, first boot, self-healing). The specification of a   *)
(* client leaves the boundary free to change between, and together with, the    *)
(* client's steps, so what is proved of a client holds beside every boundary.   *)
EXTENDS DispatchQueue, KernelPipeline, FirstBoot, SelfHealing, Integers, TLAPS

--------------------------------------------------------------------------------
(* The dispatch queue.                                                          *)

\* The positions before the last one.
LEMMA BeforeLast ==
    ASSUME NEW n \in Nat, n # 0
    PROVE  n \in 1..n /\ \A j \in 1..(n - 1) : j \in 1..n /\ j # n
OBVIOUS

\* The concatenation of s and t has their elements at these positions.
JoinedAt(s, t) ==
    /\ \A k \in 1..Len(s) : (s \o t)[k] = s[k]
    /\ \A k \in 1..Len(t) : (s \o t)[Len(s) + k] = t[k]

\* The elements of a concatenation are those of its parts, in order.
LEMMA Joined == ASSUME NEW S, NEW s \in Seq(S), NEW t \in Seq(S) PROVE JoinedAt(s, t)
BY DEF JoinedAt

\* Arithmetic about the bucket constants that every proof below needs.
LEMMA BucketArithmetic ==
    /\ FullBucket \in Nat
    /\ TokenCost \in Nat /\ TokenCost > 0
    /\ RefillPerTick \in Nat
    /\ TotalCapacity \in Nat
    /\ TokenCost <= FullBucket
    /\ \A a, b \in Nat : a <= b => RefillPerTick * (b - a) \in Nat
    /\ \A a, b, c \in Int :
          RefillPerTick * (c - b) + RefillPerTick * (b - a) = RefillPerTick * (c - a)
<1>1. TokenCost \in Nat /\ TokenCost > 0 /\ RefillPerTick \in Nat
  BY BucketAssumption
<1>2. FullBucket \in Nat /\ TokenCost <= FullBucket
  BY BucketAssumption DEF FullBucket
<1>3. TotalCapacity \in Nat
  BY CapacityAssumption DEF TotalCapacity, QueueClass
<1>4. \A a, b \in Nat : a <= b => RefillPerTick * (b - a) \in Nat
  <2> SUFFICES ASSUME NEW a \in Nat, NEW b \in Nat, a <= b
               PROVE  RefillPerTick * (b - a) \in Nat
    BY Zenon
  <2>1. b - a \in Nat
    OBVIOUS
  <2> QED BY <1>1, <2>1
<1>5. \A a, b, c \in Int :
         RefillPerTick * (c - b) + RefillPerTick * (b - a) = RefillPerTick * (c - a)
  BY <1>1
<1> QED BY <1>1, <1>2, <1>3, <1>4, <1>5, Zenon

-----------------------------------------------------------------------------

\* A refill leaves the balance between its old value and the burst, and adds
\* at most the refill of the time that passed (TokenBucket::refill_to_now).
LEMMA RefillBounds ==
    ASSUME NEW b \in [exists : BOOLEAN, tokens : 0..FullBucket, last : Nat],
           NEW t \in Nat, b.last <= t
    PROVE  /\ Refilled(b, t) \in 0..FullBucket
           /\ b.exists => Refilled(b, t) <= b.tokens + RefillPerTick * (t - b.last)
<1>1. RefillPerTick * (t - b.last) \in Nat
  BY BucketArithmetic, Zenon
<1> DEFINE gain == RefillPerTick * (t - b.last)
<1>2. gain \in Nat
  BY <1>1, Zenon
<1> HIDE DEF gain
<1>3. Refilled(b, t) = IF b.exists THEN AtMost(FullBucket, b.tokens + gain) ELSE FullBucket
  BY Zenon DEF Refilled, gain
<1> QED BY <1>2, <1>3, BucketArithmetic DEF AtMost, gain

\* The clock never runs behind a bucket (Instant is monotonic), and a subject
\* without a bucket has been granted nothing.
ClockInv == \A s \in Subjects : /\ bucket[s].last <= clock
                                /\ ~bucket[s].exists => granted[s] = <<>>

\* One RateGate step, as the facts the invariants use.
LEMMA RateGateFacts ==
    ASSUME TypeOK, ClockInv,
           NEW t \in Tasks, NEW s \in Subjects, NEW c \in Classes, RateGate(t, s, c)
    PROVE  /\ Refilled(bucket[s], clock) \in 0..FullBucket
           /\ bucket[s].exists => Refilled(bucket[s], clock)
                    <= bucket[s].tokens + RefillPerTick * (clock - bucket[s].last)
           /\ bucket' = [bucket EXCEPT ![s] = bucket'[s]]
           /\ bucket'[s].exists /\ bucket'[s].last = clock
           /\ \/ /\ granted' = [granted EXCEPT ![s] = Append(granted[s], clock)]
                 /\ bucket'[s].tokens = Refilled(bucket[s], clock) - TokenCost
                 /\ bucket'[s].tokens \in 0..FullBucket
              \/ /\ granted' = granted
                 /\ bucket'[s].tokens = Refilled(bucket[s], clock)
<1>1. bucket[s] \in [exists : BOOLEAN, tokens : 0..FullBucket, last : Nat]
      /\ clock \in Nat /\ bucket[s].last <= clock
  BY Zenon DEF TypeOK, ClockInv
<1>2. /\ Refilled(bucket[s], clock) \in 0..FullBucket
      /\ bucket[s].exists => Refilled(bucket[s], clock)
                    <= bucket[s].tokens + RefillPerTick * (clock - bucket[s].last)
  BY <1>1, RefillBounds, Zenon
<1> DEFINE r == Refilled(bucket[s], clock)
<1> HIDE DEF r
<1>3. bucket' = [bucket EXCEPT ![s] = [exists |-> TRUE, last |-> clock,
                         tokens |-> IF r >= TokenCost THEN r - TokenCost ELSE r]]
  BY Zenon DEF RateGate, r
<1>4. bucket'[s] = [exists |-> TRUE, last |-> clock,
                         tokens |-> IF r >= TokenCost THEN r - TokenCost ELSE r]
  BY <1>3, Zenon DEF TypeOK
<1>5. granted' = IF r >= TokenCost THEN [granted EXCEPT ![s] = Append(granted[s], clock)]
                                   ELSE granted
  BY Zenon DEF RateGate, r
<1>6. r \in 0..FullBucket
  BY <1>2, Zenon DEF r
<1>7. bucket' = [bucket EXCEPT ![s] = bucket'[s]]
  BY <1>3, <1>4, Zenon
<1>8. bucket'[s].exists /\ bucket'[s].last = clock
  BY <1>4
<1>9. CASE r >= TokenCost
  <2>1. bucket'[s].tokens = r - TokenCost
    BY <1>4, <1>9
  <2>2. r - TokenCost \in 0..FullBucket
    BY <1>6, <1>9, BucketArithmetic
  <2> QED BY <1>2, <1>5, <1>7, <1>8, <1>9, <2>1, <2>2, Zenon DEF r
<1>10. CASE ~(r >= TokenCost)
  <2>1. bucket'[s].tokens = r
    BY <1>4, <1>10
  <2> QED BY <1>2, <1>5, <1>7, <1>8, <1>10, <2>1, Zenon DEF r
<1> QED BY <1>9, <1>10, Zenon

\* A task between the two critical sections of enroll() holds a context.
LEMMA HeldContext ==
    ASSUME TypeOK, NEW t \in Tasks, call[t].at = "queues"
    PROVE  call[t].ctx \in Context /\ call[t].ctx.class \in QueueClass
<1>1. call[t] \in {Idle} \cup [at : {"queues"}, ctx : Context]
  BY Zenon DEF TypeOK
<1>2. call[t] # Idle
  BY DEF Idle
<1>3. call[t] \in [at : {"queues"}, ctx : Context]
  BY <1>1, <1>2, Zenon
<1>4. call[t].ctx \in Context
  BY <1>3, Zenon
<1> QED BY <1>4, Zenon DEF Context

\* A new queue is well typed.
LEMMA InitTyped == Init => TypeOK /\ ClockInv
  BY BucketArithmetic DEF Init, TypeOK, ClockInv, NoBucket, Idle, QueueClass

\* Every step keeps the types and the clock bounds.
LEMMA NextTyped == TypeOK /\ ClockInv /\ [Next]_vars => TypeOK' /\ ClockInv'
<1> SUFFICES ASSUME TypeOK, ClockInv, [Next]_vars PROVE TypeOK' /\ ClockInv'
  BY Zenon
<1>1. ASSUME NEW t \in Tasks, NEW s \in Subjects, NEW c \in Classes, RateGate(t, s, c)
      PROVE  TypeOK' /\ ClockInv'
  <2>1. /\ clock' = clock /\ queues' = queues /\ enrolled' = enrolled /\ dequeued' = dequeued
        /\ attempts' = attempts + 1
    BY <1>1, Zenon DEF RateGate
  <2>2. bucket' \in [Subjects -> [exists : BOOLEAN, tokens : 0..FullBucket, last : Nat]]
    <3>1. bucket'[s] \in [exists : BOOLEAN, tokens : 0..FullBucket, last : Nat]
      <4>1. bucket'[s] = [exists |-> TRUE, last |-> clock, tokens |-> bucket'[s].tokens]
        BY <1>1, Zenon DEF RateGate, TypeOK
      <4>2. bucket'[s].tokens \in 0..FullBucket
        BY <1>1, RateGateFacts, Zenon
      <4>3. clock \in Nat
        BY Zenon DEF TypeOK
      <4>4. \A n \in 0..FullBucket, u \in Nat : [exists |-> TRUE, last |-> u, tokens |-> n]
                  \in [exists : BOOLEAN, tokens : 0..FullBucket, last : Nat]
        BY Zenon
      <4> QED BY <4>1, <4>2, <4>3, <4>4, Zenon
    <3> QED BY <1>1, <3>1, RateGateFacts, ZenonT(60) DEF TypeOK
  <2>3. granted' \in [Subjects -> Seq(Nat)]
    <3>1. granted \in [Subjects -> Seq(Nat)] /\ Append(granted[s], clock) \in Seq(Nat)
      BY DEF TypeOK
    <3>2. granted' = granted \/ granted' = [granted EXCEPT ![s] = Append(granted[s], clock)]
      BY <1>1, Zenon DEF RateGate
    <3> QED BY <3>1, <3>2, Zenon
  <2>4. call' \in [Tasks -> {Idle} \cup [at : {"queues"}, ctx : Context]]
    <3>1. [id |-> attempts', subject |-> s, class |-> c] \in Context
      BY <2>1, CapacityAssumption DEF Context, TypeOK
    <3> QED BY <1>1, <3>1, Zenon DEF RateGate, TypeOK
  <2>5. TypeOK'
    BY <2>1, <2>2, <2>3, <2>4 DEF TypeOK
  <2>6. ClockInv'
    <3> SUFFICES ASSUME NEW u \in Subjects
                 PROVE bucket'[u].last <= clock' /\ (~bucket'[u].exists => granted'[u] = <<>>)
      BY Zenon DEF ClockInv
    <3>1. CASE u = s
      BY <1>1, <2>1, <3>1, RateGateFacts DEF TypeOK
    <3>2. CASE u # s
      BY <1>1, <2>1, <3>2, RateGateFacts, Zenon DEF TypeOK, ClockInv
    <3> QED BY <3>1, <3>2, Zenon
  <2> QED BY <2>5, <2>6, Zenon
<1>2. ASSUME NEW t \in Tasks, Admit(t) PROVE TypeOK' /\ ClockInv'
  <2>1. call[t].ctx \in Context
    BY <1>2, HeldContext, Zenon DEF Admit
  <2>2. call[t].ctx.class \in QueueClass
    BY <1>2, HeldContext, Zenon DEF Admit
  <2> DEFINE ctx == call[t].ctx
  <2>3. /\ clock' = clock /\ bucket' = bucket /\ attempts' = attempts
        /\ granted' = granted /\ dequeued' = dequeued
        /\ call' = [call EXCEPT ![t] = Idle]
        /\ \/ /\ queues' = [queues EXCEPT ![ctx.class] = Append(queues[ctx.class], ctx)]
              /\ enrolled' = [enrolled EXCEPT ![ctx.class] = Append(enrolled[ctx.class], ctx)]
           \/ queues' = queues /\ enrolled' = enrolled
    BY <1>2, Zenon DEF Admit
  <2> HIDE DEF ctx
  <2>4. queues' \in [QueueClass -> Seq(Context)] /\ enrolled' \in [QueueClass -> Seq(Context)]
    <3>1. /\ queues \in [QueueClass -> Seq(Context)]
          /\ enrolled \in [QueueClass -> Seq(Context)]
          /\ ctx \in Context /\ ctx.class \in QueueClass
      BY <2>1, <2>2, Zenon DEF TypeOK, ctx
    <3>2. /\ Append(queues[ctx.class], ctx) \in Seq(Context)
          /\ Append(enrolled[ctx.class], ctx) \in Seq(Context)
      BY <3>1
    <3> QED BY <2>3, <3>1, <3>2, Zenon
  <2>5. call' \in [Tasks -> {Idle} \cup [at : {"queues"}, ctx : Context]]
    BY <2>3, Zenon DEF TypeOK
  <2> QED BY <2>3, <2>4, <2>5, Zenon DEF TypeOK, ClockInv
<1>3. ASSUME NEW c \in QueueClass, Dequeue(c) PROVE TypeOK' /\ ClockInv'
  <2>1. queues[c] \in Seq(Context) /\ queues[c] # <<>>
    BY <1>3, Zenon DEF Dequeue, TypeOK
  <2>2. Tail(queues[c]) \in Seq(Context) /\ Head(queues[c]) \in Context
    BY <2>1
  <2> QED BY <1>3, <2>1, <2>2 DEF Dequeue, TypeOK, ClockInv
<1>4. ASSUME Tick PROVE TypeOK' /\ ClockInv'
  BY <1>4 DEF Tick, TypeOK, ClockInv
<1>5. ASSUME UNCHANGED vars PROVE TypeOK' /\ ClockInv'
  BY <1>5, Zenon DEF vars, TypeOK, ClockInv
<1> QED BY <1>1, <1>2, <1>3, <1>4, <1>5, Zenon DEF Next

\* The dispatch queue keeps its types for all values of the constants.
THEOREM TypeCorrect == Spec => []TypeOK
<1>1. Spec => [](TypeOK /\ ClockInv)
  BY InitTyped, NextTyped, PTL DEF Spec
<1> QED BY <1>1, PTL

-----------------------------------------------------------------------------
(* Capacities and order *)

\* Every step keeps capacities, the cap and FIFO order.
LEMMA NextQueue == TypeOK /\ QueueSound /\ [Next]_vars => QueueSound'
<1> SUFFICES ASSUME TypeOK, QueueSound, [Next]_vars PROVE QueueSound'
  BY Zenon
<1> USE DEF QueueSound
<1>1. ASSUME NEW t \in Tasks, Admit(t) PROVE QueueSound'
  <2> DEFINE ctx == call[t].ctx
             k == ctx.class
  <2>1. ctx \in Context /\ k \in QueueClass
    BY <1>1, HeldContext, Zenon DEF Admit
  <2>2. CASE /\ HasRoom(k)
             /\ queues' = [queues EXCEPT ![k] = Append(queues[k], ctx)]
             /\ enrolled' = [enrolled EXCEPT ![k] = Append(enrolled[k], ctx)]
             /\ dequeued' = dequeued
    <3> HIDE DEF ctx, k
    <3>1. /\ queues \in [QueueClass -> Seq(Context)]
          /\ dequeued \in [QueueClass -> Seq(Context)]
          /\ enrolled \in [QueueClass -> Seq(Context)]
      BY Zenon DEF TypeOK
    <3>2. Len(queues'[k]) = Len(queues[k]) + 1 /\ Len(queues[k]) \in Nat
      BY <2>1, <2>2, <3>1
    <3>3. ClassCapacity'
      BY <2>1, <2>2, <3>1, <3>2, CapacityAssumption, Zenon DEF ClassCapacity, HasRoom
    <3>4. AgentProposalCap'
      <4>1. CASE k = "AgentProposal"
        BY <2>1, <2>2, <3>1, <3>2, <4>1, Zenon DEF AgentProposalCap, HasRoom
      <4>2. CASE k # "AgentProposal"
        BY <2>1, <2>2, <3>1, <4>2, Zenon DEF AgentProposalCap, QueueClass
      <4> QED BY <4>1, <4>2, Zenon
    <3>5. FifoConservation'
      <4> SUFFICES ASSUME NEW c \in QueueClass
                   PROVE  enrolled'[c] = dequeued'[c] \o queues'[c]
        BY Zenon DEF FifoConservation
      <4>1. CASE c = k
        <5>1. \A a, b \in Seq(Context), x \in Context : Append(a \o b, x) = a \o Append(b, x)
          OBVIOUS
        <5>2. /\ enrolled'[k] = Append(enrolled[k], ctx)
              /\ queues'[k] = Append(queues[k], ctx)
              /\ dequeued'[k] = dequeued[k]
          BY <2>1, <2>2, <3>1, Zenon
        <5>3. enrolled[k] = dequeued[k] \o queues[k]
          BY <2>1, Zenon DEF FifoConservation
        <5>4. dequeued[k] \in Seq(Context) /\ queues[k] \in Seq(Context)
          BY <2>1, <3>1, Zenon
        <5> QED BY <2>1, <4>1, <5>1, <5>2, <5>3, <5>4, Zenon
      <4>2. CASE c # k
        BY <2>2, <3>1, <4>2, Zenon DEF FifoConservation
      <4> QED BY <4>1, <4>2, Zenon
    <3> QED BY <3>3, <3>4, <3>5, Zenon
  <2>3. CASE UNCHANGED <<queues, enrolled, dequeued>>
    BY <2>3, Zenon DEF ClassCapacity, AgentProposalCap, FifoConservation
  <2> QED BY <1>1, <2>2, <2>3, Zenon DEF Admit
<1>2. ASSUME NEW k \in QueueClass, Dequeue(k) PROVE QueueSound'
  <2>1. /\ queues \in [QueueClass -> Seq(Context)]
        /\ dequeued \in [QueueClass -> Seq(Context)]
        /\ queues[k] # <<>>
        /\ queues' = [queues EXCEPT ![k] = Tail(queues[k])]
        /\ dequeued' = [dequeued EXCEPT ![k] = Append(dequeued[k], Head(queues[k]))]
        /\ enrolled' = enrolled
    BY <1>2, Zenon DEF Dequeue, TypeOK
  <2>2. /\ Len(queues'[k]) = Len(queues[k]) - 1
        /\ Len(queues[k]) \in Nat
        /\ dequeued'[k] \o queues'[k] = dequeued[k] \o queues[k]
    BY <2>1
  <2>3. \A c \in QueueClass : c # k => queues'[c] = queues[c] /\ dequeued'[c] = dequeued[c]
    BY <2>1, Zenon
  <2>4. ClassCapacity'
    <3> SUFFICES ASSUME NEW c \in QueueClass PROVE Len(queues'[c]) <= Capacity[c]
      BY Zenon DEF ClassCapacity
    <3>1. Len(queues[c]) <= Capacity[c] /\ Capacity[c] \in Nat
      BY CapacityAssumption, Zenon DEF ClassCapacity
    <3> QED BY <2>2, <2>3, <3>1
  <2>5. AgentProposalCap'
    <3>1. "AgentProposal" \in QueueClass
      BY Zenon DEF QueueClass
    <3>2. CASE k = "AgentProposal"
      BY <2>2, <3>2, BucketArithmetic DEF AgentProposalCap
    <3>3. CASE k # "AgentProposal"
      BY <2>3, <3>1, <3>3, Zenon DEF AgentProposalCap
    <3> QED BY <3>2, <3>3, Zenon
  <2>6. FifoConservation'
    BY <2>1, <2>2, <2>3, Zenon DEF FifoConservation
  <2> QED BY <2>4, <2>5, <2>6, Zenon
<1>3. ASSUME UNCHANGED <<queues, enrolled, dequeued>> PROVE QueueSound'
  BY <1>3, Zenon DEF ClassCapacity, AgentProposalCap, FifoConservation
<1>4. ASSUME NEW t \in Tasks, NEW s \in Subjects, NEW c \in Classes, RateGate(t, s, c)
      PROVE  UNCHANGED <<queues, enrolled, dequeued>>
  BY <1>4, Zenon DEF RateGate
<1>5. ASSUME Tick \/ UNCHANGED vars PROVE UNCHANGED <<queues, enrolled, dequeued>>
  BY <1>5, Zenon DEF Tick, vars
<1> QED BY <1>1, <1>2, <1>3, <1>4, <1>5, Zenon DEF Next

\* No interleaving of enroll() and dequeue() overfills a class, breaks the
\* 50 % AGENT_PROPOSAL cap, or loses, duplicates or reorders a context.
THEOREM QueueSafe == Spec => []QueueSound
<1>1. Init => QueueSound
  BY CapacityAssumption, BucketArithmetic
  DEF Init, QueueSound, ClassCapacity, AgentProposalCap, FifoConservation, QueueClass
<1>2. Spec => [](TypeOK /\ ClockInv /\ QueueSound)
  BY <1>1, InitTyped, NextTyped, NextQueue, PTL DEF Spec
<1> QED BY <1>2, PTL

-----------------------------------------------------------------------------
(* The rate limit *)

\* n tokens cost one more than n - 1 tokens: the only fact about the product
\* that the proofs use.
LEMMA CostStep ==
    ASSUME NEW n \in Int
    PROVE  /\ n * TokenCost \in Int
           /\ (n + 1) * TokenCost = n * TokenCost + TokenCost
  BY BucketAssumption

\* What the balance of subject s says about the window that starts at grant i
\* (room) and about some window (tight).
Spent(s, i) == (Len(granted[s]) - i + 1) * TokenCost
Room(s, i) == Spent(s, i) + bucket[s].tokens
                 <= FullBucket + RefillPerTick * (bucket[s].last - granted[s][i])
Tight(s, i) == Spent(s, i) + bucket[s].tokens
                 >= FullBucket + RefillPerTick * (bucket[s].last - granted[s][i])

\* The strengthening of RateEnvelope: the balance is exactly what the tightest
\* window leaves.
RateInv ==
    \A s \in Subjects :
        /\ \A i \in DOMAIN granted[s] : granted[s][i] <= bucket[s].last /\ Room(s, i)
        /\ bucket[s].exists => \E i \in DOMAIN granted[s] : Tight(s, i)

\* A window that holds at the last refill still holds after the refill of the
\* elapsed time.
LEMMA WindowRoom ==
    ASSUME NEW sp \in Int, NEW tok \in Int, NEW r \in Int,
           NEW gi \in Int, NEW last \in Int, NEW t \in Int,
           sp + tok <= FullBucket + RefillPerTick * (last - gi),
           r <= tok + RefillPerTick * (t - last)
    PROVE  sp + r <= FullBucket + RefillPerTick * (t - gi)
<1> DEFINE a == RefillPerTick * (last - gi)
           b == RefillPerTick * (t - last)
           e == RefillPerTick * (t - gi)
<1>1. \A x \in Int : RefillPerTick * x \in Int
  BY BucketAssumption
<1>2. a \in Int /\ b \in Int /\ e \in Int
  BY <1>1
<1>3. b + a = e
  BY BucketArithmetic, Zenon
<1>4. FullBucket \in Int
  BY BucketArithmetic
<1>5. sp + tok <= FullBucket + a /\ r <= tok + b
  BY Zenon
<1> HIDE DEF a, b, e
<1>6. sp + r <= FullBucket + e
  BY <1>2, <1>3, <1>4, <1>5
<1> QED BY <1>6, Zenon DEF e

\* A window that is tight stays tight when the refill was not capped.
LEMMA WindowTight ==
    ASSUME NEW sp \in Int, NEW tok \in Int, NEW r \in Int,
           NEW gi \in Int, NEW last \in Int, NEW t \in Int,
           sp + tok >= FullBucket + RefillPerTick * (last - gi),
           r >= tok + RefillPerTick * (t - last)
    PROVE  sp + r >= FullBucket + RefillPerTick * (t - gi)
<1> DEFINE a == RefillPerTick * (last - gi)
           b == RefillPerTick * (t - last)
           e == RefillPerTick * (t - gi)
<1>1. \A x \in Int : RefillPerTick * x \in Int
  BY BucketAssumption
<1>2. a \in Int /\ b \in Int /\ e \in Int
  BY <1>1
<1>3. b + a = e
  BY BucketArithmetic, Zenon
<1>4. FullBucket \in Int
  BY BucketArithmetic
<1>5. sp + tok >= FullBucket + a /\ r >= tok + b
  BY Zenon
<1> HIDE DEF a, b, e
<1>6. sp + r >= FullBucket + e
  BY <1>2, <1>3, <1>4, <1>5
<1> QED BY <1>6, Zenon DEF e

\* A successful consume extends every window by one token.
LEMMA GrantStep ==
    ASSUME TypeOK, ClockInv, RateInv, RateEnvelope,
           NEW t \in Tasks, NEW s \in Subjects, NEW c \in Classes, RateGate(t, s, c),
           granted' = [granted EXCEPT ![s] = Append(granted[s], clock)],
           bucket'[s].tokens = Refilled(bucket[s], clock) - TokenCost
    PROVE  /\ \A i \in DOMAIN granted'[s] : granted'[s][i] <= clock /\ Room(s, i)'
           /\ \E i \in DOMAIN granted'[s] : Tight(s, i)'
<1> DEFINE g == granted[s]
           r == Refilled(bucket[s], clock)
<1>0. PICK n \in Nat : n = Len(g)
  <2>1. g \in Seq(Nat)
    BY Zenon DEF TypeOK
  <2> QED BY <2>1
<1>1. /\ g \in Seq(Nat) /\ n \in Nat /\ clock \in Nat
      /\ granted'[s] = Append(g, clock) /\ Len(granted'[s]) = n + 1
      /\ DOMAIN granted'[s] = 1..(n + 1) /\ DOMAIN g = 1..n
      /\ granted'[s][n + 1] = clock
      /\ \A i \in 1..n : granted'[s][i] = g[i] /\ g[i] \in Nat
  BY <1>0 DEF TypeOK
<1>2. /\ bucket[s].tokens \in Nat /\ bucket[s].last \in Nat /\ bucket[s].last <= clock
      /\ bucket[s].exists \in BOOLEAN
  BY DEF TypeOK, ClockInv
<1>3. /\ r \in Nat /\ r <= FullBucket
      /\ bucket[s].exists => r <= bucket[s].tokens + RefillPerTick * (clock - bucket[s].last)
      /\ bucket'[s].last = clock
  <2>1. FullBucket \in Nat /\ r \in 0..FullBucket
    BY RateGateFacts, BucketArithmetic, Zenon
  <2>2. r \in Nat /\ r <= FullBucket
    BY <2>1
  <2> QED BY <2>2, RateGateFacts, Zenon
<1>4. r = FullBucket \/ (bucket[s].exists /\ r = bucket[s].tokens
                                            + RefillPerTick * (clock - bucket[s].last))
  BY Zenon DEF Refilled, AtMost
<1>5. ~bucket[s].exists => n = 0
  BY <1>0 DEF ClockInv
<1>6. bucket'[s].tokens = r - TokenCost
  BY Zenon
<1> HIDE DEF r, g
<1>7. Spent(s, n + 1)' = TokenCost
  <2>1. Len(granted'[s]) - (n + 1) + 1 = 1
    BY <1>1
  <2>2. Spent(s, n + 1)' = 1 * TokenCost
    BY <2>1, Zenon DEF Spent
  <2> QED BY <2>2, BucketArithmetic
<1>8. \A i \in 1..n : /\ Spent(s, i) \in Int
                      /\ Spent(s, i)' = Spent(s, i) + TokenCost
  <2> SUFFICES ASSUME NEW i \in 1..n
               PROVE  Spent(s, i) \in Int /\ Spent(s, i)' = Spent(s, i) + TokenCost
    BY Zenon
  <2>1. n - i + 1 \in Int /\ (n + 1) - i + 1 = (n - i + 1) + 1
    BY <1>1
  <2>2. Spent(s, i) = (n - i + 1) * TokenCost
    BY <1>0, Zenon DEF Spent, g
  <2>3. Spent(s, i)' = ((n + 1) - i + 1) * TokenCost
    BY <1>1, Zenon DEF Spent
  <2> QED BY <2>1, <2>2, <2>3, CostStep, Zenon
<1>9. Room(s, n + 1)'
  <2>1. RefillPerTick * (clock - clock) = 0
    BY <1>1, BucketArithmetic
  <2> QED BY <1>1, <1>3, <1>6, <1>7, <2>1, BucketArithmetic DEF Room
<1>10. ASSUME NEW i \in 1..n
       PROVE  /\ Room(s, i)'
              /\ Tight(s, i) /\ r = bucket[s].tokens + RefillPerTick * (clock - bucket[s].last)
                   => Tight(s, i)'
  <2>1. granted[s][i] \in Int /\ granted'[s][i] = granted[s][i]
    BY <1>1 DEF g
  <2>2. bucket[s].tokens \in Int /\ bucket[s].last \in Int /\ clock \in Int /\ r \in Int
    BY <1>1, <1>2, <1>3
  <2>3. Room(s, i) /\ bucket[s].exists
    BY <1>1, <1>5, <1>2 DEF RateInv, g
  <2>4. Spent(s, i) \in Int /\ Spent(s, i)' = Spent(s, i) + TokenCost
    BY <1>8, Zenon
  <2>5. r <= bucket[s].tokens + RefillPerTick * (clock - bucket[s].last)
    BY <1>3, <2>3, Zenon
  <2>6. Room(s, i)'
    <3>0. Spent(s, i) + bucket[s].tokens
             <= FullBucket + RefillPerTick * (bucket[s].last - granted[s][i])
      BY <2>3, Zenon DEF Room
    <3>1. Spent(s, i) + r <= FullBucket + RefillPerTick * (clock - granted[s][i])
      BY <2>1, <2>2, <2>4, <2>5, <3>0, WindowRoom, Zenon
    <3>2. Spent(s, i)' + bucket'[s].tokens = Spent(s, i) + r
      BY <1>6, <2>2, <2>4, BucketArithmetic
    <3> QED BY <1>3, <2>1, <3>1, <3>2, Zenon DEF Room
  <2>7. ASSUME Tight(s, i), r = bucket[s].tokens + RefillPerTick * (clock - bucket[s].last)
        PROVE  Tight(s, i)'
    <3>0. Spent(s, i) + bucket[s].tokens
             >= FullBucket + RefillPerTick * (bucket[s].last - granted[s][i])
      BY <2>7, Zenon DEF Tight
    <3>1. Spent(s, i) + r >= FullBucket + RefillPerTick * (clock - granted[s][i])
      <4>1. \A x \in Int : x >= x
        OBVIOUS
      <4>2. r >= bucket[s].tokens + RefillPerTick * (clock - bucket[s].last)
        BY <2>2, <2>7, <4>1, Zenon
      <4> QED BY <2>1, <2>2, <2>4, <3>0, <4>2, WindowTight, Zenon
    <3>2. Spent(s, i)' + bucket'[s].tokens = Spent(s, i) + r
      BY <1>6, <2>2, <2>4, BucketArithmetic
    <3> QED BY <1>3, <2>1, <3>1, <3>2, Zenon DEF Tight
  <2> QED BY <2>6, <2>7, Zenon
<1>11. \A i \in 1..(n + 1) : granted'[s][i] <= clock
  <2> SUFFICES ASSUME NEW i \in 1..(n + 1) PROVE granted'[s][i] <= clock
    BY Zenon
  <2>1. CASE i = n + 1
    BY <1>1, <2>1
  <2>2. CASE i \in 1..n
    <3>1. granted[s][i] <= bucket[s].last
      BY <1>1, <2>2, Zenon DEF RateInv, g
    <3> QED BY <1>1, <1>2, <2>2, <3>1 DEF g
  <2> QED BY <1>1, <2>1, <2>2
<1>12. \E i \in 1..(n + 1) : Tight(s, i)'
  <2>1. CASE r = FullBucket
    <3>1. RefillPerTick * (clock - clock) = 0
      BY <1>1, BucketArithmetic
    <3>2. Tight(s, n + 1)'
      BY <1>1, <1>3, <1>6, <1>7, <2>1, <3>1, BucketArithmetic DEF Tight
    <3> QED BY <1>1, <3>2
  <2>2. CASE bucket[s].exists /\ r = bucket[s].tokens + RefillPerTick * (clock - bucket[s].last)
    <3>1. PICK i \in 1..n : Tight(s, i)
      BY <1>1, <2>2, Zenon DEF RateInv, g
    <3> QED BY <1>1, <1>10, <2>2, <3>1
  <2> QED BY <1>4, <2>1, <2>2, Zenon DEF r
<1>13. \A i \in 1..(n + 1) : Room(s, i)'
  <2> SUFFICES ASSUME NEW i \in 1..(n + 1) PROVE Room(s, i)'
    BY Zenon
  <2> QED BY <1>1, <1>9, <1>10
<1> QED BY <1>1, <1>11, <1>12, <1>13, Zenon

\* A refused consume refills and keeps every window as it was.
LEMMA RefusalStep ==
    ASSUME TypeOK, ClockInv, RateInv,
           NEW t \in Tasks, NEW s \in Subjects, NEW c \in Classes, RateGate(t, s, c),
           granted' = granted
    PROVE  /\ bucket[s].exists
           /\ \A i \in DOMAIN granted[s] : granted[s][i] <= clock /\ Room(s, i)'
           /\ \E i \in DOMAIN granted[s] : /\ Tight(s, i)'
                                           /\ ~WindowFits(s, i, clock, Len(granted[s]) - i + 2)
<1> DEFINE r == Refilled(bucket[s], clock)
<1>1. /\ granted[s] \in Seq(Nat) /\ Len(granted[s]) \in Nat /\ clock \in Nat
      /\ DOMAIN granted[s] = 1..Len(granted[s])
      /\ \A i \in DOMAIN granted[s] : granted[s][i] \in Nat
  BY DEF TypeOK
<1>2. /\ bucket[s].tokens \in Nat /\ bucket[s].last \in Nat /\ bucket[s].last <= clock
  BY DEF TypeOK, ClockInv
<1>3. r < TokenCost /\ bucket'[s].tokens = r
  <2>1. granted # [granted EXCEPT ![s] = Append(granted[s], clock)]
    <3>1. Len(Append(granted[s], clock)) # Len(granted[s])
      BY <1>1
    <3> QED BY <3>1, Zenon DEF TypeOK
  <2>2. ~(r >= TokenCost)
    BY <2>1, Zenon DEF RateGate
  <2>3. r \in Int /\ TokenCost \in Int
    BY RateGateFacts, BucketArithmetic
  <2>4. bucket'[s].tokens = r
    BY <2>1, RateGateFacts, Zenon
  <2> QED BY <2>2, <2>3, <2>4
<1>4. r \in 0..FullBucket /\ r \in Int /\ bucket'[s].last = clock
  BY RateGateFacts
<1>5. bucket[s].exists /\ r = bucket[s].tokens + RefillPerTick * (clock - bucket[s].last)
  <2>1. r # FullBucket
    BY <1>3, <1>4, BucketArithmetic
  <2> QED BY <2>1, Zenon DEF Refilled, AtMost
<1> HIDE DEF r
<1>6. ASSUME NEW i \in DOMAIN granted[s]
      PROVE  /\ Spent(s, i) \in Int /\ Spent(s, i)' = Spent(s, i)
             /\ Room(s, i)' /\ granted[s][i] <= clock
             /\ Tight(s, i) => /\ Tight(s, i)'
                               /\ ~WindowFits(s, i, clock, Len(granted[s]) - i + 2)
  <2>1. Len(granted[s]) - i + 1 \in Int
    BY <1>1
  <2>2. Spent(s, i) \in Int /\ Spent(s, i)' = Spent(s, i)
    BY <2>1, CostStep, Zenon DEF Spent
  <2>3. /\ granted[s][i] \in Int /\ granted[s][i] <= bucket[s].last
        /\ bucket[s].tokens \in Int /\ bucket[s].last \in Int /\ clock \in Int /\ r \in Int
    BY <1>1, <1>2, <1>4 DEF RateInv
  <2>4. r <= bucket[s].tokens + RefillPerTick * (clock - bucket[s].last)
    <3>1. \A x \in Int : x <= x
      OBVIOUS
    <3> QED BY <1>4, <1>5, <3>1, Zenon
  <2>5. Room(s, i)'
    <3>1. Spent(s, i) + bucket[s].tokens
             <= FullBucket + RefillPerTick * (bucket[s].last - granted[s][i])
      BY Zenon DEF RateInv, Room
    <3>2. Spent(s, i) + r <= FullBucket + RefillPerTick * (clock - granted[s][i])
      BY <2>2, <2>3, <2>4, <3>1, WindowRoom, Zenon
    <3> QED BY <1>3, <1>4, <2>2, <3>2, Zenon DEF Room
  <2>6. ASSUME Tight(s, i)
        PROVE  Tight(s, i)' /\ ~WindowFits(s, i, clock, Len(granted[s]) - i + 2)
    <3>1. Spent(s, i) + bucket[s].tokens
             >= FullBucket + RefillPerTick * (bucket[s].last - granted[s][i])
      BY <2>6, Zenon DEF Tight
    <3>2. Spent(s, i) + r >= FullBucket + RefillPerTick * (clock - granted[s][i])
      <4>1. \A x \in Int : x >= x
        OBVIOUS
      <4>2. r >= bucket[s].tokens + RefillPerTick * (clock - bucket[s].last)
        BY <1>4, <1>5, <4>1, Zenon
      <4> QED BY <2>2, <2>3, <3>1, <4>2, WindowTight, Zenon
    <3>3. Tight(s, i)'
      BY <1>3, <1>4, <2>2, <3>2, Zenon DEF Tight
    <3>4. (Len(granted[s]) - i + 2) * TokenCost = Spent(s, i) + TokenCost
      <4>1. Len(granted[s]) - i + 2 = (Len(granted[s]) - i + 1) + 1
        BY <1>1
      <4> QED BY <2>1, <4>1, CostStep, Zenon DEF Spent
    <3>5. RefillPerTick * (clock - granted[s][i]) \in Int
      <4>1. clock - granted[s][i] \in Int
        BY <2>3
      <4>2. \A x \in Int : RefillPerTick * x \in Int
        BY BucketAssumption
      <4> QED BY <4>1, <4>2, Zenon
    <3> DEFINE e == RefillPerTick * (clock - granted[s][i])
    <3> HIDE DEF e
    <3>6. /\ Spent(s, i) \in Int /\ r \in Int /\ e \in Int
          /\ FullBucket \in Int /\ TokenCost \in Int
          /\ Spent(s, i) + r >= FullBucket + e /\ r < TokenCost
      BY <1>3, <2>2, <2>3, <3>2, <3>5, BucketArithmetic DEF e
    <3>7. ~(Spent(s, i) + TokenCost <= FullBucket + e)
      BY <3>6
    <3> QED BY <3>3, <3>4, <3>7, Zenon DEF WindowFits, e
  <2>7. granted[s][i] <= clock
    BY <1>2, <2>3
  <2> QED BY <2>2, <2>5, <2>6, <2>7, Zenon
<1>7. PICK i \in DOMAIN granted[s] : Tight(s, i)
  BY <1>5, Zenon DEF RateInv
<1> QED BY <1>5, <1>6, <1>7, Zenon

\* Every step keeps the relation between tokens and past grants.
LEMMA NextRate ==
    TypeOK /\ ClockInv /\ RateInv /\ RateEnvelope /\ [Next]_vars => RateInv' /\ RateEnvelope'
<1> SUFFICES ASSUME TypeOK, ClockInv, RateInv, RateEnvelope, [Next]_vars
             PROVE  RateInv' /\ RateEnvelope'
  BY Zenon
<1>1. ASSUME UNCHANGED <<bucket, granted>> PROVE RateInv' /\ RateEnvelope'
  BY <1>1, Zenon DEF RateInv, RateEnvelope, Room, Tight, Spent, WindowFits
<1>2. ASSUME NEW t \in Tasks, NEW s \in Subjects, NEW c \in Classes, RateGate(t, s, c)
      PROVE  RateInv' /\ RateEnvelope'
  <2>1. \A u \in Subjects : u # s => bucket'[u] = bucket[u] /\ granted'[u] = granted[u]
    BY <1>2, RateGateFacts, SMTT(30) DEF TypeOK
  <2>2. bucket'[s].last = clock /\ granted \in [Subjects -> Seq(Nat)] /\ clock \in Nat
    BY <1>2, RateGateFacts, Zenon DEF TypeOK
  <2>3. \A u \in Subjects : u # s =>
           /\ \A i \in DOMAIN granted'[u] : granted'[u][i] <= bucket'[u].last /\ Room(u, i)'
           /\ bucket'[u].exists => \E i \in DOMAIN granted'[u] : Tight(u, i)'
           /\ \A i, j \in DOMAIN granted'[u] :
                 i <= j => WindowFits(u, i, granted[u][j], j - i + 1)'
    <3> SUFFICES ASSUME NEW u \in Subjects, u # s
        PROVE /\ \A i \in DOMAIN granted'[u] : granted'[u][i] <= bucket'[u].last /\ Room(u, i)'
              /\ bucket'[u].exists => \E i \in DOMAIN granted'[u] : Tight(u, i)'
              /\ \A i, j \in DOMAIN granted'[u] :
                    i <= j => WindowFits(u, i, granted[u][j], j - i + 1)'
      BY Zenon
    <3>1. bucket'[u] = bucket[u] /\ granted'[u] = granted[u]
      BY <2>1, Zenon
    <3> QED BY <3>1, Zenon DEF RateInv, RateEnvelope, Room, Tight, Spent, WindowFits
  <2>4. CASE granted' = granted
    <3>1. \A i \in DOMAIN granted'[s] : granted'[s][i] <= bucket'[s].last /\ Room(s, i)'
      BY <1>2, <2>2, <2>4, RefusalStep, Zenon
    <3>2. \E i \in DOMAIN granted'[s] : Tight(s, i)'
      BY <1>2, <2>4, RefusalStep, Zenon
    <3>3. RateEnvelope'
      BY <2>4, Zenon DEF RateEnvelope, WindowFits
    <3>4. RateInv'
      BY <2>3, <3>1, <3>2, Zenon DEF RateInv
    <3> QED BY <3>3, <3>4, Zenon
  <2>5. CASE /\ granted' = [granted EXCEPT ![s] = Append(granted[s], clock)]
             /\ bucket'[s].tokens = Refilled(bucket[s], clock) - TokenCost
             /\ bucket'[s].tokens \in 0..FullBucket
    <3>1. /\ \A i \in DOMAIN granted'[s] : granted'[s][i] <= bucket'[s].last /\ Room(s, i)'
          /\ \E i \in DOMAIN granted'[s] : Tight(s, i)'
      BY <1>2, <2>2, <2>5, GrantStep, Zenon
    <3>2. RateInv'
      BY <2>3, <3>1, Zenon DEF RateInv
    <3>3. PICK n \in Nat : n = Len(granted[s])
      BY <2>2
    <3>4. /\ granted'[s] = Append(granted[s], clock)
          /\ DOMAIN granted[s] = 1..n /\ DOMAIN granted'[s] = 1..(n + 1)
          /\ Len(granted'[s]) = n + 1 /\ granted'[s][n + 1] = clock
          /\ \A i \in 1..n : granted'[s][i] = granted[s][i] /\ granted[s][i] \in Nat
      BY <2>2, <2>5, <3>3
    <3>5. ASSUME NEW i \in 1..(n + 1), NEW j \in 1..(n + 1), i <= j
          PROVE  (j - i + 1) * TokenCost
                    <= FullBucket + RefillPerTick * (granted'[s][j] - granted'[s][i])
      <4>1. CASE j = n + 1
        <5> DEFINE e == RefillPerTick * (clock - granted'[s][i])
        <5>1. Spent(s, i)' = (j - i + 1) * TokenCost
          BY <3>4, <4>1, Zenon DEF Spent
        <5>2. Spent(s, i)' + bucket'[s].tokens <= FullBucket + e
          BY <2>2, <3>1, <3>4, Zenon DEF Room
        <5>3. granted'[s][i] \in Int /\ clock - granted'[s][i] \in Int
          BY <2>2, <3>4
        <5>4. e \in Int
          BY <5>3, BucketAssumption
        <5>5. Spent(s, i)' \in Int
          <6>1. j - i + 1 \in Int
            BY <4>1
          <6> QED BY <5>1, <6>1, CostStep, Zenon
        <5>6. bucket'[s].tokens \in Nat /\ FullBucket \in Int
          BY <2>5, BucketArithmetic
        <5> HIDE DEF e
        <5>7. Spent(s, i)' <= FullBucket + e
          BY <5>2, <5>4, <5>5, <5>6
        <5> QED BY <3>4, <4>1, <5>1, <5>7, Zenon DEF e
      <4>2. CASE j \in 1..n
        <5>1. i \in 1..n
          BY <3>5, <4>2
        <5> QED BY <3>4, <3>5, <4>2, <5>1, Zenon DEF RateEnvelope, WindowFits
      <4> QED BY <4>1, <4>2
    <3>6. RateEnvelope'
      <4> SUFFICES ASSUME NEW u \in Subjects, NEW i \in DOMAIN granted'[u],
                          NEW j \in DOMAIN granted'[u], i <= j
                   PROVE  (j - i + 1) * TokenCost
                            <= FullBucket + RefillPerTick * (granted'[u][j] - granted'[u][i])
        BY Zenon DEF RateEnvelope, WindowFits
      <4>1. CASE u = s
        BY <3>4, <3>5, <4>1, Zenon
      <4>2. CASE u # s
        BY <2>3, <2>1, <4>2, Zenon DEF WindowFits
      <4> QED BY <4>1, <4>2, Zenon
    <3> QED BY <3>2, <3>6, Zenon
  <2> QED BY <1>2, <2>4, <2>5, RateGateFacts, Zenon
<1>3. ASSUME NEW t \in Tasks, Admit(t) PROVE UNCHANGED <<bucket, granted>>
  BY <1>3, Zenon DEF Admit
<1>4. ASSUME NEW c \in QueueClass, Dequeue(c) PROVE UNCHANGED <<bucket, granted>>
  BY <1>4, Zenon DEF Dequeue
<1>5. ASSUME Tick \/ UNCHANGED vars PROVE UNCHANGED <<bucket, granted>>
  BY <1>5, Zenon DEF Tick, vars
<1> QED BY <1>1, <1>2, <1>3, <1>4, <1>5, Zenon DEF Next

\* The rate invariant always holds.
LEMMA RateAlways == Spec => [](TypeOK /\ ClockInv /\ RateInv /\ RateEnvelope)
<1>1. Init => RateInv /\ RateEnvelope
  BY DEF Init, RateInv, RateEnvelope, NoBucket
<1> QED BY <1>1, InitTyped, NextTyped, NextRate, PTL DEF Spec

\* The token bucket admits no more than one burst plus the refill over any
\* window, for every burst, cost and refill rate and any number of tasks.
THEOREM RateSafe == Spec => []RateEnvelope
  BY RateAlways, PTL

\* The token bucket refuses only what the envelope forbids.
THEOREM RefusalsJustified == Spec => RefusalJustified
<1>1. TypeOK /\ ClockInv /\ RateInv /\ [Next]_vars
        => [\A t \in Tasks, s \in Subjects, c \in Classes :
              RateGate(t, s, c) /\ granted' = granted
                => \E i \in DOMAIN granted[s] :
                      ~WindowFits(s, i, clock, Len(granted[s]) - i + 2)]_vars
  BY RefusalStep, Zenon
<1> QED BY <1>1, RateAlways, PTL DEF Spec, RefusalJustified

--------------------------------------------------------------------------------
(* The recovery boundary and its clients.                                       *)

\* What concatenation returns (record_stage) and what a part of a stack holds (drain).
LEMMA ConcatProperties ==
    ASSUME NEW S, NEW s \in Seq(S), NEW t \in Seq(S)
    PROVE  s \o t \in Seq(S) /\ Len(s \o t) = Len(s) + Len(t)
OBVIOUS

\* A part of a sequence has the elements between its bounds (drain).
LEMMA SubSeqProperties ==
    ASSUME NEW S, NEW s \in Seq(S), NEW m \in 1..Len(s), NEW n \in m..Len(s)
    PROVE  /\ SubSeq(s, m, n) \in Seq(S) /\ Len(SubSeq(s, m, n)) = n - m + 1
           /\ \A i \in 1..(n - m + 1) : SubSeq(s, m, n)[i] = s[m + i - 1]
<1>1. SubSeq(s, m, n) \in Seq(S)
  OBVIOUS
<1>2. Len(SubSeq(s, m, n)) = n - m + 1
  OBVIOUS
<1>3. \A i \in 1..(n - m + 1) : SubSeq(s, m, n)[i] = s[m + i - 1]
  OBVIOUS
<1> QED BY <1>1, <1>2, <1>3, Zenon

--------------------------------------------------------------------------------
(* The boundary.  An entry that has yet to write its token is the only one, its    *)
(* session is in force and the old token is gone as soon as the lock is free.      *)

Entering(o) == opPc[o].at \in {"writeToken", "emitEntered"}
Exiting(o) == opPc[o].at \in {"clearToken", "emitExited"}

TokenInv ==
    /\ mode \in {"NORMAL", "RECOVERY"} /\ session \in Nat /\ exitToken \in Nat
    /\ DOMAIN opPc = Operators
    /\ \A o, p \in Operators : opPc[o].at = "clearToken" /\ opPc[p].at = "clearToken" => o = p
    /\ \A o, p \in Operators : opPc[o].at = "writeToken" /\ opPc[p].at = "writeToken" => o = p
    /\ \A o \in Operators : opPc[o].at = "writeToken" =>
          /\ opPc[o].of = session /\ mode = "RECOVERY"
          /\ TokenLocked \/ exitToken = 0
    /\ (mode = "RECOVERY" /\ \A o \in Operators : opPc[o].at # "writeToken") =>
          exitToken = session /\ ~TokenLocked
    /\ (mode = "NORMAL" /\ ~TokenLocked) => exitToken = 0
    /\ SystemFullAlone

\* Every step of the boundary preserves TokenInv.
LEMMA TokenInductive == TokenInv /\ [BoundaryNext]_boundaryVars => TokenInv'
<1> SUFFICES ASSUME TokenInv, [BoundaryNext]_boundaryVars PROVE TokenInv'
  BY Zenon
<1> USE DEF TokenInv, TokenLocked, SystemFullAlone, Step, OpIdle
<1>1. ASSUME NEW o \in Operators, EnterRecovery(o) PROVE TokenInv'
  BY <1>1 DEF EnterRecovery
<1>2. ASSUME NEW o \in Operators, WriteToken(o) PROVE TokenInv'
  BY <1>2, Zenon DEF WriteToken
<1>3. ASSUME NEW o \in Operators, ExitRecovery(o) PROVE TokenInv'
  BY <1>3 DEF ExitRecovery
<1>4. ASSUME NEW o \in Operators, ClearToken(o) PROVE TokenInv'
  BY <1>4, Zenon DEF ClearToken
<1>5. ASSUME NEW o \in Operators, EmitSessionReceipt(o) PROVE TokenInv'
  BY <1>5, Zenon DEF EmitSessionReceipt
<1>6. ASSUME NEW o \in Operators, NEW sub \in SubBoundaries, EnterSubBoundary(o, sub) PROVE TokenInv'
  BY <1>6, Zenon DEF EnterSubBoundary
<1>7. ASSUME NEW o \in Operators, NEW sub \in SubBoundaries, ExitSubBoundary(o, sub) PROVE TokenInv'
  BY <1>7, Zenon DEF ExitSubBoundary
<1>8. CASE UNCHANGED boundaryVars
  BY <1>8, Zenon DEF boundaryVars
<1> QED
  BY <1>1, <1>2, <1>3, <1>4, <1>5, <1>6, <1>7, <1>8, Zenon DEF BoundaryNext, SessionStep, SubBoundaryStep

\* A session can be left with the token that is stored and no token outlives its
\* session, and SYSTEM_FULL is open alone, for any number of callers between whose
\* locks others come (enter_recovery, exit_recovery, enter_sub_boundary).
THEOREM SessionsCanBeLeft == BoundarySpec => [](TokenMatchesSession /\ SystemFullAlone)
<1>1. BoundaryInit => TokenInv
  BY DEF BoundaryInit, TokenInv, TokenLocked, SystemFullAlone, OpIdle
<1>2. TokenInv => TokenMatchesSession /\ SystemFullAlone
  BY Zenon DEF TokenInv, TokenMatchesSession
<1> QED BY <1>1, <1>2, TokenInductive, PTL DEF BoundarySpec

--------------------------------------------------------------------------------
(* The receipts.  A receipt that is still to be written differs from every receipt *)
(* written and from those that other callers are going to write.                   *)

Receipt == [at : {"emitEntered", "emitExited"}, of : Nat]

OpPcs ==
    [Operators -> [at : {"idle", "writeToken", "emitEntered", "clearToken", "emitExited"}, of : Nat]]

ReceiptInv ==
    /\ opPc \in OpPcs
    /\ trail \in Seq(Receipt)
    /\ \A o \in Operators : opPc[o].of <= session
    /\ \A i \in 1..Len(trail) : trail[i].of <= session
    /\ \A o, p \in Operators :
          (Entering(o) /\ Entering(p)) \/ (Exiting(o) /\ Exiting(p)) => opPc[o].of # opPc[p].of \/ o = p
    /\ \A o \in Operators : Entering(o) =>
          \A i \in 1..Len(trail) : trail[i] # [at |-> "emitEntered", of |-> opPc[o].of]
    /\ \A o \in Operators : Exiting(o) =>
          \A i \in 1..Len(trail) : trail[i] # [at |-> "emitExited", of |-> opPc[o].of]
    /\ \A i, j \in 1..Len(trail) : trail[i] = trail[j] => i = j
    /\ mode = "RECOVERY" =>
          /\ \A o \in Operators : Exiting(o) => opPc[o].of # session
          /\ \A i \in 1..Len(trail) : trail[i] # [at |-> "emitExited", of |-> session]

\* A receipt is not one of another kind or of another session.
LEMMA OtherReceipt ==
    ASSUME NEW r, NEW at, NEW of, r.at # at \/ r.of # of
    PROVE  r # [at |-> at, of |-> of]
OBVIOUS

\* A step that writes no receipt and starts no entry and no exit preserves ReceiptInv.
LEMMA QuietStep ==
    ASSUME ReceiptInv, UNCHANGED <<session, trail>>, mode' = "RECOVERY" => mode = "RECOVERY",
           opPc' \in OpPcs, \A p \in Operators : opPc'[p].of <= session,
           \A p \in Operators : /\ Entering(p)' => Entering(p) /\ opPc'[p].of = opPc[p].of
                                /\ Exiting(p)' => Exiting(p) /\ opPc'[p].of = opPc[p].of
    PROVE  ReceiptInv'
<1>1. \A p, q \in Operators :
        (Entering(p) /\ Entering(q))' \/ (Exiting(p) /\ Exiting(q))' => opPc'[p].of # opPc'[q].of \/ p = q
  BY ZenonT(40) DEF ReceiptInv
<1>2. \A p \in Operators : Entering(p)' =>
        \A i \in 1..Len(trail') : trail'[i] # [at |-> "emitEntered", of |-> opPc'[p].of]
  <2>1. \A p \in Operators : Entering(p) =>
          \A i \in 1..Len(trail) : trail[i] # [at |-> "emitEntered", of |-> opPc[p].of]
    BY Zenon DEF ReceiptInv
  <2> QED BY <2>1, Zenon
<1>3. \A p \in Operators : Exiting(p)' =>
        \A i \in 1..Len(trail') : trail'[i] # [at |-> "emitExited", of |-> opPc'[p].of]
  <2>1. \A p \in Operators : Exiting(p) =>
          \A i \in 1..Len(trail) : trail[i] # [at |-> "emitExited", of |-> opPc[p].of]
    BY Zenon DEF ReceiptInv
  <2> QED BY <2>1, Zenon
<1>4. mode' = "RECOVERY" =>
        /\ \A p \in Operators : Exiting(p)' => opPc'[p].of # session'
        /\ \A i \in 1..Len(trail') : trail'[i] # [at |-> "emitExited", of |-> session']
  BY ZenonT(40) DEF ReceiptInv
<1>5. /\ trail' \in Seq(Receipt) /\ \A i \in 1..Len(trail') : trail'[i].of <= session'
      /\ \A i, j \in 1..Len(trail') : trail'[i] = trail'[j] => i = j
  BY ZenonT(40) DEF ReceiptInv
<1>6. opPc' \in OpPcs /\ \A p \in Operators : opPc'[p].of <= session'
  BY Zenon
<1> QED BY <1>1, <1>2, <1>3, <1>4, <1>5, <1>6, ZenonT(40) DEF ReceiptInv

\* Every step of the boundary preserves ReceiptInv.
LEMMA ReceiptInductive ==
    ASSUME TokenInv, ReceiptInv, [BoundaryNext]_boundaryVars
    PROVE  ReceiptInv'
<1>0. session \in Nat /\ exitToken \in Nat /\ trail \in Seq(Receipt) /\ Len(trail) \in Nat
      /\ \A i \in 1..Len(trail) : trail[i] \in Receipt
  <2>1. session \in Nat /\ exitToken \in Nat /\ trail \in Seq(Receipt)
    BY Zenon DEF TokenInv, ReceiptInv
  <2> QED BY <2>1
<1>7. opPc \in OpPcs /\ \A o \in Operators : opPc[o].of <= session
  BY ZenonT(40) DEF ReceiptInv
<1>1. ASSUME NEW o \in Operators, EnterRecovery(o) PROVE ReceiptInv'
  <2>1. /\ session' = session + 1 /\ trail' = trail /\ mode' = "RECOVERY"
        /\ opPc' = [opPc EXCEPT ![o] = [at |-> "writeToken", of |-> session + 1]]
    BY <1>1, Zenon DEF EnterRecovery, Step
  <2>2. opPc' \in OpPcs /\ \A p \in Operators : opPc'[p].of <= session'
    BY <1>0, <1>7, <2>1 DEF OpPcs
  <2>3. \A p \in Operators : /\ Entering(p)' => p = o \/ (Entering(p) /\ opPc'[p] = opPc[p])
                             /\ Exiting(p)' => Exiting(p) /\ opPc'[p] = opPc[p]
    BY <1>7, <2>1, Zenon DEF OpPcs, Entering, Exiting
  <2>4. opPc'[o].of = session' /\ ~Exiting(o)'
    BY <1>7, <2>1, Zenon DEF OpPcs, Exiting
  <2>5. \A p \in Operators : opPc[p].of # session'
    <3>1. \A p \in Operators : opPc[p].of \in Nat
      BY <1>7, Zenon DEF OpPcs
    <3> QED BY <1>0, <1>7, <2>1, <3>1
  <2>6. \A i \in 1..Len(trail) : trail[i].of <= session' /\ trail[i].of # session'
    <3>1. \A i \in 1..Len(trail) : trail[i].of <= session /\ trail[i].of \in Nat
      BY <1>0, Zenon DEF ReceiptInv, Receipt
    <3> QED BY <1>0, <2>1, <3>1
  <2>7. \A p, q \in Operators :
          (Entering(p) /\ Entering(q))' \/ (Exiting(p) /\ Exiting(q))' => opPc'[p].of # opPc'[q].of \/ p = q
    <3>1. \A p, q \in Operators :
            (Entering(p) /\ Entering(q)) \/ (Exiting(p) /\ Exiting(q)) => opPc[p].of # opPc[q].of \/ p = q
      BY Zenon DEF ReceiptInv
    <3> QED BY <2>3, <2>4, <2>5, <3>1, Zenon
  <2>8. \A p \in Operators : Entering(p)' =>
          \A i \in 1..Len(trail') : trail'[i] # [at |-> "emitEntered", of |-> opPc'[p].of]
    <3>1. \A p \in Operators : Entering(p) =>
            \A i \in 1..Len(trail) : trail[i] # [at |-> "emitEntered", of |-> opPc[p].of]
      BY Zenon DEF ReceiptInv
    <3>2. \A i \in 1..Len(trail) : trail[i] # [at |-> "emitEntered", of |-> session']
      BY <2>6, OtherReceipt, Zenon
    <3> QED BY <2>1, <2>3, <2>4, <3>1, <3>2, ZenonT(40)
  <2>9. \A p \in Operators : Exiting(p)' =>
          \A i \in 1..Len(trail') : trail'[i] # [at |-> "emitExited", of |-> opPc'[p].of]
    <3>1. \A p \in Operators : Exiting(p) =>
            \A i \in 1..Len(trail) : trail[i] # [at |-> "emitExited", of |-> opPc[p].of]
      BY Zenon DEF ReceiptInv
    <3> QED BY <2>1, <2>3, <3>1, ZenonT(40)
  <2>10. /\ \A p \in Operators : Exiting(p)' => opPc'[p].of # session'
         /\ \A i \in 1..Len(trail') : trail'[i] # [at |-> "emitExited", of |-> session']
    <3>1. \A p \in Operators : Exiting(p)' => opPc'[p].of # session'
      BY <2>3, <2>5, Zenon
    <3>2. \A i \in 1..Len(trail) : trail[i] # [at |-> "emitExited", of |-> session']
      BY <2>6, OtherReceipt, ZenonT(40)
    <3> QED BY <2>1, <3>1, <3>2, Zenon
  <2>11. /\ trail' \in Seq(Receipt) /\ \A i \in 1..Len(trail') : trail'[i].of <= session'
         /\ \A i, j \in 1..Len(trail') : trail'[i] = trail'[j] => i = j
    BY <2>1, <2>6, ZenonT(40) DEF ReceiptInv
  <2> QED BY <2>2, <2>7, <2>8, <2>9, <2>10, <2>11, ZenonT(40) DEF ReceiptInv
<1>2. ASSUME NEW o \in Operators, WriteToken(o) PROVE ReceiptInv'
  <2>1. /\ UNCHANGED <<mode, session, trail>> /\ opPc[o].at = "writeToken"
        /\ opPc' = [opPc EXCEPT ![o] = [at |-> "emitEntered", of |-> opPc[o].of]]
    BY <1>2, Zenon DEF WriteToken, Step
  <2>2. opPc' \in OpPcs /\ \A p \in Operators : opPc'[p].of <= session
    BY <1>7, <2>1, Zenon DEF OpPcs
  <2>3. \A p \in Operators : /\ Entering(p)' => Entering(p) /\ opPc'[p].of = opPc[p].of
                             /\ Exiting(p)' => Exiting(p) /\ opPc'[p].of = opPc[p].of
    BY <1>7, <2>1, Zenon DEF OpPcs, Entering, Exiting
  <2> QED BY <2>1, <2>2, <2>3, QuietStep, Zenon
<1>3. ASSUME NEW o \in Operators, ExitRecovery(o) PROVE ReceiptInv'
  <2>1. exitToken = session /\ mode = "RECOVERY"
    BY <1>3 DEF ExitRecovery, TokenInv, TokenLocked
  <2>2. /\ mode' = "NORMAL" /\ UNCHANGED <<session, trail>> /\ opPc[o].at = "idle"
        /\ opPc' = [opPc EXCEPT ![o] = [at |-> "clearToken", of |-> session]]
    BY <1>3, <2>1 DEF ExitRecovery, Step, OpIdle
  <2>3. opPc' \in OpPcs /\ \A p \in Operators : opPc'[p].of <= session'
    BY <1>0, <1>7, <2>2 DEF OpPcs
  <2>4. \A p \in Operators : /\ Entering(p)' => Entering(p) /\ opPc'[p] = opPc[p]
                             /\ Exiting(p)' => p = o \/ (Exiting(p) /\ opPc'[p] = opPc[p])
    BY <1>7, <2>2, Zenon DEF OpPcs, Entering, Exiting
  <2>5. opPc'[o].of = session /\ ~Entering(o)'
    BY <1>7, <2>2, Zenon DEF OpPcs, Entering
  <2>6. \A p \in Operators : Exiting(p) => opPc[p].of # session
    BY <2>1, Zenon DEF ReceiptInv
  <2>7. \A p, q \in Operators :
          (Entering(p) /\ Entering(q))' \/ (Exiting(p) /\ Exiting(q))' => opPc'[p].of # opPc'[q].of \/ p = q
    <3>1. \A p, q \in Operators :
            (Entering(p) /\ Entering(q)) \/ (Exiting(p) /\ Exiting(q)) => opPc[p].of # opPc[q].of \/ p = q
      BY Zenon DEF ReceiptInv
    <3> QED BY <2>4, <2>5, <2>6, <3>1, Zenon
  <2>8. \A p \in Operators : Entering(p)' =>
          \A i \in 1..Len(trail') : trail'[i] # [at |-> "emitEntered", of |-> opPc'[p].of]
    <3>1. \A p \in Operators : Entering(p) =>
            \A i \in 1..Len(trail) : trail[i] # [at |-> "emitEntered", of |-> opPc[p].of]
      BY Zenon DEF ReceiptInv
    <3> QED BY <2>2, <2>4, <3>1
  <2>9. \A p \in Operators : Exiting(p)' =>
          \A i \in 1..Len(trail') : trail'[i] # [at |-> "emitExited", of |-> opPc'[p].of]
    <3>1. \A p \in Operators : Exiting(p) =>
            \A i \in 1..Len(trail) : trail[i] # [at |-> "emitExited", of |-> opPc[p].of]
      BY Zenon DEF ReceiptInv
    <3>2. \A i \in 1..Len(trail) : trail[i] # [at |-> "emitExited", of |-> session]
      BY <2>1, Zenon DEF ReceiptInv
    <3> QED BY <2>2, <2>4, <2>5, <3>1, <3>2, ZenonT(60)
  <2>10. /\ trail' \in Seq(Receipt) /\ \A i \in 1..Len(trail') : trail'[i].of <= session'
         /\ \A i, j \in 1..Len(trail') : trail'[i] = trail'[j] => i = j
    BY <2>2, ZenonT(40) DEF ReceiptInv
  <2>11. mode' # "RECOVERY"
    BY <2>2, Zenon
  <2> QED BY <2>3, <2>7, <2>8, <2>9, <2>10, <2>11, ZenonT(40) DEF ReceiptInv
<1>4. ASSUME NEW o \in Operators, ClearToken(o) PROVE ReceiptInv'
  <2>1. /\ UNCHANGED <<mode, session, trail>> /\ opPc[o].at = "clearToken"
        /\ opPc' = [opPc EXCEPT ![o] = [at |-> "emitExited", of |-> opPc[o].of]]
    BY <1>4, Zenon DEF ClearToken, Step
  <2>2. opPc' \in OpPcs /\ \A p \in Operators : opPc'[p].of <= session
    BY <1>7, <2>1, Zenon DEF OpPcs
  <2>3. \A p \in Operators : /\ Entering(p)' => Entering(p) /\ opPc'[p].of = opPc[p].of
                             /\ Exiting(p)' => Exiting(p) /\ opPc'[p].of = opPc[p].of
    BY <1>7, <2>1, Zenon DEF OpPcs, Entering, Exiting
  <2> QED BY <2>1, <2>2, <2>3, QuietStep, Zenon
<1>5. ASSUME NEW o \in Operators, EmitSessionReceipt(o) PROVE ReceiptInv'
  <2>1. /\ UNCHANGED <<mode, session>> /\ opPc' = [opPc EXCEPT ![o] = [at |-> "idle", of |-> 0]]
        /\ opPc[o] \in Receipt /\ opPc[o].of <= session
    BY <1>5, <1>7, Zenon DEF EmitSessionReceipt, OpIdle, OpPcs, Receipt
  <2>2. opPc' \in OpPcs
    BY <1>7, <2>1, Zenon DEF OpPcs
  <2>3. \A p \in Operators : opPc'[p].of <= session'
    BY <1>0, <1>7, <2>1 DEF OpPcs
  <2>4. \A p \in Operators : (Entering(p)' => p # o /\ Entering(p) /\ opPc'[p] = opPc[p])
                          /\ (Exiting(p)' => p # o /\ Exiting(p) /\ opPc'[p] = opPc[p])
    BY <1>7, <2>1, Zenon DEF OpPcs, Entering, Exiting
  <2>5. CASE trail' = trail
    BY <2>1, <2>2, <2>3, <2>4, <2>5, QuietStep, Zenon
  <2>6. CASE trail' = Append(trail, opPc[o])
    <3>1. /\ trail' \in Seq(Receipt) /\ Len(trail') = Len(trail) + 1 /\ trail'[Len(trail) + 1] = opPc[o]
          /\ \A i \in 1..Len(trail) : trail'[i] = trail[i]
      BY <1>0, <2>1, <2>6
    <3>2. \A i \in 1..Len(trail') : i \in 1..Len(trail) \/ i = Len(trail) + 1
      BY <1>0, <3>1
    <3>3. \A i \in 1..Len(trail) : trail[i] # opPc[o]
      BY <1>0, <1>5, <2>1, ZenonT(40) DEF EmitSessionReceipt, ReceiptInv, Entering, Exiting, Receipt
    <3>4. \A i, j \in 1..Len(trail') : trail'[i] = trail'[j] => i = j
      <4>1. \A i, j \in 1..Len(trail) : trail[i] = trail[j] => i = j
        BY Zenon DEF ReceiptInv
      <4> QED BY <3>1, <3>2, <3>3, <4>1, ZenonT(40)
    <3>5. \A i \in 1..Len(trail') : trail'[i].of <= session'
      <4>1. \A i \in 1..Len(trail) : trail[i].of <= session
        BY Zenon DEF ReceiptInv
      <4> QED BY <2>1, <3>1, <3>2, <4>1, Zenon
    <3>6. ASSUME NEW p \in Operators, Entering(p)', NEW i \in 1..Len(trail')
          PROVE  trail'[i] # [at |-> "emitEntered", of |-> opPc'[p].of]
      <4>1. CASE i \in 1..Len(trail)
        <5>1. Entering(p) /\ opPc'[p] = opPc[p]
          BY <2>4, <3>6, Zenon
        <5>2. trail[i] # [at |-> "emitEntered", of |-> opPc[p].of]
          BY <4>1, <5>1, ZenonT(40) DEF ReceiptInv
        <5> QED BY <3>1, <4>1, <5>1, <5>2, Zenon
      <4>2. CASE i = Len(trail) + 1
        <5>1. trail'[i] = opPc[o] /\ p # o /\ Entering(p) /\ opPc'[p] = opPc[p]
          BY <2>4, <3>1, <3>6, <4>2, Zenon
        <5>2. opPc[o].at = "emitEntered" => opPc[o].of # opPc[p].of
          <6>1. Entering(o) => opPc[o].of # opPc[p].of
            BY <5>1, ZenonT(40) DEF ReceiptInv
          <6> QED BY <6>1, Zenon DEF Entering
        <5> QED BY <5>1, <5>2, OtherReceipt, ZenonT(60)
      <4> QED BY <3>2, <4>1, <4>2, Zenon
    <3>7. ASSUME NEW p \in Operators, Exiting(p)', NEW i \in 1..Len(trail')
          PROVE  trail'[i] # [at |-> "emitExited", of |-> opPc'[p].of]
      <4>1. CASE i \in 1..Len(trail)
        <5>1. Exiting(p) /\ opPc'[p] = opPc[p]
          BY <2>4, <3>7, Zenon
        <5>2. trail[i] # [at |-> "emitExited", of |-> opPc[p].of]
          BY <4>1, <5>1, ZenonT(40) DEF ReceiptInv
        <5> QED BY <3>1, <4>1, <5>1, <5>2, Zenon
      <4>2. CASE i = Len(trail) + 1
        <5>1. trail'[i] = opPc[o] /\ p # o /\ Exiting(p) /\ opPc'[p] = opPc[p]
          BY <2>4, <3>1, <3>7, <4>2, Zenon
        <5>2. opPc[o].at = "emitExited" => opPc[o].of # opPc[p].of
          <6>1. Exiting(o) => opPc[o].of # opPc[p].of
            BY <5>1, ZenonT(40) DEF ReceiptInv
          <6> QED BY <6>1, Zenon DEF Exiting
        <5> QED BY <5>1, <5>2, OtherReceipt, ZenonT(60)
      <4> QED BY <3>2, <4>1, <4>2, Zenon
    <3>8. \A p, q \in Operators :
            (Entering(p) /\ Entering(q))' \/ (Exiting(p) /\ Exiting(q))' => opPc'[p].of # opPc'[q].of \/ p = q
      BY <2>4, ZenonT(40) DEF ReceiptInv
    <3>9. mode' = "RECOVERY" =>
             /\ \A p \in Operators : Exiting(p)' => opPc'[p].of # session'
             /\ \A i \in 1..Len(trail') : trail'[i] # [at |-> "emitExited", of |-> session']
      <4>1. mode = "RECOVERY" => opPc[o] # [at |-> "emitExited", of |-> session]
        <5>1. mode = "RECOVERY" /\ Exiting(o) => opPc[o].of # session
          BY ZenonT(40) DEF ReceiptInv
        <5>2. opPc[o].at = "emitExited" => Exiting(o)
          BY Zenon DEF Exiting
        <5> QED BY <5>1, <5>2, OtherReceipt, Zenon
      <4> QED BY <2>1, <3>1, <3>2, <2>4, <4>1, Zenon DEF ReceiptInv
    <3> QED BY <2>1, <2>2, <2>3, <3>1, <3>4, <3>5, <3>6, <3>7, <3>8, <3>9, Zenon DEF ReceiptInv
  <2> QED BY <1>5, <2>5, <2>6, Zenon DEF EmitSessionReceipt
<1>6. ASSUME UNCHANGED <<mode, session, opPc, trail>> PROVE ReceiptInv'
  <2>1. \A p \in Operators : /\ Entering(p)' => Entering(p) /\ opPc'[p].of = opPc[p].of
                             /\ Exiting(p)' => Exiting(p) /\ opPc'[p].of = opPc[p].of
    BY <1>6, Zenon DEF Entering, Exiting
  <2> QED BY <1>6, <1>7, <2>1, QuietStep, Zenon
<1> QED
  BY <1>1, <1>2, <1>3, <1>4, <1>5, <1>6, ZenonT(40)
  DEF BoundaryNext, SessionStep, SubBoundaryStep, EnterSubBoundary, ExitSubBoundary, boundaryVars

\* No token is stored that no session minted (enter_recovery).
LEMMA TokenWasMinted ==
    TokenInv /\ ReceiptInv /\ BoundaryTypeOK /\ [BoundaryNext]_boundaryVars => BoundaryTypeOK'
<1> SUFFICES ASSUME TokenInv, ReceiptInv, BoundaryTypeOK, [BoundaryNext]_boundaryVars PROVE BoundaryTypeOK'
  BY Zenon
<1>1. TokenInv' /\ ReceiptInv'
  BY TokenInductive, ReceiptInductive, Zenon
<1>2. mode' \in {"NORMAL", "RECOVERY"} /\ session' \in Nat
  BY <1>1, Zenon DEF TokenInv
<1>3. opPc' \in [Operators ->
          [at : {"idle", "writeToken", "emitEntered", "clearToken", "emitExited"}, of : 0..session']]
  <2>1. opPc' \in OpPcs /\ \A o \in Operators : opPc'[o].of <= session'
    BY <1>1, ZenonT(40) DEF ReceiptInv
  <2> QED BY <1>2, <2>1 DEF OpPcs
<1> USE DEF BoundaryTypeOK, Step
<1>4. ASSUME NEW o \in Operators, SessionStep(o) PROVE exitToken' \in 0..session' /\ subs' \subseteq SubBoundaries
  <2>1. session \in Nat /\ exitToken \in 0..session /\ opPc[o].of \in 0..session
    BY Zenon
  <2>2. CASE EnterRecovery(o)
    BY <2>1, <2>2 DEF EnterRecovery, SubBoundaries
  <2>3. CASE WriteToken(o)
    BY <2>1, <2>3, Zenon DEF WriteToken
  <2>4. CASE ExitRecovery(o)
    BY <2>1, <2>4, Zenon DEF ExitRecovery
  <2>5. CASE ClearToken(o) \/ EmitSessionReceipt(o)
    BY <2>1, <2>5 DEF ClearToken, EmitSessionReceipt
  <2> QED BY <1>4, <2>2, <2>3, <2>4, <2>5, Zenon DEF SessionStep
<1>5. ASSUME NEW o \in Operators, SubBoundaryStep(o)
      PROVE  exitToken' \in 0..session' /\ subs' \subseteq SubBoundaries
  BY <1>5, Zenon DEF SubBoundaryStep, EnterSubBoundary, ExitSubBoundary
<1> QED BY <1>2, <1>3, <1>4, <1>5, Zenon DEF BoundaryNext, boundaryVars

\* No session is receipted as left while it is in force and no receipt is written
\* twice, although they are appended after the locks (enter_recovery, exit_recovery).
THEOREM ReceiptsAreTruthful == BoundarySpec => [](BoundaryTypeOK /\ ReceiptsTruthful)
<1>1. BoundaryInit => TokenInv /\ ReceiptInv /\ BoundaryTypeOK
  <2> SUFFICES ASSUME BoundaryInit PROVE TokenInv /\ ReceiptInv /\ BoundaryTypeOK
    BY Zenon
  <2>1. TokenInv
    BY DEF BoundaryInit, TokenInv, TokenLocked, SystemFullAlone, OpIdle
  <2>2. opPc \in OpPcs /\ \A o \in Operators : opPc[o].at = "idle" /\ opPc[o].of <= session
    BY DEF BoundaryInit, OpIdle, OpPcs
  <2>3. trail \in Seq(Receipt) /\ ~\E i \in 1..Len(trail) : TRUE
    BY DEF BoundaryInit
  <2>4. \A o \in Operators : ~Entering(o) /\ ~Exiting(o)
    BY <2>2 DEF Entering, Exiting
  <2>5. ReceiptInv
    BY <2>2, <2>3, <2>4, ZenonT(40) DEF ReceiptInv
  <2>6. BoundaryTypeOK
    BY DEF BoundaryInit, BoundaryTypeOK, OpIdle
  <2> QED BY <2>1, <2>5, <2>6, Zenon
<1>2. TokenInv /\ ReceiptInv /\ BoundaryTypeOK /\ [BoundaryNext]_boundaryVars
        => (TokenInv /\ ReceiptInv /\ BoundaryTypeOK)'
  BY TokenInductive, ReceiptInductive, TokenWasMinted, Zenon
<1>3. ReceiptInv => ReceiptsTruthful
  <2> SUFFICES ASSUME ReceiptInv PROVE ReceiptsTruthful
    BY Zenon
  <2>1. DOMAIN trail = 1..Len(trail)
    <3>1. trail \in Seq(Receipt)
      BY Zenon DEF ReceiptInv
    <3> QED BY <3>1
  <2> QED BY <2>1, Zenon DEF ReceiptInv, ReceiptsTruthful
<1> QED BY <1>1, <1>2, <1>3, PTL DEF BoundarySpec

--------------------------------------------------------------------------------
(* The kernel pipeline.                                                            *)

Promoted == {"A_PROMOTED", "RETIRED"}

\* A stack without repetitions, of promoted images other than the active one.
StackFits(stack, active, states) ==
    /\ \A i, j \in 1..Len(stack) : stack[i] = stack[j] => i = j
    /\ \A i \in 1..Len(stack) : stack[i] # active /\ states[stack[i]] \in Promoted

KernelInv ==
    /\ candState \in [Candidates -> CandidateState \cup {"NONE"}]
    /\ activeId \in Candidates \cup {NoCandidate}
    /\ rollbackStack \in Seq(Candidates) /\ Len(rollbackStack) <= RollbackStackCapacity
    /\ installing \in [Installers -> Candidates \cup {NoCandidate}]
    /\ StackFits(rollbackStack, activeId, candState)
    /\ activeId # NoCandidate => candState[activeId] \in Promoted

\* A part of a stack fits where the stack does (pop, and drain of the oldest entries).
LEMMA PartFits ==
    ASSUME NEW stack \in Seq(Candidates), NEW m \in 1..(Len(stack) + 1), NEW n \in 0..Len(stack),
           NEW active, NEW states, StackFits(stack, active, states)
    PROVE  /\ SubSeq(stack, m, n) \in Seq(Candidates)
           /\ StackFits(SubSeq(stack, m, n), active, states)
<1>1. Len(stack) \in Nat
  OBVIOUS
<1>2. PICK part : part = SubSeq(stack, m, n)
  BY Zenon
<1>3. CASE m <= n
  <2>1. m \in 1..Len(stack) /\ n \in m..Len(stack)
    BY <1>1, <1>3
  <2>2. /\ part \in Seq(Candidates) /\ Len(part) = n - m + 1
        /\ \A i \in 1..(n - m + 1) : part[i] = stack[m + i - 1]
    BY <1>2, <1>3, <2>1, SubSeqProperties, Zenon
  <2>3. \A i \in 1..Len(part) : m + i - 1 \in 1..Len(stack) /\ part[i] = stack[m + i - 1]
    BY <1>1, <2>1, <2>2, SMTT(30)
  <2>4. StackFits(part, active, states)
    <3>1. ASSUME NEW i \in 1..Len(part), NEW j \in 1..Len(part), part[i] = part[j] PROVE i = j
      <4>1. m + i - 1 = m + j - 1
        BY <2>3, <3>1, Zenon DEF StackFits
      <4> QED BY <2>1, <4>1
    <3>2. ASSUME NEW i \in 1..Len(part) PROVE part[i] # active /\ states[part[i]] \in Promoted
      BY <2>3, Zenon DEF StackFits
    <3> QED BY <3>1, <3>2, Zenon DEF StackFits
  <2> QED BY <1>2, <2>2, <2>4, Zenon
<1>4. CASE n < m
  <2>1. part = << >>
    BY <1>1, <1>2, <1>4
  <2>2. part \in Seq(Candidates) /\ Len(part) = 0
    BY <2>1
  <2>3. StackFits(part, active, states)
    BY <2>2 DEF StackFits
  <2> QED BY <1>2, <2>2, <2>3, Zenon
<1> QED BY <1>1, <1>3, <1>4

\* activate_candidate puts the image it replaces on the stack and trims it.
LEMMA PushFits ==
    ASSUME NEW stack \in Seq(Candidates), NEW old \in Candidates, NEW active, NEW states,
           StackFits(stack, old, states), StackFits(stack, active, states),
           old # active, states[old] \in Promoted
    PROVE  /\ Trim(Append(stack, old)) \in Seq(Candidates)
           /\ Len(Trim(Append(stack, old))) <= RollbackStackCapacity
           /\ StackFits(Trim(Append(stack, old)), active, states)
<1>1. PICK full : full = Append(stack, old)
  BY Zenon
<1>2. /\ full \in Seq(Candidates) /\ Len(full) = Len(stack) + 1 /\ full[Len(stack) + 1] = old
      /\ \A i \in 1..Len(stack) : full[i] = stack[i]
      /\ Len(stack) \in Nat
  BY <1>1
<1>3. StackFits(full, active, states)
  <2>1. \A i \in 1..Len(full) : i \in 1..Len(stack) \/ i = Len(stack) + 1
    BY <1>2
  <2> QED BY <1>2, <2>1, Zenon DEF StackFits
<1>4. PICK overflow : overflow = IF Len(full) > RollbackStackCapacity
                                 THEN Len(full) - RollbackStackCapacity ELSE 0
  BY Zenon
<1>5. overflow + 1 \in 1..(Len(full) + 1) /\ Len(full) \in 0..Len(full)
  BY <1>2, <1>4, KernelAssumption
<1>6. Trim(full) = SubSeq(full, overflow + 1, Len(full))
  BY <1>4, Zenon DEF Trim
<1>7. SubSeq(full, overflow + 1, Len(full)) \in Seq(Candidates)
      /\ StackFits(SubSeq(full, overflow + 1, Len(full)), active, states)
  BY <1>2, <1>3, <1>5, PartFits, Zenon
<1>8. Len(SubSeq(full, overflow + 1, Len(full))) <= RollbackStackCapacity
  <2>1. PICK len \in Nat : len = Len(full)
    BY <1>2
  <2>2. /\ overflow \in Nat /\ overflow <= len /\ len - overflow <= RollbackStackCapacity
        /\ RollbackStackCapacity \in Nat
    BY <1>4, <2>1, KernelAssumption
  <2>3. CASE overflow = len
    <3>1. SubSeq(full, len + 1, len) = << >>
      BY <1>2, <2>1
    <3> QED BY <2>1, <2>2, <2>3, <3>1
  <2>4. CASE overflow < len
    <3>1. Len(SubSeq(full, overflow + 1, len)) = len - (overflow + 1) + 1
      BY <1>2, <2>1, <2>2, <2>4, SubSeqProperties
    <3> QED BY <2>1, <2>2, <3>1
  <2> QED BY <2>2, <2>3, <2>4
<1> QED BY <1>1, <1>6, <1>7, <1>8, Zenon

\* KernelInv is inductive: an image is promoted from GATE_PASSED, hence is neither
\* active nor on the stack (activate_candidate, rollback_candidate, retire_candidate).
LEMMA KernelInductive == KernelInv /\ [KernelNext]_kernelVars => KernelInv'
<1> SUFFICES ASSUME KernelInv, [KernelNext]_kernelVars PROVE KernelInv'
  BY Zenon
<1>0. /\ candState \in [Candidates -> CandidateState \cup {"NONE"}]
      /\ activeId \in Candidates \cup {NoCandidate}
      /\ rollbackStack \in Seq(Candidates) /\ Len(rollbackStack) \in Nat
      /\ Len(rollbackStack) <= RollbackStackCapacity /\ RollbackStackCapacity \in Nat
      /\ \A i \in 1..Len(rollbackStack) : rollbackStack[i] \in Candidates
      /\ installing \in [Installers -> Candidates \cup {NoCandidate}]
  BY KernelAssumption DEF KernelInv
\* A change of state that concerns no promoted image, or retires one.
<1>1. ASSUME NEW c \in Candidates, NEW to \in CandidateState,
             candState[c] \notin Promoted \/ to = "RETIRED",
             candState' = [candState EXCEPT ![c] = to], UNCHANGED <<activeId, rollbackStack, installing>>
      PROVE  KernelInv'
  <2>1. \A d \in Candidates : candState[d] \in Promoted => candState'[d] \in Promoted
    BY <1>0, <1>1, Zenon DEF Promoted
  <2>2. candState' \in [Candidates -> CandidateState \cup {"NONE"}]
    BY <1>0, <1>1, Zenon
  <2> QED BY <1>0, <1>1, <2>1, <2>2, Zenon DEF KernelInv, StackFits
<1>2. ASSUME NEW c \in Candidates, RegisterCandidate(c) PROVE KernelInv'
  BY <1>1, <1>2, Zenon DEF RegisterCandidate, Promoted, CandidateState
<1>3. ASSUME NEW c \in Candidates, VerifyCandidate(c) PROVE KernelInv'
  BY <1>1, <1>3, Zenon DEF VerifyCandidate, Transition, TransitionAllowed, Promoted, CandidateState
<1>4. ASSUME NEW c \in Candidates, RetireCandidate(c) PROVE KernelInv'
  BY <1>1, <1>4, Zenon DEF RetireCandidate, Transition, CandidateState
<1>5. ASSUME NEW c \in Candidates, NEW i \in Installers, CheckActivation(i, c) PROVE KernelInv'
  <2>1. installing' \in [Installers -> Candidates \cup {NoCandidate}]
    BY <1>0, <1>5, Zenon DEF CheckActivation
  <2> QED BY <1>5, <2>1, Zenon DEF CheckActivation, KernelInv
<1>6. ASSUME NEW i \in Installers, ActivateCandidate(i) PROVE KernelInv'
  <2>1. PICK c \in Candidates : c = installing[i]
    BY <1>0, <1>6, Zenon DEF ActivateCandidate
  <2>2. installing' \in [Installers -> Candidates \cup {NoCandidate}]
    BY <1>0, <1>6, Zenon DEF ActivateCandidate
  <2>3. CASE ~TransitionAllowed(candState[c], "A_PROMOTED")
    BY <1>6, <2>1, <2>2, <2>3, Zenon DEF ActivateCandidate, KernelInv
  <2>4. CASE TransitionAllowed(candState[c], "A_PROMOTED")
    <3>1. /\ candState' = [candState EXCEPT ![c] = "A_PROMOTED"] /\ activeId' = c
          /\ rollbackStack' = IF activeId \in {NoCandidate, c} THEN rollbackStack
                              ELSE Trim(Append(rollbackStack, activeId))
      BY <1>6, <2>1, <2>4, Zenon DEF ActivateCandidate
    <3>2. candState[c] \notin Promoted
      BY <2>4, Zenon DEF TransitionAllowed, Promoted
    <3>3. /\ candState' \in [Candidates -> CandidateState \cup {"NONE"}]
          /\ candState'[c] \in Promoted
          /\ \A d \in Candidates : candState[d] \in Promoted => candState'[d] \in Promoted
      BY <1>0, <3>1, Zenon DEF Promoted, CandidateState
    <3>4. StackFits(rollbackStack, c, candState') /\ StackFits(rollbackStack, activeId, candState')
      BY <1>0, <3>2, <3>3, Zenon DEF KernelInv, StackFits
    <3>5. /\ rollbackStack' \in Seq(Candidates) /\ Len(rollbackStack') <= RollbackStackCapacity
          /\ StackFits(rollbackStack', c, candState')
      <4>1. CASE activeId \in {NoCandidate, c}
        BY <1>0, <3>1, <3>4, <4>1, Zenon
      <4>2. CASE activeId \notin {NoCandidate, c}
        <5>1. activeId \in Candidates /\ activeId # c /\ candState'[activeId] \in Promoted
          BY <1>0, <3>3, <4>2, Zenon DEF KernelInv
        <5> QED BY <1>0, <3>1, <3>4, <4>2, <5>1, PushFits, Zenon
      <4> QED BY <4>1, <4>2, Zenon
    <3> QED BY <2>2, <3>1, <3>3, <3>5, Zenon DEF KernelInv
  <2> QED BY <2>3, <2>4, Zenon
<1>7. ASSUME NEW c \in Candidates, RollbackCandidate(c) PROVE KernelInv'
  <2>1. PICK n : n = Len(rollbackStack)
    BY Zenon
  <2>2. n \in Nat /\ n # 0
    BY <1>0, <1>7, <2>1 DEF RollbackCandidate
  <2>3. /\ activeId = c /\ activeId' = rollbackStack[n] /\ candState' = [candState EXCEPT ![c] = "ROLLBACK"]
        /\ rollbackStack' = SubSeq(rollbackStack, 1, n - 1) /\ installing' = installing
    BY <1>7, <2>1, ZenonT(40) DEF RollbackCandidate, Transition
  <2>4. /\ \A j \in 1..n : candState'[rollbackStack[j]] \in Promoted
        /\ \A j \in 1..(n - 1) : rollbackStack[j] # rollbackStack[n]
    <3>1. \A j \in 1..n : /\ rollbackStack[j] # c /\ candState[rollbackStack[j]] \in Promoted
                         /\ candState'[rollbackStack[j]] = candState[rollbackStack[j]]
      BY <1>0, <2>1, <2>3, ZenonT(40) DEF KernelInv, StackFits
    <3>2. \A i, j \in 1..n : rollbackStack[i] = rollbackStack[j] => i = j
      BY <2>1, Zenon DEF KernelInv, StackFits
    <3>3. n \in 1..n /\ \A j \in 1..(n - 1) : j \in 1..n /\ j # n
      BY <2>2, BeforeLast, Zenon
    <3> QED BY <3>1, <3>2, <3>3, Zenon
  <2>5. SubSeq(rollbackStack, 1, n - 1) \in Seq(Candidates)
        /\ StackFits(SubSeq(rollbackStack, 1, n - 1), c, candState)
    BY <1>0, <2>1, <2>2, <2>3, PartFits, SMTT(30) DEF KernelInv
  <2>6. /\ Len(rollbackStack') = n - 1
        /\ \A j \in 1..(n - 1) : rollbackStack'[j] = rollbackStack[j]
    BY <1>0, <2>1, <2>2, <2>3, SMTT(30)
  <2>7. StackFits(rollbackStack', activeId', candState')
    <3>1. \A i, j \in 1..(n - 1) : rollbackStack'[i] = rollbackStack'[j] => i = j
      BY <2>3, <2>5, <2>6, Zenon DEF StackFits
    <3>2. \A i \in 1..(n - 1) : i \in 1..n
      BY <2>2, BeforeLast, Zenon
    <3>3. \A i \in 1..(n - 1) : /\ rollbackStack'[i] # activeId'
                               /\ candState'[rollbackStack'[i]] \in Promoted
      BY <2>3, <2>4, <2>6, <3>2, Zenon
    <3> QED BY <2>6, <3>1, <3>3, Zenon DEF StackFits
  <2>8. candState' \in [Candidates -> CandidateState \cup {"NONE"}]
    BY <1>0, <2>3, Zenon DEF CandidateState
  <2>9. activeId' \in Candidates /\ candState'[activeId'] \in Promoted
    BY <1>0, <2>1, <2>2, <2>3, <2>4, SMTT(30)
  <2>10. Len(rollbackStack') <= RollbackStackCapacity
    BY <1>0, <2>1, <2>2, <2>6
  <2> QED BY <1>0, <2>3, <2>5, <2>7, <2>8, <2>9, <2>10, Zenon DEF KernelInv
<1>8. CASE UNCHANGED kernelVars
  BY <1>8, Zenon DEF kernelVars, KernelInv
<1> QED BY <1>2, <1>3, <1>4, <1>5, <1>6, <1>7, <1>8, Zenon DEF KernelNext

\* The rollback stack is the history of slot A for every capacity, every set of
\* candidates and any number of installers, and keeps to the capacity (kernel_pipeline.rs).
THEOREM SlotHistorySound == KernelSpec => [](KernelTypeOK /\ RollbackStackSound)
<1>1. KernelInit => KernelInv
  BY KernelAssumption DEF KernelInit, KernelInv, StackFits, CandidateState
<1>2. KernelInv => RollbackStackSound
  <2> SUFFICES ASSUME KernelInv PROVE RollbackStackSound
    BY Zenon
  <2>1. rollbackStack \in Seq(Candidates) /\ DOMAIN rollbackStack = 1..Len(rollbackStack)
        /\ Len(rollbackStack) \in Nat
    BY DEF KernelInv
  <2>2. StackSet = {rollbackStack[k] : k \in 1..Len(rollbackStack)}
    BY <2>1, Zenon DEF StackSet
  <2>3. \A c \in StackSet : c # activeId /\ candState[c] \in Promoted
    BY <2>2, Zenon DEF KernelInv, StackFits
  <2>4. \A i, j \in DOMAIN rollbackStack : rollbackStack[i] = rollbackStack[j] => i = j
    BY <2>1, Zenon DEF KernelInv, StackFits
  <2> QED BY <2>3, <2>4, Zenon DEF KernelInv, RollbackStackSound, Promoted
<1>3. KernelInv => KernelTypeOK
  BY Zenon DEF KernelInv, KernelTypeOK
<1> QED BY <1>1, <1>2, <1>3, KernelInductive, PTL DEF KernelSpec

--------------------------------------------------------------------------------
(* First boot.                                                                     *)

StageStatuses == {"SUCCESS", "SKIPPED", "FAILED"}

\* A failed boot has the marks of the failure from phase n on.
FailedFrom(n, phases, statuses) ==
    /\ n < Len(phases)
    /\ \A k \in 1..Len(phases) : /\ phases[k] = (IF k <= n THEN k ELSE FailedPhase)
                                 /\ statuses[k] = "FAILED" <=> k >= n

BootInv ==
    /\ performed \in Seq(Nat) /\ stageStatus \in Seq(StageStatuses)
    /\ Len(stageStatus) = Len(performed)
    /\ bootStatus # "FAILED" =>
          /\ Len(performed) <= NPhases
          /\ \A k \in 1..Len(performed) : performed[k] = k /\ stageStatus[k] # "FAILED"
    /\ bootStatus = "COMPLETED" => Len(performed) = NPhases
    /\ bootStatus = "FAILED" => \E n \in 1..NPhases : FailedFrom(n, performed, stageStatus)

\* What record_stage leaves: the old stages, then the new ones with their status.
LEMMA RecordAppends ==
    ASSUME NEW phases \in Seq(Nat), NEW status \in StageStatuses, BootInv, Record(phases, status)
    PROVE  /\ performed' \in Seq(Nat) /\ stageStatus' \in Seq(StageStatuses)
           /\ Len(performed') = Len(performed) + Len(phases)
           /\ Len(stageStatus') = Len(performed')
           /\ \A k \in 1..Len(performed) : performed'[k] = performed[k] /\ stageStatus'[k] = stageStatus[k]
           /\ \A k \in 1..Len(phases) : /\ performed'[Len(performed) + k] = phases[k]
                                        /\ stageStatus'[Len(performed) + k] = status
<1>1. performed \in Seq(Nat) /\ stageStatus \in Seq(StageStatuses) /\ Len(stageStatus) = Len(performed)
  BY Zenon DEF BootInv
<1>2. PICK marks : marks = [k \in 1..Len(phases) |-> status]
  BY Zenon
<1>3. Len(phases) \in Nat /\ DOMAIN phases = 1..Len(phases)
  OBVIOUS
<1>4. marks \in Seq(StageStatuses) /\ Len(marks) = Len(phases)
      /\ \A k \in 1..Len(phases) : marks[k] = status
  BY <1>2, <1>3
<1>5. performed' = performed \o phases /\ stageStatus' = stageStatus \o marks
  BY <1>2, <1>3, Zenon DEF Record
<1>6. /\ performed' \in Seq(Nat) /\ stageStatus' \in Seq(StageStatuses)
      /\ Len(performed') = Len(performed) + Len(phases)
      /\ Len(stageStatus') = Len(performed')
  <2>1. performed' \in Seq(Nat) /\ Len(performed') = Len(performed) + Len(phases)
    BY <1>1, <1>3, <1>5
  <2>2. stageStatus' \in Seq(StageStatuses)
    BY <1>1, <1>4, <1>5, ConcatProperties, Zenon
  <2>3. Len(stageStatus') = Len(stageStatus) + Len(marks)
    BY <1>1, <1>4, <1>5, ConcatProperties, Zenon
  <2> QED BY <1>1, <1>4, <2>1, <2>2, <2>3, Zenon
<1>7. /\ \A k \in 1..Len(performed) : performed'[k] = performed[k]
      /\ \A k \in 1..Len(phases) : performed'[Len(performed) + k] = phases[k]
  <2>1. JoinedAt(performed, phases)
    BY <1>1, Joined, Zenon
  <2> QED BY <1>5, <2>1, Zenon DEF JoinedAt
<1>8. /\ \A k \in 1..Len(performed) : stageStatus'[k] = stageStatus[k]
      /\ \A k \in 1..Len(phases) : stageStatus'[Len(performed) + k] = status
  <2>1. JoinedAt(stageStatus, marks)
    BY <1>1, <1>4, Joined, Zenon
  <2>2. Len(stageStatus) = Len(performed)
    BY <1>1, Zenon
  <2> QED BY <1>4, <1>5, <2>1, <2>2, Zenon DEF JoinedAt
<1> QED BY <1>6, <1>7, <1>8, Zenon

\* Recording the next phases in order keeps BootInv in a boot that has not failed.
LEMMA InOrderKeeps ==
    ASSUME BootInv, bootStatus # "FAILED", NEW phases \in Seq(Nat), NEW status \in {"SUCCESS", "SKIPPED"},
           Record(phases, status), Len(performed) + Len(phases) <= NPhases,
           \A k \in 1..Len(phases) : phases[k] = Len(performed) + k,
           bootStatus' # "FAILED", bootStatus' = "COMPLETED" => Len(performed) + Len(phases) = NPhases
    PROVE  BootInv'
<1>1. status \in StageStatuses /\ status # "FAILED"
  BY Zenon DEF StageStatuses
<1>2. /\ performed' \in Seq(Nat) /\ stageStatus' \in Seq(StageStatuses)
      /\ Len(performed') = Len(performed) + Len(phases)
      /\ Len(stageStatus') = Len(performed')
      /\ \A k \in 1..Len(performed) : performed'[k] = performed[k] /\ stageStatus'[k] = stageStatus[k]
      /\ \A k \in 1..Len(phases) : /\ performed'[Len(performed) + k] = phases[k]
                                   /\ stageStatus'[Len(performed) + k] = status
  BY <1>1, RecordAppends, Zenon
<1>3. /\ Len(performed) \in Nat /\ Len(phases) \in Nat
      /\ \A k \in 1..Len(performed) : performed[k] = k /\ stageStatus[k] # "FAILED"
  BY DEF BootInv
<1>4. ASSUME NEW k \in 1..Len(performed') PROVE performed'[k] = k /\ stageStatus'[k] # "FAILED"
  <2>1. CASE k <= Len(performed)
    <3>1. k \in 1..Len(performed)
      BY <1>2, <1>3, <2>1
    <3>2. performed'[k] = performed[k] /\ stageStatus'[k] = stageStatus[k]
      BY <1>2, <3>1, Zenon
    <3> QED BY <1>3, <3>1, <3>2, Zenon
  <2>2. CASE k > Len(performed)
    <3>1. PICK j \in 1..Len(phases) : k = Len(performed) + j
      <4>1. k - Len(performed) \in 1..Len(phases) /\ k = Len(performed) + (k - Len(performed))
        BY <1>2, <1>3, <2>2
      <4> QED BY <4>1, Zenon
    <3> QED BY <1>1, <1>2, <3>1, Zenon
  <2> QED BY <1>2, <1>3, <2>1, <2>2
<1> QED BY <1>2, <1>4, Zenon DEF BootInv

\* BootInv is inductive: every driver records the phase that is next under the lock.
LEMMA BootInductive == BootInv /\ [FirstBootNext]_firstBootVars => BootInv'
<1> SUFFICES ASSUME BootInv, [FirstBootNext]_firstBootVars PROVE BootInv'
  BY Zenon
<1>0. /\ performed \in Seq(Nat) /\ Len(performed) \in Nat
      /\ bootStatus # "FAILED" => Len(performed) <= NPhases
      /\ NPhases \in Nat /\ NPhases >= 1
  BY PhasesAssumption DEF BootInv
<1>1. ASSUME UNCHANGED <<bootStatus, performed, stageStatus>> PROVE BootInv'
  BY <1>1, Zenon DEF BootInv
<1>2. ASSUME NEW k \in Len(performed)..NPhases, bootStatus \notin Terminal,
             Record(PhasesUpTo(k), "SUCCESS"), bootStatus' # "FAILED",
             bootStatus' = "COMPLETED" => k = NPhases
      PROVE  BootInv'
  <2>1. PICK phases : phases = PhasesUpTo(k)
    BY Zenon
  <2>2. /\ phases \in Seq(Nat) /\ Len(phases) = k - Len(performed)
        /\ \A j \in 1..Len(phases) : phases[j] = Len(performed) + j
    BY <1>0, <2>1 DEF PhasesUpTo
  <2>3. Len(performed) + Len(phases) = k /\ k <= NPhases
    BY <1>0, <2>2
  <2>4. bootStatus # "FAILED" /\ "SUCCESS" \in {"SUCCESS", "SKIPPED"} /\ Record(phases, "SUCCESS")
    BY <1>2, <2>1, Zenon DEF Terminal
  <2>5. Len(performed) + Len(phases) <= NPhases
        /\ (bootStatus' = "COMPLETED" => Len(performed) + Len(phases) = NPhases)
    BY <1>2, <2>3, Zenon
  <2> QED BY <1>2, <2>2, <2>4, <2>5, InOrderKeeps, Zenon
<1>3. ASSUME NEW p \in Provisioners, RunProvisioning(p) PROVE BootInv'
  <2>1. CASE bootStatus \in Terminal /\ UNCHANGED <<bootStatus, performed, stageStatus>>
    BY <1>1, <2>1, Zenon
  <2>2. CASE /\ bootStatus \notin Terminal
             /\ \E k \in Len(performed)..NPhases : Record(PhasesUpTo(k), "SUCCESS")
             /\ bootStatus' = "IN_PROGRESS"
    BY <1>2, <2>2, Zenon
  <2>3. CASE /\ bootStatus \notin Terminal /\ Len(performed) < NPhases
             /\ Record(PhasesUpTo(NPhases), "SUCCESS") /\ bootStatus' = "COMPLETED"
    <3>1. NPhases \in Len(performed)..NPhases
      BY <1>0, <2>3
    <3> QED BY <1>2, <2>3, <3>1, Zenon
  <2> QED BY <1>3, <2>1, <2>2, <2>3, Zenon DEF RunProvisioning
\* One phase recorded by mark_complete or skip_stage is the next one.
<1>4. ASSUME NEW phase \in 1..NPhases, phase = NextPhase, NEW status \in {"SUCCESS", "SKIPPED"},
             Record(<<phase>>, status), bootStatus' # "FAILED",
             bootStatus' = "COMPLETED" => phase = NPhases \/ bootStatus = "COMPLETED"
      PROVE  BootInv'
  <2>1. bootStatus # "FAILED" /\ Len(performed) < NPhases /\ phase = Len(performed) + 1
    BY <1>0, <1>4 DEF NextPhase, FailedPhase
  <2>2. bootStatus # "COMPLETED"
    BY <1>0, <2>1 DEF BootInv
  <2>3. /\ <<phase>> \in Seq(Nat) /\ Len(<<phase>>) = 1
        /\ \A j \in 1..Len(<<phase>>) : <<phase>>[j] = Len(performed) + j
    BY <1>0, <2>1
  <2>4. Len(performed) + Len(<<phase>>) <= NPhases
        /\ (bootStatus' = "COMPLETED" => Len(performed) + Len(<<phase>>) = NPhases)
    BY <1>0, <1>4, <2>1, <2>2, <2>3
  <2> QED BY <1>4, <2>1, <2>3, <2>4, InOrderKeeps, Zenon
<1>5. ASSUME NEW p \in Provisioners, MarkComplete(p) PROVE BootInv'
  <2>1. CASE NextPhase = NPhases /\ bootStatus # "COMPLETED"
    <3>1. bootStatus # "FAILED"
      BY <1>0, <2>1 DEF NextPhase, FailedPhase
    <3>2. Record(<<NPhases>>, "SUCCESS") /\ bootStatus' \in {bootStatus, "COMPLETED"} /\ NPhases \in 1..NPhases
      BY <1>0, <1>5, <2>1 DEF MarkComplete
    <3> QED BY <1>4, <2>1, <3>1, <3>2, Zenon
  <2> QED BY <1>1, <1>5, <2>1, Zenon DEF MarkComplete
<1>6. ASSUME NEW phase \in 1..FailedPhase, SkipStage(phase) PROVE BootInv'
  <2>1. phase \in 1..NPhases
    BY <1>0, <1>6 DEF SkipStage, FailedPhase
  <2>2. phase = NextPhase /\ Record(<<phase>>, "SKIPPED") /\ bootStatus' = "IN_PROGRESS"
    BY <1>6, Zenon DEF SkipStage
  <2> QED BY <1>4, <2>1, <2>2, Zenon
<1>7. ASSUME NEW phase \in 1..FailedPhase, FailStage(phase) PROVE BootInv'
  <2>1. phase = NextPhase /\ Record(<<phase, FailedPhase>>, "FAILED") /\ bootStatus' = "FAILED"
    BY <1>7, Zenon DEF FailStage
  <2>2. PICK phases : phases = <<phase, FailedPhase>>
    BY Zenon
  <2>3. /\ phases \in Seq(Nat) /\ Len(phases) = 2 /\ phases[1] = phase /\ phases[2] = FailedPhase
        /\ FailedPhase \in Nat /\ FailedPhase = NPhases + 1
    BY <1>0, <2>2 DEF FailedPhase
  <2>4. PICK len : len = Len(performed)
    BY Zenon
  <2>5. /\ performed' \in Seq(Nat) /\ stageStatus' \in Seq(StageStatuses)
        /\ Len(performed') = len + 2 /\ Len(stageStatus') = Len(performed')
        /\ \A k \in 1..len : performed'[k] = performed[k] /\ stageStatus'[k] = stageStatus[k]
        /\ performed'[len + 1] = phase /\ performed'[len + 2] = FailedPhase
        /\ stageStatus'[len + 1] = "FAILED" /\ stageStatus'[len + 2] = "FAILED"
    <3>1. Record(phases, "FAILED") /\ "FAILED" \in StageStatuses
      BY <2>1, <2>2, Zenon DEF StageStatuses
    <3>2. /\ performed' \in Seq(Nat) /\ stageStatus' \in Seq(StageStatuses)
          /\ Len(performed') = len + Len(phases) /\ Len(stageStatus') = Len(performed')
          /\ \A k \in 1..len : performed'[k] = performed[k] /\ stageStatus'[k] = stageStatus[k]
          /\ \A k \in 1..Len(phases) : /\ performed'[len + k] = phases[k]
                                       /\ stageStatus'[len + k] = "FAILED"
      BY <2>3, <2>4, <3>1, RecordAppends, ZenonT(60)
    <3>3. 1 \in 1..Len(phases) /\ 2 \in 1..Len(phases)
      BY <2>3
    <3> QED BY <2>3, <3>2, <3>3, Zenon
  <2>6. len \in Nat /\ \A k \in 1..Len(performed') : k \in 1..len \/ k = len + 1 \/ k = len + 2
    BY <1>0, <2>4, <2>5
  <2>7. \E n \in 1..NPhases : FailedFrom(n, performed', stageStatus')
    <3>1. CASE bootStatus = "FAILED"
      <4>1. PICK n \in 1..NPhases : FailedFrom(n, performed, stageStatus)
        BY <3>1, Zenon DEF BootInv
      <4>2. phase = FailedPhase
        BY <2>1, <3>1, Zenon DEF NextPhase
      <4>3. n < len /\ \A k \in 1..len : /\ performed[k] = (IF k <= n THEN k ELSE FailedPhase)
                                         /\ stageStatus[k] = "FAILED" <=> k >= n
        BY <2>4, <4>1, Zenon DEF FailedFrom
      <4>4. ASSUME NEW k \in 1..Len(performed')
            PROVE  /\ performed'[k] = (IF k <= n THEN k ELSE FailedPhase)
                   /\ stageStatus'[k] = "FAILED" <=> k >= n
        <5>1. CASE k \in 1..len
          BY <2>5, <4>3, <5>1, Zenon
        <5>2. CASE k \in {len + 1, len + 2}
          <6>1. k > n
            BY <2>6, <4>1, <4>3, <5>2, SMTT(30)
          <6>2. performed'[k] = FailedPhase /\ stageStatus'[k] = "FAILED"
            BY <2>5, <4>2, <5>2, Zenon
          <6> QED BY <2>6, <6>1, <6>2
        <5> QED BY <2>6, <5>1, <5>2, Zenon
      <4>5. FailedFrom(n, performed', stageStatus')
        BY <2>5, <2>6, <4>3, <4>4 DEF FailedFrom
      <4> QED BY <4>5, Zenon
    <3>2. CASE bootStatus # "FAILED"
      <4>1. phase = len + 1 /\ phase \in 1..NPhases
        BY <1>0, <2>1, <2>3, <2>4, <3>2, SMTT(30) DEF NextPhase
      <4>2. \A k \in 1..len : performed[k] = k /\ stageStatus[k] # "FAILED"
        BY <2>4, <3>2, Zenon DEF BootInv
      <4>3. ASSUME NEW k \in 1..Len(performed')
            PROVE  /\ performed'[k] = (IF k <= phase THEN k ELSE FailedPhase)
                   /\ stageStatus'[k] = "FAILED" <=> k >= phase
        <5>1. CASE k \in 1..len
          <6>1. k <= phase /\ ~(k >= phase)
            BY <2>6, <4>1, <5>1
          <6>2. performed'[k] = k /\ stageStatus'[k] # "FAILED"
            BY <2>5, <4>2, <5>1, Zenon
          <6> QED BY <6>1, <6>2, Zenon
        <5>2. CASE k = len + 1
          BY <2>5, <2>6, <4>1, <5>2
        <5>3. CASE k = len + 2
          BY <2>5, <2>6, <4>1, <5>3
        <5> QED BY <2>6, <5>1, <5>2, <5>3, Zenon
      <4>4. FailedFrom(phase, performed', stageStatus')
        BY <2>5, <2>6, <4>1, <4>3 DEF FailedFrom
      <4> QED BY <4>1, <4>4, Zenon
    <3> QED BY <3>1, <3>2, Zenon
  <2> QED BY <2>1, <2>5, <2>7, Zenon DEF BootInv
<1>8. ASSUME NEW p \in Provisioners, NEW c \in {"run", "mark"}, CheckRecovery(p, c) PROVE BootInv'
  BY <1>1, <1>8, Zenon DEF CheckRecovery
<1>9. CASE UNCHANGED firstBootVars
  BY <1>1, <1>9, Zenon DEF firstBootVars
<1> QED BY <1>3, <1>5, <1>6, <1>7, <1>8, <1>9, Zenon DEF FirstBootNext

\* Stages are accounted in order, and a boot that ended stays ended, for any number
\* of phases, of drivers and of records (first_boot.rs).
THEOREM ProvisioningInOrder ==
    FirstBootSpec => [](FirstBootTypeOK /\ StagesInOrder) /\ BootOutcomeFinal
<1>1. FirstBootInit => BootInv /\ FirstBootTypeOK
  BY PhasesAssumption DEF FirstBootInit, BootInv, FirstBootTypeOK
<1>2. BootInv => StagesInOrder
  <2> SUFFICES ASSUME BootInv PROVE StagesInOrder
    BY Zenon
  <2>1. /\ Len(performed) \in Nat /\ NPhases \in Nat /\ Len(stageStatus) = Len(performed)
        /\ DOMAIN performed = 1..Len(performed) /\ DOMAIN stageStatus = 1..Len(performed)
    BY PhasesAssumption DEF BootInv
  <2>2. CASE bootStatus = "FAILED"
    <3>1. PICK n \in 1..NPhases : FailedFrom(n, performed, stageStatus)
      BY <2>2, Zenon DEF BootInv
    <3>2. n \in 0..NPhases /\ n \in 1..Len(performed)
      BY <2>1, <3>1 DEF FailedFrom
    <3>3. \A k \in DOMAIN performed : /\ performed[k] = (IF k <= n THEN k ELSE FailedPhase)
                                      /\ k < n => stageStatus[k] # "FAILED"
      BY <2>1, <3>1 DEF FailedFrom
    <3>4. stageStatus[n] = "FAILED"
      BY <2>1, <3>1, <3>2 DEF FailedFrom
    <3> QED BY <2>1, <2>2, <3>2, <3>3, <3>4, Zenon DEF StagesInOrder
  <2>3. CASE bootStatus # "FAILED"
    <3>1. /\ Len(performed) <= NPhases
          /\ \A k \in 1..Len(performed) : performed[k] = k /\ stageStatus[k] # "FAILED"
          /\ bootStatus = "COMPLETED" => Len(performed) = NPhases
      BY <2>3, Zenon DEF BootInv
    <3>2. \A k \in DOMAIN performed : /\ performed[k] = (IF k <= NPhases THEN k ELSE FailedPhase)
                                      /\ k < NPhases => stageStatus[k] # "FAILED"
      <4>1. PICK len \in Nat : len = Len(performed) /\ len <= NPhases
        BY <2>1, <3>1, Zenon
      <4>2. \A k \in 1..len : k <= NPhases
        BY <2>1, <4>1
      <4>3. \A k \in 1..Len(performed) : k <= NPhases
        BY <4>1, <4>2, Zenon
      <4> QED BY <2>1, <3>1, <4>3, Zenon
    <3>3. NPhases \in 0..NPhases /\ \A k \in DOMAIN stageStatus : stageStatus[k] # "FAILED"
      <4>1. NPhases \in 0..NPhases
        BY <2>1
      <4> QED BY <2>1, <3>1, <4>1, Zenon
    <3> QED BY <2>3, <3>1, <3>2, <3>3, Zenon DEF StagesInOrder
  <2> QED BY <2>2, <2>3, Zenon
<1>3. BootInv /\ [FirstBootNext]_firstBootVars =>
         /\ bootStatus \in Terminal => bootStatus' = bootStatus
         /\ bootStatus = "COMPLETED" => UNCHANGED performed
  <2> SUFFICES ASSUME BootInv, [FirstBootNext]_firstBootVars, bootStatus \in Terminal
               PROVE  bootStatus' = bootStatus /\ (bootStatus = "COMPLETED" => performed' = performed)
    BY Zenon DEF Terminal
  <2>1. /\ NPhases \in Nat /\ NPhases >= 1
        /\ bootStatus = "FAILED" => NextPhase = NPhases + 1
        /\ bootStatus = "COMPLETED" => NextPhase = 0
    BY PhasesAssumption DEF BootInv, NextPhase, FailedPhase
  <2>2. ASSUME NEW p \in Provisioners, RunProvisioning(p)
        PROVE  UNCHANGED <<bootStatus, performed>>
    BY <2>2, Zenon DEF RunProvisioning
  <2>3. ASSUME NEW p \in Provisioners, MarkComplete(p)
        PROVE  UNCHANGED <<bootStatus, performed>>
    <3>1. NextPhase # NPhases
      BY <2>1 DEF Terminal
    <3> QED BY <2>3, <3>1, Zenon DEF MarkComplete
  <2>4. ASSUME NEW phase \in 1..FailedPhase, SkipStage(phase) \/ FailStage(phase)
        PROVE  bootStatus = "FAILED" /\ bootStatus' = "FAILED"
    <3>1. phase = NextPhase /\ phase # 0
      BY <2>1, <2>4 DEF SkipStage, FailStage, FailedPhase
    <3>2. bootStatus = "FAILED" /\ phase = FailedPhase
      BY <2>1, <3>1, Zenon DEF Terminal, FailedPhase
    <3> QED BY <2>4, <3>2, Zenon DEF SkipStage, FailStage
  <2>5. ASSUME NEW p \in Provisioners, NEW c \in {"run", "mark"}, CheckRecovery(p, c)
        PROVE  UNCHANGED <<bootStatus, performed>>
    BY <2>5, Zenon DEF CheckRecovery
  <2> QED BY <2>2, <2>3, <2>4, <2>5, Zenon DEF FirstBootNext, firstBootVars
<1>4. FirstBootTypeOK /\ BootInv' /\ [FirstBootNext]_firstBootVars => FirstBootTypeOK'
  <2> SUFFICES ASSUME FirstBootTypeOK, BootInv', [FirstBootNext]_firstBootVars PROVE FirstBootTypeOK'
    BY Zenon
  <2>1. /\ performed' \in Seq(Nat) /\ stageStatus' \in Seq({"SUCCESS", "SKIPPED", "FAILED"})
        /\ Len(performed') = Len(stageStatus')
    BY Zenon DEF BootInv, StageStatuses
  <2>2. bootStatus' \in {"NOT_STARTED", "IN_PROGRESS"} \union Terminal
    BY Zenon DEF FirstBootTypeOK, FirstBootNext, firstBootVars, CheckRecovery, RunProvisioning, MarkComplete,
           SkipStage, FailStage, Terminal
  <2>3. provPc' \in [Provisioners -> {"idle", "run", "mark"}]
    BY Zenon DEF FirstBootTypeOK, FirstBootNext, firstBootVars, CheckRecovery, RunProvisioning, MarkComplete,
           SkipStage, FailStage
  <2> QED BY <2>1, <2>2, <2>3, Zenon DEF FirstBootTypeOK
<1> QED BY <1>1, <1>2, <1>3, <1>4, BootInductive, PTL DEF FirstBootSpec, BootOutcomeFinal

--------------------------------------------------------------------------------
(* Self-healing.                                                                   *)

HealAction == [c : Components \cup {NoComponent}, kind : Kinds]
CycleFields == {"at", "left", "cur", "todo", "health", "failures"}

\* The kinds of action that decide_for_component may choose for the component.
Fit(action) ==
    action.c \in Components /\ isolation[action.c] = "CRITICAL" => action.kind \in {"NONE", "ESCALATE"}

HealInv ==
    /\ DOMAIN cycle = CycleFields
    /\ cycle.cur \in HealAction /\ Fit(cycle.cur)
    /\ cycle.todo \in Seq(HealAction)
    /\ \A k \in 1..Len(cycle.todo) : Fit(cycle.todo[k]) /\ cycle.todo[k].kind # "NONE"

\* HealInv is inductive: the level of a component never changes after it is
\* configured, and an action is executed as it was decided.
LEMMA HealInductive == HealInv /\ [HealNext]_healVars => HealInv'
<1> SUFFICES ASSUME HealInv, [HealNext]_healVars PROVE HealInv'
  BY Zenon
<1> USE DEF HealInv
<1>0. isolation' = isolation
  BY Zenon DEF HealNext, healVars, SetPolicy, TrackObservation, ObserveHealth, PingWatchdog, DeadlinePasses,
         RegisterCommandChannel, DropCommandChannel, StartCycle, CycleStep, ComponentAnswers,
         TrackExpired, Evaluate, SnapshotRegistries, NextAction, ExecuteHeal, FlagExpired, DecideForComponent
<1>1. ASSUME cycle' = cycle PROVE HealInv'
  BY <1>0, <1>1, Zenon DEF Fit
<1>2. NoAction \in HealAction /\ Fit(NoAction)
      /\ \A c \in Components : [NoAction EXCEPT !.c = c] \in HealAction /\ Fit([NoAction EXCEPT !.c = c])
  BY Zenon DEF NoAction, HealAction, Kinds, Fit
\* A cycle that keeps its actions, or drops the current one, or starts over.
<1>3. ASSUME DOMAIN cycle' = CycleFields, cycle'.todo \in {cycle.todo, <<>>},
             cycle'.cur \in {cycle.cur, NoAction} \cup {[NoAction EXCEPT !.c = c] : c \in Components}
      PROVE  HealInv'
  <2>1. cycle'.cur \in HealAction /\ Fit(cycle'.cur)
    BY <1>2, <1>3, Zenon
  <2>2. cycle'.todo \in Seq(HealAction)
        /\ \A k \in 1..Len(cycle'.todo) : Fit(cycle'.todo[k]) /\ cycle'.todo[k].kind # "NONE"
    <3>1. CASE cycle'.todo = cycle.todo
      BY <3>1, Zenon
    <3>2. CASE cycle'.todo = <<>>
      BY <3>2, SMTT(30)
    <3> QED BY <1>3, <3>1, <3>2, Zenon
  <2> QED BY <1>0, <1>3, <2>1, <2>2, Zenon DEF Fit
<1>4. DOMAIN IdleCycle = CycleFields /\ IdleCycle.cur = NoAction /\ IdleCycle.todo = <<>>
  BY Zenon DEF IdleCycle, CycleFields
<1>5. CASE StartCycle
  BY <1>3, <1>5, Zenon DEF StartCycle, CycleFields
<1>6. ASSUME NEW c \in Components, FlagExpired(c) PROVE HealInv'
  BY <1>3, <1>6, Zenon DEF FlagExpired, CycleFields
<1>7. CASE TrackExpired
  BY <1>3, <1>7, Zenon DEF TrackExpired, CycleFields
<1>8. CASE Evaluate
  <2>1. CASE cycle' = IdleCycle
    BY <1>3, <1>4, <2>1, Zenon
  <2>2. CASE cycle' = [cycle EXCEPT !.at = "snapshot"]
    BY <1>3, <2>2, Zenon DEF CycleFields
  <2> QED BY <1>8, <2>1, <2>2, Zenon DEF Evaluate
<1>9. CASE SnapshotRegistries
  BY <1>3, <1>9, Zenon DEF SnapshotRegistries, CycleFields
<1>10. CASE ExecuteHeal
  <2>1. CASE cycle' = [cycle EXCEPT !.at = "await"]
    BY <1>3, <2>1, Zenon DEF CycleFields
  <2>2. CASE cycle' = [cycle EXCEPT !.at = "decide", !.cur = NoAction]
    BY <1>3, <2>2, Zenon DEF CycleFields
  <2> QED BY <1>10, <2>1, <2>2, Zenon DEF ExecuteHeal
<1>11. CASE ComponentAnswers
  BY <1>3, <1>11, Zenon DEF ComponentAnswers, CycleFields
<1>12. ASSUME NEW c \in Components, DecideForComponent(c) PROVE HealInv'
  <2>1. PICK action : action = [c |-> c, kind |-> Decision(c, cycle.health[c], cycle.failures[c])]
    BY Zenon
  <2>2. action \in HealAction /\ action.kind # "NONE" /\ Fit(action)
    BY <2>1, Zenon DEF HealAction, Kinds, Fit, Decision
  <2>3. DOMAIN cycle' = CycleFields /\ cycle'.cur = cycle.cur
        /\ (cycle'.todo = cycle.todo \/ cycle'.todo = Append(cycle.todo, action))
    BY <1>12, <2>1, Zenon DEF DecideForComponent, CycleFields
  <2>4. cycle'.todo \in Seq(HealAction)
        /\ \A k \in 1..Len(cycle'.todo) : Fit(cycle'.todo[k]) /\ cycle'.todo[k].kind # "NONE"
    <3>1. CASE cycle'.todo = cycle.todo
      BY <3>1, Zenon
    <3>2. CASE cycle'.todo = Append(cycle.todo, action)
      <4>1. /\ cycle'.todo \in Seq(HealAction) /\ Len(cycle'.todo) = Len(cycle.todo) + 1
            /\ Len(cycle.todo) \in Nat /\ cycle'.todo[Len(cycle.todo) + 1] = action
            /\ \A k \in 1..Len(cycle.todo) : cycle'.todo[k] = cycle.todo[k]
        BY <2>2, <3>2
      <4>2. \A k \in 1..Len(cycle'.todo) : k \in 1..Len(cycle.todo) \/ k = Len(cycle.todo) + 1
        BY <4>1
      <4>3. ASSUME NEW k \in 1..Len(cycle'.todo)
            PROVE  Fit(cycle'.todo[k]) /\ cycle'.todo[k].kind # "NONE"
        <5>1. CASE k \in 1..Len(cycle.todo)
          <6>1. cycle'.todo[k] = cycle.todo[k]
            BY <4>1, <5>1, Zenon
          <6> QED BY <2>2, <5>1, <6>1, Zenon
        <5>2. CASE k = Len(cycle.todo) + 1
          <6>1. cycle'.todo[k] = action
            BY <4>1, <5>2, Zenon
          <6> QED BY <2>2, <3>2, <6>1, Zenon
        <5> QED BY <4>2, <5>1, <5>2, Zenon
      <4> QED BY <4>1, <4>3, Zenon
    <3> QED BY <2>3, <3>1, <3>2, Zenon
  <2> QED BY <1>0, <2>3, <2>4, Zenon DEF Fit
<1>13. CASE NextAction
  <2>1. CASE cycle' = IdleCycle
    BY <1>3, <1>4, <2>1, Zenon
  <2>2. CASE cycle.todo # <<>> /\ cycle' # IdleCycle
    <3>1. DOMAIN cycle' = CycleFields /\ cycle'.cur = Head(cycle.todo) /\ cycle'.todo = Tail(cycle.todo)
      BY <1>13, <2>2, Zenon DEF NextAction, CycleFields
    <3>2. PICK todo \in Seq(HealAction) : todo = cycle.todo
      BY Zenon
    <3>3. todo # <<>> /\ Head(todo) = todo[1] /\ 1 \in 1..Len(todo) /\ Tail(todo) \in Seq(HealAction)
      BY <2>2, <3>2
    <3>4. Len(Tail(todo)) = Len(todo) - 1 /\ Len(todo) \in Nat
          /\ \A k \in 1..Len(Tail(todo)) : Tail(todo)[k] = todo[k + 1] /\ k + 1 \in 1..Len(todo)
      BY <3>3, SMTT(30)
    <3>5. cycle'.cur \in HealAction /\ Fit(cycle'.cur)
      BY <3>1, <3>2, <3>3, SMTT(30)
    <3>6. \A k \in 1..Len(Tail(todo)) : Fit(Tail(todo)[k]) /\ Tail(todo)[k].kind # "NONE"
      BY <3>2, <3>4, Zenon
    <3> QED BY <1>0, <3>1, <3>2, <3>3, <3>5, <3>6, Zenon DEF Fit
  <2> QED BY <1>13, <2>1, <2>2, Zenon DEF NextAction
<1>14. CASE SetPolicy \/ (\E o \in Observers : TrackObservation(o))
            \/ (\E o \in Observers, c \in Components, s \in Reported : ObserveHealth(o, c, s))
  BY <1>1, <1>14, Zenon DEF SetPolicy, TrackObservation, ObserveHealth
<1>15. CASE \E c \in Components : \/ PingWatchdog(c) \/ DeadlinePasses(c)
                                  \/ RegisterCommandChannel(c) \/ DropCommandChannel(c)
  BY <1>1, <1>15, Zenon DEF PingWatchdog, DeadlinePasses, RegisterCommandChannel, DropCommandChannel
<1>16. CASE UNCHANGED healVars
  BY <1>1, <1>16, Zenon DEF healVars
<1> QED BY <1>5, <1>6, <1>7, <1>8, <1>9, <1>10, <1>11, <1>12, <1>13, <1>14, <1>15, <1>16, Zenon
        DEF HealNext, CycleStep

\* A critical component is only ever escalated, whatever the retries, the scopes and
\* the observers (decide_for_component, execute_heal).
THEOREM CriticalIsEscalated == HealSpec => []CriticalOnlyEscalated
<1>1. HealInit => HealInv
  <2> SUFFICES ASSUME HealInit PROVE HealInv
    BY Zenon
  <2>1. cycle = IdleCycle
    BY Zenon DEF HealInit
  <2>2. DOMAIN cycle = CycleFields /\ cycle.cur = NoAction /\ cycle.todo = <<>>
    BY <2>1 DEF IdleCycle, CycleFields
  <2>3. cycle.cur \in HealAction /\ Fit(cycle.cur)
    BY <2>2 DEF NoAction, HealAction, Kinds, Fit
  <2>4. cycle.todo \in Seq(HealAction) /\ ~\E k \in 1..Len(cycle.todo) : TRUE
    BY <2>2
  <2> QED BY <2>2, <2>3, <2>4, Zenon DEF HealInv
<1>2. HealInv => CriticalOnlyEscalated
  BY DEF HealInv, CriticalOnlyEscalated, Fit, HealAction, Kinds
<1> QED BY <1>1, <1>2, HealInductive, PTL DEF HealSpec
==================================================================================
