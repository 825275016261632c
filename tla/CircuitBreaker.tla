---------------------------- MODULE CircuitBreaker ----------------------------
(* The circuit breaker of aios-cognitive (breaker.rs). Every field has a lock  *)
(* of its own: recording an outcome counts a probe, pushes the outcome on the  *)
(* window, reads the state, decides from what it then reads, and writes field  *)
(* by field, each under a lock that it lets go again.                          *)
(*                                                                             *)
(* Abstractions: the fields a decision rests on are read together; the         *)
(* error-rate threshold is a fraction of integers; latency, state_changed_at   *)
(* and receipts decide nothing and are left out. `reopened` is history:        *)
(* half-open periods that failed since the breaker last closed.                *)
EXTENDS Naturals, Sequences, FiniteSets

CONSTANTS
    Recorders,              \* concurrent callers of record_(probe_)outcome
    MinSamples,             \* MIN_SAMPLES_TO_OPEN
    ThresholdNum,           \* error_rate_threshold = ThresholdNum / ThresholdDen
    ThresholdDen,
    WindowSeconds,          \* CircuitBreakerConfig
    InitialCooldown,
    MaxCooldown,
    HalfOpenProbeCalls,     \* HALF_OPEN_PROBE_CALLS
    MaxOutcomes,            \* bound on the outcomes kept in the window
    MaxClock                \* bound on the clock

ASSUME CooldownAssumption ==
    /\ InitialCooldown \in Nat \ {0} /\ MaxCooldown \in Nat
    /\ InitialCooldown <= MaxCooldown

VARIABLES
    br,         \* state, opened_at, cooldown_multiplier and the probe counters
    window,     \* sliding_window
    clock,
    recPc,      \* what each recorder is doing
    reopened

breakerVars == <<br, window, clock, recPc, reopened>>

Never == MaxClock + 1       \* opened_at = None
IdleRec == [at |-> "idle", ok |-> FALSE, at0 |-> 0, seen |-> "NONE", writes |-> <<>>]

BreakerInit ==
    /\ br = [state |-> "CLOSED", opened |-> Never, mult |-> 1, succ |-> 0, fail |-> 0]
    /\ window = <<>>
    /\ clock = 0
    /\ recPc = [r \in Recorders |-> IdleRec]
    /\ reopened = 0

Lesser(a, b) == IF a < b THEN a ELSE b
Greater(a, b) == IF a < b THEN b ELSE a

\* The cap on the multiplier, and effective_cooldown
MultCap == MaxCooldown \div Greater(InitialCooldown, 1)
EffectiveCooldown(mult) == Greater(Lesser(InitialCooldown * mult, MaxCooldown), InitialCooldown)

\* window_counts
Failures == Len(SelectSeq(window, LAMBDA o : ~o.ok))
Trips == /\ Len(window) >= MinSamples
         /\ Failures * ThresholdDen >= ThresholdNum * Len(window)

-----------------------------------------------------------------------------
\* The window without its expired front; an expired outcome behind a fresh one stays.
Pruned(t) ==
    LET fresh == {i \in DOMAIN window : window[i].at + WindowSeconds >= t}
        front == CHOOSE i \in fresh : \A j \in fresh : i <= j
    IN  IF fresh = {} THEN <<>> ELSE SubSeq(window, front, Len(window))

\* record_outcome, and record_probe_outcome, which goes by the state it reads and is
\* record_outcome unless that is HALF_OPEN.
Record(r, ok, probe) ==
    /\ recPc[r] = IdleRec
    /\ Len(Pruned(clock)) < MaxOutcomes
    /\ recPc' = [recPc EXCEPT ![r] =
                   [@ EXCEPT !.at = IF probe /\ br.state = "HALF_OPEN" THEN "count" ELSE "push",
                             !.ok = ok, !.at0 = clock]]
    /\ UNCHANGED <<br, window, clock, reopened>>

\* record_probe_outcome: the counter, whatever the state is by now.  The time of a probe
\* is taken after it.
CountProbe(r) ==
    /\ recPc[r].at = "count"
    /\ br' = IF recPc[r].ok THEN [br EXCEPT !.succ = Lesser(@ + 1, 2)]
                            ELSE [br EXCEPT !.fail = Lesser(@ + 1, 2)]
    /\ recPc' = [recPc EXCEPT ![r].at = "push", ![r].at0 = clock]
    /\ UNCHANGED <<window, clock, reopened>>

\* The outcome is pushed on the window.
PushOutcome(r) ==
    /\ recPc[r].at = "push"
    /\ window' = Append(Pruned(recPc[r].at0), [at |-> recPc[r].at0, ok |-> recPc[r].ok])
    /\ recPc' = [recPc EXCEPT ![r].at = "read", ![r].ok = FALSE]
    /\ UNCHANGED <<br, clock, reopened>>

\* recompute_state: the state it goes by
ReadState(r) ==
    /\ recPc[r].at = "read"
    /\ recPc' = [recPc EXCEPT ![r].at = "decide", ![r].seen = br.state]
    /\ UNCHANGED <<br, window, clock, reopened>>

\* The writes of each transition, in the order of the code
OpenWrites(t) == <<<<"state", "OPEN">>, <<"opened", t>>, <<"mult", 1>>>>
HalfOpenWrites == <<<<"succ", 0>>, <<"fail", 0>>, <<"state", "HALF_OPEN">>>>
CloseWrites == <<<<"state", "CLOSED">>, <<"opened", Never>>, <<"mult", 1>>,
                 <<"succ", 0>>, <<"fail", 0>>>>
ReopenWrites(t) ==
    <<<<"mult", Lesser(br.mult * 2, MultCap)>>, <<"state", "OPEN">>, <<"opened", t>>,
      <<"succ", 0>>, <<"fail", 0>>>>

\* The cool-down of a first opening, whatever the multiplier.
DecisionInitialCooldown(seen, t) ==
    CASE seen = "CLOSED" /\ Trips -> OpenWrites(t)
      [] seen = "OPEN" /\ t >= br.opened + InitialCooldown -> HalfOpenWrites
      [] seen = "HALF_OPEN" /\ br.fail > 0 -> ReopenWrites(t)
      [] OTHER -> <<>>

\* recompute_state: the writes it decides on
BreakerDecision(seen, t) ==
    CASE seen = "CLOSED" /\ Trips -> OpenWrites(t)
      [] seen = "OPEN" /\ br.opened # Never
            /\ t >= br.opened + EffectiveCooldown(br.mult) -> HalfOpenWrites
      [] seen = "HALF_OPEN" /\ br.succ >= HalfOpenProbeCalls /\ br.fail = 0 -> CloseWrites
      [] seen = "HALF_OPEN" /\ br.fail > 0 -> ReopenWrites(t)
      [] OTHER -> <<>>

RecomputeState(r) ==
    LET writes == BreakerDecision(recPc[r].seen, recPc[r].at0) IN
    /\ recPc[r].at = "decide"
    /\ recPc' = [recPc EXCEPT ![r] = IF writes = <<>> THEN IdleRec
                                     ELSE [@ EXCEPT !.at = "write", !.writes = writes]]
    /\ UNCHANGED <<br, window, clock, reopened>>

\* recompute_state: the next write, under the lock of its field
WriteField(r) ==
    LET w == Head(recPc[r].writes) IN
    /\ recPc[r].at = "write"
    /\ br' = [br EXCEPT ![w[1]] = w[2]]
    /\ reopened' = CASE w[1] = "state" /\ w[2] = "CLOSED" -> 0
                     [] w[1] = "state" /\ w[2] = "OPEN" /\ recPc[r].seen = "HALF_OPEN" ->
                            Lesser(reopened + 1, MultCap)
                     [] OTHER -> reopened
    /\ recPc' = [recPc EXCEPT ![r] = IF Len(@.writes) = 1 THEN IdleRec
                                     ELSE [@ EXCEPT !.writes = Tail(recPc[r].writes)]]
    /\ UNCHANGED <<window, clock>>

BreakerTick ==
    /\ clock < MaxClock
    /\ clock' = clock + 1
    /\ UNCHANGED <<br, window, recPc, reopened>>

RecorderStep(r) ==
    \/ \E ok, probe \in BOOLEAN : Record(r, ok, probe)
    \/ CountProbe(r) \/ PushOutcome(r) \/ ReadState(r) \/ RecomputeState(r) \/ WriteField(r)

BreakerNext == BreakerTick \/ \E r \in Recorders : RecorderStep(r)

BreakerSpec == BreakerInit /\ [][BreakerNext]_breakerVars

-----------------------------------------------------------------------------
Settled == \A r \in Recorders : recPc[r] = IdleRec

\* However the recorders overtake each other between the locks, the multiplier stays
\* between one and its cap, so that neither its doubling nor the cool-down overflows, and
\* the breaker never claims to have opened in the future (recompute_state).
CooldownBounded ==
    /\ br.mult \in 1..MultCap
    /\ br.opened \in 0..clock \cup {Never}

\* Types, and the cool-down is bounded.
BreakerTypeOK ==
    /\ CooldownBounded
    /\ br.state \in {"CLOSED", "OPEN", "HALF_OPEN"}
    /\ br.succ \in 0..2 /\ br.fail \in 0..2
    /\ Len(window) <= MaxOutcomes
    /\ clock \in 0..MaxClock

(* The cool-down is that of the state: an open breaker knows when it opened,   *)
(* so that it can be left, and a closed one has no start                       *)
(* (breaker.rs:156-159, :197-202).                                             *)
StartKnown ==
    Settled =>
        /\ br.state = "OPEN" => br.opened <= clock
        /\ br.state = "CLOSED" => br.opened = Never

(* and the multiplier has doubled once per failed half-open period up to the   *)
(* cap (breaker.rs:227-236).                                                   *)
CooldownAccounted == StartKnown /\ (Settled => br.mult = Lesser(2 ^ reopened, MultCap))

(* "`Open -> Closed` is never permitted. The circuit MUST pass through         *)
(* `HalfOpen` and succeed on probe calls" (breaker.rs:57).                     *)
NoOpenToClosed == [][br.state = "OPEN" => br'.state # "CLOSED"]_breakerVars

(* An open breaker is half-opened no earlier than its cool-down and a reopened *)
(* one starts a new cool-down (breaker.rs:165-177).                            *)
CooldownHonoured ==
    [][br.state = "OPEN" /\ br'.state = "HALF_OPEN" =>
          clock >= br.opened + EffectiveCooldown(br.mult)]_breakerVars

(* With one recorder at a time the cool-down is accounted and honoured, and    *)
(* the counters keep to their ranges (recompute_state, record_outcome).        *)
CooldownSound == [](BreakerTypeOK /\ CooldownAccounted) /\ CooldownHonoured
=============================================================================
