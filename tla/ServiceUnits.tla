------------------------------ MODULE ServiceUnits -------------------------------
(* UnitFsmDriver over InMemoryServiceGraph: start, stop, restart, mark_failed and  *)
(* transition drive the state of a unit along legal edges.  A driver reads the     *)
(* unit, decides the next edge and asks the graph to take it; the graph's lock is  *)
(* not held in between, so drivers of one unit overtake each other.  Evidence and  *)
(* reasons are left out.                                                           *)
EXTENDS Naturals, FiniteSets

CONSTANTS
    Units,
    CriticalUnits,   \* the units labelled criticality = critical
    Drivers,         \* the calls that may be in progress together
    MaxCalls         \* bound on the calls made

VARIABLES
    unitState,       \* unitState[u]
    desired,         \* desired[u]: desired_state of the manifest, fixed at registration
    driver,          \* driver[d]: the call in progress
    callsMade

unitVars == <<unitState, desired, driver, callsMade>>

UnitStates == {"Draft", "Queued", "Starting", "Running", "Healthy", "Degraded",
               "Unhealthy", "Stopping", "Stopped", "Failed", "Retired"}

\* TRANSITIONS: the table of the driver.
Transitions ==
    {<<"Draft", "Queued">>, <<"Draft", "Retired">>,
     <<"Queued", "Starting">>, <<"Queued", "Retired">>,
     <<"Starting", "Running">>, <<"Starting", "Failed">>,
     <<"Running", "Healthy">>, <<"Running", "Stopped">>, <<"Running", "Failed">>,
     <<"Healthy", "Degraded">>, <<"Healthy", "Unhealthy">>, <<"Healthy", "Stopping">>,
     <<"Degraded", "Healthy">>, <<"Degraded", "Unhealthy">>, <<"Degraded", "Stopping">>,
     <<"Unhealthy", "Healthy">>, <<"Unhealthy", "Starting">>, <<"Unhealthy", "Failed">>,
     <<"Unhealthy", "Stopping">>,
     <<"Stopping", "Stopped">>, <<"Stopping", "Failed">>,
     <<"Stopped", "Queued">>, <<"Stopped", "Retired">>,
     <<"Failed", "Starting">>, <<"Failed", "Retired">>}

\* The table of a graph that lets a running unit stop only through Stopping.
IsValidUnlessRunningStops(from, to) ==
    \/ from \in {"Draft", "Stopped"} /\ to \in {"Queued", "Retired"}
    \/ from \in {"Queued", "Failed"} /\ to \in {"Starting", "Retired"}
    \/ from = "Starting" /\ to \in {"Running", "Failed"}
    \/ from = "Running" /\ to \in {"Healthy", "Failed"}
    \/ from \in {"Healthy", "Degraded", "Unhealthy"} /\ <<from, to>> \in Transitions
    \/ from = "Stopping" /\ to \in {"Stopped", "Failed"}

\* is_valid_transition: the table of the graph.
IsValidTransition(from, to) ==
    \/ from \in {"Draft", "Stopped"} /\ to \in {"Queued", "Retired"}
    \/ from \in {"Queued", "Failed"} /\ to \in {"Starting", "Retired"}
    \/ from = "Starting" /\ to \in {"Running", "Failed"}
    \/ from = "Running" /\ to \in {"Healthy", "Stopped", "Failed"}
    \/ from = "Healthy" /\ to \in {"Degraded", "Unhealthy", "Stopping"}
    \/ from = "Degraded" /\ to \in {"Healthy", "Unhealthy", "Stopping"}
    \/ from = "Unhealthy" /\ to \in {"Healthy", "Starting", "Failed", "Stopping"}
    \/ from = "Stopping" /\ to \in {"Stopped", "Failed"}

NoDriver == [at |-> "idle", op |-> "none", unit |-> 0, expected |-> "none", next |-> "none"]

\* register_unit leaves a unit Queued.
UnitsInit ==
    /\ unitState = [u \in Units |-> "Queued"]
    /\ desired \in [Units -> {"Running", "Stopped"}]
    /\ driver = [d \in Drivers |-> NoDriver]
    /\ callsMade = 0

Return(d) == driver' = [driver EXCEPT ![d] = NoDriver]

\* A call of start, stop, mark_failed or transition(target).
Call(d, u, op) ==
    /\ driver[d].at = "idle"
    /\ callsMade < MaxCalls
    /\ callsMade' = callsMade + 1
    /\ driver' = [driver EXCEPT ![d] = [NoDriver EXCEPT !.at = "read", !.op = op, !.unit = u]]
    /\ UNCHANGED <<unitState, desired>>

\* restart chooses from the state it finds; a retired unit is refused.
Restart(d, u) ==
    /\ unitState[u] # "Retired"
    /\ LET op == CASE unitState[u] = "Failed" -> "retry"
                   [] unitState[u] \in {"Running", "Healthy", "Degraded", "Unhealthy", "Stopping"} -> "bounce"
                   [] OTHER -> "start"
       IN  Call(d, u, op)

\* drive_to_running.
StartNext(s, retry) ==
    CASE s = "Running" -> "ok"
      [] s \in {"Draft", "Stopped"} -> "Queued"
      [] s = "Queued" -> "Starting"
      [] s = "Starting" -> "Running"
      [] s = "Failed" /\ retry -> "Starting"
      [] OTHER -> "error"

StopNext(s) ==
    CASE s = "Stopped" -> "ok"
      [] s \in {"Running", "Stopping"} -> "Stopped"
      [] s \in {"Healthy", "Degraded", "Unhealthy"} -> "Stopping"
      [] OTHER -> "error"

\* mark_failed that follows the retry edge of a failed unit.
FailThenRetry(s) ==
    CASE s \in {"Draft", "Queued", "Failed"} -> "Starting"
      [] s \in {"Starting", "Running", "Unhealthy", "Stopping"} -> "Failed"
      [] s \in {"Healthy", "Degraded"} -> "Unhealthy"
      [] OTHER -> "error"

FailNext(s) ==
    CASE s = "Failed" -> "ok"
      [] s \in {"Draft", "Queued"} -> "Starting"
      [] s \in {"Starting", "Running", "Unhealthy", "Stopping"} -> "Failed"
      [] s \in {"Healthy", "Degraded"} -> "Unhealthy"
      [] OTHER -> "error"

\* What a driver does about the state it read; the other operations name the target
\* of a transition.
Choice(op, s) ==
    CASE op = "start" -> StartNext(s, FALSE)
      [] op = "retry" -> StartNext(s, TRUE)
      [] op \in {"stop", "bounce"} -> StopNext(s)
      [] op = "fail" -> FailNext(s)
      [] OTHER -> IF s = op THEN "ok" ELSE op

\* transition and apply_or_observe look an edge up in the driver's table before they ask
\* the graph.
NextFor(op, s) ==
    IF Choice(op, s) = "ok" \/ <<s, Choice(op, s)>> \in Transitions THEN Choice(op, s) ELSE "error"

\* get_unit, the match on its state and is_legal_transition; a restart that stopped the unit goes on.
Read(d) ==
    LET s == unitState[driver[d].unit]
        next == NextFor(driver[d].op, s)
    IN  /\ driver[d].at = "read"
        /\ \/ next = "ok" /\ driver[d].op = "bounce" /\ driver' = [driver EXCEPT ![d].op = "start"]
           \/ next = "ok" /\ driver[d].op # "bounce" /\ Return(d)
           \/ next = "error" /\ Return(d)
           \/ /\ next \notin {"ok", "error"}
              /\ driver' = [driver EXCEPT ![d].at = "set", ![d].expected = s, ![d].next = next]
        /\ UNCHANGED <<unitState, desired, callsMade>>

\* transition asks once; the others go round again.
Looping(d) == driver[d].op \in {"start", "retry", "stop", "bounce", "fail"}

Again(d) == driver' = [driver EXCEPT ![d].at = "read", ![d].expected = "none", ![d].next = "none"]

\* set_unit_state under apply_or_observe: an edge that is refused because the unit
\* moved meanwhile is no error.
SetUnitState(d) ==
    LET u == driver[d].unit
    IN  /\ driver[d].at = "set"
        /\ \/ /\ IsValidTransition(unitState[u], driver[d].next)
              /\ unitState' = [unitState EXCEPT ![u] = driver[d].next]
              /\ IF Looping(d) THEN Again(d) ELSE Return(d)
           \/ /\ ~IsValidTransition(unitState[u], driver[d].next)
              /\ IF Looping(d) /\ unitState[u] # driver[d].expected THEN Again(d) ELSE Return(d)
              /\ UNCHANGED unitState
        /\ UNCHANGED <<desired, callsMade>>

DriverStep(d) == Read(d) \/ SetUnitState(d)

UnitsNext ==
    \E d \in Drivers :
        \/ \E u \in Units :
            \/ \E op \in {"start", "stop", "fail"} \cup UnitStates : Call(d, u, op)
            \/ Restart(d, u)
        \/ DriverStep(d)

UnitsSpec == UnitsInit /\ [][UnitsNext]_unitVars

\* A task that was spawned runs until its call returns.
UnitsFairness == \A d \in Drivers : WF_unitVars(DriverStep(d))

RunningStable(s) == s \in {"Running", "Healthy"}

Transitional(s) == s \in {"Draft", "Queued", "Starting", "Stopping"}

DesiredStateMatches(u) ==
    IF desired[u] = "Running" THEN RunningStable(unitState[u]) ELSE unitState[u] = "Stopped"

\* is_converged of the evaluator.
IsConverged == \A u \in Units : ~Transitional(unitState[u]) /\ DesiredStateMatches(u)

\* What graph_state and convergence_state report alike of no units at all, or when a
\* unit is in a bad state.
SharedVerdict ==
    LET failed == {u \in Units : unitState[u] = "Failed"}
    IN  IF Units = {} THEN "Empty"
        ELSE IF failed # {} /\ (failed \cap CriticalUnits # {} \/ failed = Units) THEN "Failed"
        ELSE IF failed # {} \/ \E u \in Units : unitState[u] \in {"Degraded", "Unhealthy", "Retired"}
        THEN "Degraded" ELSE "none"

\* graph_state of the graph.
GraphState ==
    IF SharedVerdict # "none" THEN SharedVerdict
    ELSE IF \E u \in Units : Transitional(unitState[u]) THEN "Converging" ELSE "Converged"

\* convergence_state of the evaluator.
ConvergenceState ==
    IF SharedVerdict # "none" THEN SharedVerdict
    ELSE IF \E u \in Units : Transitional(unitState[u]) THEN "Converging"
    ELSE IF \A u \in Units : DesiredStateMatches(u) THEN "Converged" ELSE "Converging"

--------------------------------------------------------------------------------
\* However the drivers of a unit overtake each other, a unit moves along the edges of
\* the driver's table, although the graph checks a table of its own (TRANSITIONS and
\* is_valid_transition).
UnitsFollowTable ==
    [][\A u \in Units : unitState'[u] # unitState[u] => <<unitState[u], unitState'[u]>> \in Transitions]_unitVars

\* The graph refuses an edge only to a driver whose unit moved after it was read: what
\* the driver's table allows the graph's own table allows too, so that start, stop,
\* restart and mark_failed never fail on an edge they chose themselves (the error arm of
\* apply_or_observe).
RefusedMeansRaced ==
    \A d \in Drivers :
        driver[d].at = "set" /\ ~IsValidTransition(unitState[driver[d].unit], driver[d].next)
            => unitState[driver[d].unit] # driver[d].expected

\* The three answers to "has the graph converged" agree: is_converged holds exactly
\* when convergence_state says Converged or, of a graph without units, Empty, and then
\* graph_state says the same.
ConvergenceAgrees ==
    /\ IsConverged <=> ConvergenceState \in {"Converged", "Empty"}
    /\ IsConverged => GraphState = ConvergenceState

\* Another call with a different goal is in progress on the same unit.
Opposed(d) ==
    \E e \in Drivers :
        driver[e].at # "idle" /\ driver[e].unit = driver[d].unit /\ driver[e].op # driver[d].op

\* A call returns, also beside calls with the same goal that overtake it, unless a call
\* with another goal keeps undoing its steps: drive_to_running, stop and mark_failed
\* loop without a limit, and a start and a stop in step never end.
DriversReturn ==
    \A d \in Drivers : driver[d].at # "idle" ~> (driver[d].at = "idle" \/ Opposed(d))
================================================================================
