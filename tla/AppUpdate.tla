-------------------------------- MODULE AppUpdate --------------------------------
(* One stored plan of the InMemoryUpdateDriver.  A call loads a copy of the plan,   *)
(* moves the copy and stores it twice, with no lock held in between.               *)
EXTENDS Naturals, FiniteSets

CONSTANTS UpdateTasks   \* calls that may be in progress together

VARIABLES
    updateState,     \* state of the stored plan
    utask,           \* utask[t]: [at, op], a call and its next step
    passed,          \* history: the states the stored plan went through since it was planned
    loadedFrom       \* history, loadedFrom[t]: the state call t loaded, while it is under way

updateVars == <<updateState, utask, passed, loadedFrom>>

Ops == {"execute", "verify", "activate", "rollback"}

Between == [execute |-> "Executing", verify |-> "Verifying", activate |-> "Activating",
            rollback |-> "RollingBack"]

\* hash_match is always true, so verify always passes.
Final == [execute |-> "Executed", verify |-> "Verified", activate |-> "Active",
          rollback |-> "RolledBack"]

UpdateIdle == [at |-> "idle", op |-> "execute"]

\* plan_update without dry_run.
UpdateInit ==
    /\ updateState = "Planned"
    /\ utask = [t \in UpdateTasks |-> UpdateIdle]
    /\ passed = {"Planned"}
    /\ loadedFrom = [t \in UpdateTasks |-> "Planned"]

Edges ==
    ({"Planned"} \X {"Executing", "Failed"}) \cup ({"Executing"} \X {"Executed", "Failed"})
    \cup ({"Executed"} \X {"Verifying", "RollingBack"}) \cup ({"Verifying"} \X {"Verified", "Failed"})
    \cup ({"Verified"} \X {"Activating", "RollingBack"}) \cup ({"Activating"} \X {"Active", "Failed"})
    \cup ({"Failed", "Active"} \X {"RollingBack"})
    \cup ({"RollingBack"} \X {"RolledBack", "RollbackFailed"})

\* A rolled back plan may be executed again.
LegalAgain(from, to) == <<from, to>> \in Edges \cup {<<"RolledBack", "Executing">>}

IsLegalTransition(from, to) == <<from, to>> \in Edges

\* load_plan and the first apply_transition; a refused call returns at once.
Load(t, op) ==
    /\ utask[t] = UpdateIdle
    /\ IsLegalTransition(updateState, Between[op])
    /\ utask' = [utask EXCEPT ![t] = [at |-> "first", op |-> op]]
    /\ loadedFrom' = [loadedFrom EXCEPT ![t] = updateState]
    /\ UNCHANGED <<updateState, passed>>

Store(state) == updateState' = state /\ passed' = passed \cup {state}

\* store_plan with the state in between.
StoreFirst(t) ==
    /\ utask[t].at = "first"
    /\ Store(Between[utask[t].op])
    /\ utask' = [utask EXCEPT ![t].at = "second"]
    /\ UNCHANGED loadedFrom

\* The second apply_transition, on the call's own copy, and store_plan.
StoreSecond(t) ==
    /\ utask[t].at = "second"
    /\ IsLegalTransition(Between[utask[t].op], Final[utask[t].op])
    /\ Store(Final[utask[t].op])
    /\ utask' = [utask EXCEPT ![t] = UpdateIdle]
    /\ loadedFrom' = [loadedFrom EXCEPT ![t] = "Planned"]

UpdateNext ==
    \E t \in UpdateTasks :
        \/ \E op \in Ops : Load(t, op)
        \/ StoreFirst(t)
        \/ StoreSecond(t)

UpdateSpec == UpdateInit /\ [][UpdateNext]_updateVars

--------------------------------------------------------------------------------
\* An update that is stored as Active was stored as Executed and as Verified before,
\* whatever calls overlapped: every call checks the copy it loaded.
ActiveWasVerified == updateState = "Active" => {"Executed", "Verified"} \subseteq passed

\* A plan stored as RolledBack only changes again by a call that loaded it before the
\* rollback was stored; once no call is under way it stays rolled back.
RolledBackSettles ==
    [][updateState = "RolledBack" /\ updateState' # "RolledBack" =>
           \E t \in UpdateTasks : utask[t] # UpdateIdle /\ loadedFrom[t] # "RolledBack"]_updateVars
================================================================================
