--------------------------- MODULE RecoveryBoundary ---------------------------
(* The recovery boundary of aios-recovery (in_memory_boundary.rs): one lock    *)
(* guards the recovery state, another the exit token. Entering sets the state  *)
(* under the first lock, releases it, then writes the token under the second.  *)
(* Exiting holds both locks, releases the state lock first and clears the      *)
(* token before it releases the token lock. Evidence is emitted last, without  *)
(* a lock, and may fail.                                                       *)
(*                                                                             *)
(* Abstractions: an exit token is the number of the session it was minted for; *)
(* a refused request (bundle, grant, phases) changes nothing and is left out.  *)
EXTENDS Naturals, Sequences, FiniteSets

CONSTANTS
    Operators,      \* concurrent callers of the boundary
    MaxSessions     \* bound on the recovery sessions entered

VARIABLES
    mode,           \* RecoveryState.mode
    subs,           \* RecoveryState.active_sub_boundaries
    exitToken,      \* active_exit_token, 0 for None
    session,        \* sessions entered so far
    opPc,           \* what each caller still has to do, and for which session
    trail           \* receipts the boundary emitted

boundaryVars == <<mode, subs, exitToken, session, opPc, trail>>

SubBoundaries == {"NETWORK", "STORAGE", "COMPUTE", "SYSTEM_FULL"}

OpIdle == [at |-> "idle", of |-> 0]

BoundaryInit ==
    /\ mode = "NORMAL"
    /\ subs = {}
    /\ exitToken = 0
    /\ session = 0
    /\ opPc = [o \in Operators |-> OpIdle]
    /\ trail = <<>>

\* A token lock released together with the state lock.
TokenNeverLocked == FALSE

\* The token lock is held from the state write of an exit to its token write.
TokenLocked == \E o \in Operators : opPc[o].at = "clearToken"

Step(o, at, s) == opPc' = [opPc EXCEPT ![o] = [at |-> at, of |-> s]]

-----------------------------------------------------------------------------
\* enter_recovery up to drop(state).
EnterRecovery(o) ==
    /\ opPc[o] = OpIdle
    /\ session < MaxSessions
    /\ mode # "RECOVERY"
    /\ mode' = "RECOVERY"
    /\ subs' = {"SYSTEM_FULL"}
    /\ session' = session + 1
    /\ Step(o, "writeToken", session + 1)
    /\ UNCHANGED <<exitToken, trail>>

\* enter_recovery: the token, under its own lock.
WriteToken(o) ==
    /\ opPc[o].at = "writeToken"
    /\ ~TokenLocked
    /\ exitToken' = opPc[o].of
    /\ Step(o, "emitEntered", opPc[o].of)
    /\ UNCHANGED <<mode, subs, session, trail>>

\* exit_recovery(token) up to drop(state): both locks are held for the check.
ExitRecovery(o) ==
    \E token \in 1..session :
        /\ opPc[o] = OpIdle
        /\ mode = "RECOVERY"
        /\ ~TokenLocked
        /\ exitToken = token
        /\ mode' = "NORMAL"
        /\ subs' = {}
        /\ Step(o, "clearToken", token)
        /\ UNCHANGED <<exitToken, session, trail>>

\* exit_recovery: the token is cleared and its lock released.
ClearToken(o) ==
    /\ opPc[o].at = "clearToken"
    /\ exitToken' = 0
    /\ Step(o, "emitExited", opPc[o].of)
    /\ UNCHANGED <<mode, subs, session, trail>>

\* The receipt of an entry or an exit is appended, or the append fails.
EmitSessionReceipt(o) ==
    /\ opPc[o].at \in {"emitEntered", "emitExited"}
    /\ \/ trail' = Append(trail, opPc[o])
       \/ UNCHANGED trail
    /\ opPc' = [opPc EXCEPT ![o] = OpIdle]
    /\ UNCHANGED <<mode, subs, exitToken, session>>

\* enter_sub_boundary
EnterSubBoundary(o, sub) ==
    /\ opPc[o] = OpIdle
    /\ IF sub = "SYSTEM_FULL" THEN subs = {}
                              ELSE "SYSTEM_FULL" \notin subs /\ sub \notin subs
    /\ subs' = subs \union {sub}
    /\ UNCHANGED <<mode, exitToken, session, opPc, trail>>

\* exit_sub_boundary
ExitSubBoundary(o, sub) ==
    /\ opPc[o] = OpIdle
    /\ \/ sub = "SYSTEM_FULL" /\ subs' = {}
       \/ sub \in subs /\ "SYSTEM_FULL" \notin subs /\ subs' = subs \ {sub}
    /\ UNCHANGED <<mode, exitToken, session, opPc, trail>>

\* is_recovery_active and is_sub_recovery_active
IsRecoveryActive == mode = "RECOVERY"

IsSubRecoveryActive(sub) == "SYSTEM_FULL" \in subs \/ sub \in subs

SessionStep(o) ==
    \/ EnterRecovery(o) \/ WriteToken(o)
    \/ ExitRecovery(o) \/ ClearToken(o)
    \/ EmitSessionReceipt(o)

SubBoundaryStep(o) ==
    \E sub \in SubBoundaries : EnterSubBoundary(o, sub) \/ ExitSubBoundary(o, sub)

BoundaryNext == \E o \in Operators : SessionStep(o) \/ SubBoundaryStep(o)

BoundarySpec == BoundaryInit /\ [][BoundaryNext]_boundaryVars

-----------------------------------------------------------------------------
\* Types; an exit token is one that enter_recovery minted.
BoundaryTypeOK ==
    /\ mode \in {"NORMAL", "RECOVERY"}
    /\ subs \subseteq SubBoundaries
    /\ session \in Nat /\ exitToken \in 0..session
    /\ opPc \in [Operators ->
            [at : {"idle", "writeToken", "emitEntered", "clearToken", "emitExited"},
             of : 0..session]]

(* A recovery session can be left: unless an entry has yet to write its token, *)
(* the stored exit token is the one of the session in force, and outside       *)
(* recovery none is left behind once the exit is through                       *)
(* (in_memory_boundary.rs:113 and :138, the two locks taken in turn).          *)
TokenMatchesSession ==
    /\ (mode = "RECOVERY" /\ \A o \in Operators : opPc[o].at # "writeToken")
          => exitToken = session
    /\ (mode = "NORMAL" /\ ~TokenLocked) => exitToken = 0

(* SYSTEM_FULL stands for every sub-boundary and is never open together with   *)
(* a single one, whatever mixture of sessions and sub-boundary calls led here  *)
(* (in_memory_boundary.rs:161-181).                                            *)
SystemFullAlone == "SYSTEM_FULL" \in subs => subs = {"SYSTEM_FULL"}

(* The receipts tell the truth although they are written after the locks are   *)
(* released: no session is receipted as left while it is in force, and none is *)
(* receipted twice (in_memory_boundary.rs:117 and :141).                       *)
ReceiptsTruthful ==
    /\ \A i, j \in DOMAIN trail : trail[i] = trail[j] => i = j
    /\ mode = "RECOVERY" =>
          \A i \in DOMAIN trail : trail[i] # [at |-> "emitExited", of |-> session]
=============================================================================
