-------------------------- MODULE ActionLifecycle ---------------------------
(***************************************************************************)
(* What a client of the capability runtime may rely on when it polls       *)
(* get_action_status.  An action is recorded once, in a state in which the *)
(* pipeline stops.  A resume is admitted while the record shows            *)
(* APPROVAL_PENDING, and every resume admitted may record SUCCEEDED or     *)
(* FAILED once, also over the record of another one admitted before it.    *)
(* Nothing else changes a record.                                          *)
(***************************************************************************)
CONSTANTS Actions, Resumes, NotRecorded

VARIABLES
  status,     \* action -> recorded lifecycle state, or NotRecorded
  admitted    \* action -> the resumes admitted and not yet returned

lifecycleVars == <<status, admitted>>

LifecycleInit ==
  /\ status = [a \in Actions |-> NotRecorded]
  /\ admitted = [a \in Actions |-> {}]

Record(a) ==
  /\ status[a] = NotRecorded
  /\ \E s \in {"ApprovalPending", "PolicyDenied", "Succeeded", "Failed",
               "RolledBack", "RollbackFailed"} :
       status' = [status EXCEPT ![a] = s]
  /\ UNCHANGED admitted

Admit(a, r) ==
  /\ status[a] = "ApprovalPending"
  /\ admitted' = [admitted EXCEPT ![a] = @ \cup {r}]
  /\ UNCHANGED status

\* An admitted resume returns: it has recorded its outcome, or failed.
Leave(a, r) ==
  /\ r \in admitted[a]
  /\ admitted' = [admitted EXCEPT ![a] = @ \ {r}]
  /\ \/ \E s \in {"Succeeded", "Failed"} : status' = [status EXCEPT ![a] = s]
     \/ UNCHANGED status

LifecycleNext ==
  \E a \in Actions : Record(a) \/ \E r \in Resumes : Admit(a, r) \/ Leave(a, r)

LifecycleSpec == LifecycleInit /\ [][LifecycleNext]_lifecycleVars

(***************************************************************************)
(* What follows for a client: a record that is not APPROVAL_PENDING, with  *)
(* no admitted resume left on it, never changes again (runtime.rs).        *)
(***************************************************************************)
Settled(a) == status[a] \notin {NotRecorded, "ApprovalPending"} /\ admitted[a] = {}
SettledIsFinal ==
  [][\A a \in Actions : Settled(a) => Settled(a)' /\ status'[a] = status[a]]_lifecycleVars
=============================================================================
