----------------------------- MODULE FirmwareUpdate ------------------------------
(* The FirmwareUpdateOrchestrator for the blobs of one device.  Every operation     *)
(* holds the lock on the plans throughout.  Versions are strings compared as        *)
(* strings; here they are numbers in that order.                                    *)
EXTENDS Naturals

CONSTANTS
    Blobs,
    Version,         \* Version[b]: the version of a blob
    Signers          \* what the signatures of blobs may prove, or why they do not

ASSUME VersionsAreNumbers == Version \in [Blobs -> Nat \ {0}]

VARIABLES
    plan,            \* plan[b]: [state, trust, strategy]
    installed,       \* installed_versions of the device, 0 when there is none
    since            \* history, since[b]: blobs installed since b was verified

firmwareVars == <<plan, installed, since>>

Trusted == {"AiosPublisherSigned", "VendorSignedThroughAiosBridge", "OperatorLocalSigned"}
ApplyStrategies == {"Atomic", "Staged", "Deferred"}

NoPlan == [state |-> "None", trust |-> "None", strategy |-> "Atomic"]

\* set_installed_version gives the device its version before any plan.
FirmwareInit ==
    /\ plan = [b \in Blobs |-> NoPlan]
    /\ installed \in {0} \cup {Version[b] : b \in Blobs}
    /\ since = [b \in Blobs |-> {}]

Propose(b, strategy) ==
    /\ plan[b].state = "None"
    /\ plan' = [plan EXCEPT ![b] = [state |-> "Proposed", trust |-> "None", strategy |-> strategy]]
    /\ UNCHANGED <<installed, since>>

\* Moves plan b from one state to another and leaves the rest of it.
Advance(b, from, to) ==
    /\ plan[b].state = from
    /\ plan' = [plan EXCEPT ![b].state = to]

\* verify with < for <=.
RegressesBelow(b) == installed # 0 /\ Version[b] < installed

\* verify: the blob's version is not above the installed one.
Regresses(b) == installed # 0 /\ Version[b] <= installed

\* verify: what the signature proves, then the version.
Verify(b, signer) ==
    LET trust == IF signer \notin Trusted THEN signer
                 ELSE IF Regresses(b) THEN "VersionRegression" ELSE signer
    IN  /\ plan[b].state = "Proposed"
        /\ plan' = [plan EXCEPT ![b].trust = trust,
                                ![b].state = IF trust \in Trusted THEN "Verified" ELSE "Failed"]
        /\ since' = [since EXCEPT ![b] = {}]
        /\ UNCHANGED installed

\* approve: ConstitutionalRefusal is never a plan's trust_result.
Approve(b) == Advance(b, "Verified", "Approved") /\ UNCHANGED <<installed, since>>

Stage(b) == Advance(b, "Approved", "Staged") /\ UNCHANGED <<installed, since>>

\* The device has the version of b from now on.
Install(b) ==
    /\ installed' = Version[b]
    /\ since' = [c \in Blobs |-> since[c] \cup {b}]

\* apply: refused for the Deferred strategy.
Apply(b) ==
    \/ /\ plan[b].strategy = "Atomic"
       /\ Advance(b, "Staged", "Applied")
       /\ Install(b)
    \/ /\ plan[b].strategy = "Staged"
       /\ Advance(b, "Staged", "Applying")
       /\ UNCHANGED <<installed, since>>

FinalizeStagedApply(b) == Advance(b, "Applying", "Applied") /\ Install(b)

\* revert and fail: from any state, and the installed version stays.
Revert(b) ==
    /\ plan[b].state # "None"
    /\ plan' = [plan EXCEPT ![b].state = "Reverted"]
    /\ UNCHANGED <<installed, since>>

Fail(b) ==
    /\ plan[b].state # "None"
    /\ plan' = [plan EXCEPT ![b].state = "Failed"]
    /\ UNCHANGED <<installed, since>>

FirmwareNext ==
    \E b \in Blobs :
        \/ \E strategy \in ApplyStrategies : Propose(b, strategy)
        \/ \E signer \in Signers : Verify(b, signer)
        \/ Approve(b)
        \/ Stage(b)
        \/ Apply(b)
        \/ FinalizeStagedApply(b)
        \/ Revert(b)
        \/ Fail(b)

FirmwareSpec == FirmwareInit /\ [][FirmwareNext]_firmwareVars

--------------------------------------------------------------------------------
\* No blob is applied, or being applied, that verify refused or that no signature
\* vouches for, whatever revert and fail do to plans in between.
AppliedIsTrusted ==
    \A b \in Blobs : plan[b].state \in {"Staged", "Applying", "Applied"} => plan[b].trust \in Trusted

\* A blob that does not raise the version of the device is only applied when it was
\* verified before the version it replaces was installed: verify compares versions, apply and
\* finalize_staged_apply do not compare them again.
DowngradeWasStale ==
    [][\A b \in Blobs :
           plan[b].state # "Applied" /\ plan'[b].state = "Applied"
               => installed' > installed \/ since[b] # {}]_firmwareVars

\* What 04_firmware_trust.md:19 has the pipeline rest on, "a per-FirmwareScope monotonic
\* version counter": the version of the device never falls.
VersionNeverFalls == [][installed' >= installed]_firmwareVars
================================================================================
