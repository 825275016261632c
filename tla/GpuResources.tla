------------------------------ MODULE GpuResources -------------------------------
(* The GpuResourceRegistry for one device and one group.  The lock of each table is *)
(* taken and dropped on its own, so calls interleave between the steps below.      *)
(* expires_at is never looked at; capability classes only split the accounting.    *)
(* What is reserved and asked for together stays below 2^64: the two u64 additions *)
(* of request_binding are unchecked and would wrap, or panic in a debug build.     *)
EXTENDS Integers, FiniteSets, FiniteSetsExt

CONSTANTS
    GpuTasks,        \* calls that may be in progress together
    GpuSubjects,
    VramTotal,       \* vram_total_bytes
    VramSizes,       \* sizes asked for
    MaxBindings      \* bound on the bindings requested

\* Sizes are u64, so there is a largest one.
ASSUME GpuAssumption ==
    /\ IsFiniteSet(GpuTasks) /\ GpuTasks # {}
    /\ VramTotal \in Nat /\ VramSizes \subseteq Nat
    /\ \E m \in VramSizes : \A n \in VramSizes : m >= n

VARIABLES
    bound,           \* bindings: set of [id, subject, bytes]
    reserved,        \* accounting: reserved[s] is bytes_reserved
    authorized,      \* authorized_subjects of the group's partition
    gtask,           \* gtask[t]: [at, binding], binding the one requested or released
    requested,       \* ids given out
    doubled,         \* history: a binding was released by two calls at once
    crossed          \* history: subjects revoked while a request of theirs was under way

gpuVars == <<bound, reserved, authorized, gtask, requested, doubled, crossed>>

NoBinding == [id |-> 0, subject |-> 0, bytes |-> 0]
GpuIdle == [at |-> "idle", binding |-> NoBinding]

GpuInit ==
    /\ bound = {}
    /\ reserved = [s \in GpuSubjects |-> 0]
    /\ authorized = {}
    /\ gtask = [t \in GpuTasks |-> GpuIdle]
    /\ requested = 0
    /\ doubled = FALSE
    /\ crossed = {}

\* total_vram_used, the sum of bytes_reserved: the bytes are counted one by one.
ReservedBytes == UNION {{s} \X (1..reserved[s]) : s \in GpuSubjects}

TotalVramUsed == Cardinality(ReservedBytes)

\* Moves task t on to the step at.
GoOn(t, at) == gtask' = [gtask EXCEPT ![t].at = at]

\* request_binding: the request alone fits.
CheckVramAlone(t, s, n) ==
    /\ gtask[t] = GpuIdle
    /\ requested < MaxBindings
    /\ n <= VramTotal
    /\ requested' = requested + 1
    /\ gtask' = [gtask EXCEPT ![t] =
                    [at |-> "authorize", binding |-> [id |-> requested + 1, subject |-> s, bytes |-> n]]]
    /\ UNCHANGED <<bound, reserved, authorized, doubled, crossed>>

\* request_binding: enough VRAM is left by what is accounted now.
CheckVram(t, s, n) ==
    /\ gtask[t] = GpuIdle
    /\ requested < MaxBindings
    /\ TotalVramUsed + n <= VramTotal
    /\ requested' = requested + 1
    /\ gtask' = [gtask EXCEPT ![t] =
                    [at |-> "authorize", binding |-> [id |-> requested + 1, subject |-> s, bytes |-> n]]]
    /\ UNCHANGED <<bound, reserved, authorized, doubled, crossed>>

\* ensure_partition and authorize_subject.
AuthorizeSubject(t) ==
    /\ gtask[t].at = "authorize"
    /\ authorized' = authorized \cup {gtask[t].binding.subject}
    /\ GoOn(t, "reserve")
    /\ UNCHANGED <<bound, reserved, requested, doubled, crossed>>

\* bytes_reserved += vram_bytes.
ReserveVram(t) ==
    /\ gtask[t].at = "reserve"
    /\ reserved' = [reserved EXCEPT ![gtask[t].binding.subject] = @ + gtask[t].binding.bytes]
    /\ GoOn(t, "insert")
    /\ UNCHANGED <<bound, authorized, requested, doubled, crossed>>

InsertBinding(t) ==
    /\ gtask[t].at = "insert"
    /\ bound' = bound \cup {gtask[t].binding}
    /\ gtask' = [gtask EXCEPT ![t] = GpuIdle]
    /\ UNCHANGED <<reserved, authorized, requested, doubled, crossed>>

\* release_binding: the binding is looked up.
FindBinding(t, b) ==
    /\ gtask[t] = GpuIdle
    /\ gtask' = [gtask EXCEPT ![t] = [at |-> "subtract", binding |-> b]]
    /\ doubled' = (doubled \/ \E u \in GpuTasks : gtask[u].binding = b)
    /\ UNCHANGED <<bound, reserved, authorized, requested, crossed>>

\* bytes_reserved.saturating_sub.
ReleaseVram(t) ==
    LET b == gtask[t].binding
    IN  /\ gtask[t].at = "subtract"
        /\ reserved' = [reserved EXCEPT ![b.subject] = IF @ < b.bytes THEN 0 ELSE @ - b.bytes]
        /\ GoOn(t, "remove")
        /\ UNCHANGED <<bound, authorized, requested, doubled, crossed>>

RemoveBinding(t) ==
    /\ gtask[t].at = "remove"
    /\ bound' = bound \ {gtask[t].binding}
    /\ GoOn(t, "revoke")
    /\ UNCHANGED <<reserved, authorized, requested, doubled, crossed>>

StillBound(s) == \E b \in bound : b.subject = s

\* The last step of release_binding, with the bindings locked for reading.
RevokeSubject(t) ==
    LET s == gtask[t].binding.subject
        midway == \E u \in GpuTasks : gtask[u].at \in {"reserve", "insert"} /\ gtask[u].binding.subject = s
    IN  /\ gtask[t].at = "revoke"
        /\ authorized' = IF StillBound(s) THEN authorized ELSE authorized \ {s}
        /\ crossed' = IF ~StillBound(s) /\ midway THEN crossed \cup {s} ELSE crossed
        /\ gtask' = [gtask EXCEPT ![t] = GpuIdle]
        /\ UNCHANGED <<bound, reserved, requested, doubled>>

GpuNext ==
    \E t \in GpuTasks :
        \/ \E s \in GpuSubjects, n \in VramSizes : CheckVram(t, s, n)
        \/ AuthorizeSubject(t)
        \/ ReserveVram(t)
        \/ InsertBinding(t)
        \/ \E b \in bound : FindBinding(t, b)
        \/ ReleaseVram(t)
        \/ RemoveBinding(t)
        \/ RevokeSubject(t)

GpuSpec == GpuInit /\ [][GpuNext]_gpuVars

--------------------------------------------------------------------------------
\* The sum of the sizes of the bindings in B.
BytesIn(B) == UNION {{b} \X (1..b.bytes) : b \in B}

BytesOf(B) == Cardinality(BytesIn(B))

\* The bindings whose VRAM is accounted for: stored, or reserved and about to be
\* stored, and not yet given back by a release.
Accounted(s) ==
    {b \in bound \cup {gtask[t].binding : t \in {u \in GpuTasks : gtask[u].at = "insert"}} :
        /\ b.subject = s
        /\ ~\E t \in GpuTasks : gtask[t].binding = b /\ gtask[t].at = "remove"}

\* request_binding and release_binding keep bytes_reserved of every subject equal to
\* the sizes of the bindings that subject holds, however calls interleave, unless one
\* binding was released by two calls at once (both subtract it).
AccountingExact == ~doubled => \A s \in GpuSubjects : reserved[s] = BytesOf(Accounted(s))

\* What request_binding checked and did not yet reserve.
Promised == {gtask[t].binding : t \in {u \in GpuTasks : gtask[u].at \in {"authorize", "reserve"}}}

\* The check of the VRAM left and the reservation are two locks apart, so requests that
\* overlap can reserve more than the device has; but never by more than one request
\* of the largest size for each call beyond the first.
Overshoot == (Cardinality(GpuTasks) - 1) * Max(VramSizes)

OvershootBounded == TotalVramUsed + BytesOf(Promised) <= VramTotal + Overshoot

\* A subject that holds a binding is authorized in the partition, unless a release
\* revoked the subject between a request's authorization and its binding.
BoundIsAuthorized == \A b \in bound : b.subject \in authorized \cup crossed

\* release_binding leaves nobody authorized without a binding: once no call for the
\* subject is under way, an authorized subject holds a binding.
AuthorizationEnds ==
    \A s \in authorized :
        StillBound(s) \/ \E t \in GpuTasks : gtask[t] # GpuIdle /\ gtask[t].binding.subject = s

\* The books of the GPU driver match the bindings it handed out: bytes reserved, how
\* far they can exceed the device, and who is authorized (request_binding and
\* release_binding, with their check and their writes under separate locks).
BooksMatchBindings ==
    AccountingExact /\ OvershootBounded /\ BoundIsAuthorized /\ AuthorizationEnds
================================================================================
