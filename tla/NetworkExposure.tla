----------------------------- MODULE NetworkExposure -----------------------------
(* ExposureApprovalFsm: how a host is opened to the LAN and to the public network. *)
(* The state and the history have a lock each; every RPC runs on its own task, so  *)
(* what a call read before it took the write lock may be old, and transitions are  *)
(* entered in the history after the state lock was dropped.  Requesters, decision  *)
(* ids and reasons are left out, as are calls that are refused.                    *)
EXTENDS Integers, FiniteSets

CONSTANTS
    ExposureTasks,       \* the calls that may be in progress together
    LanInterval,         \* lan_heartbeat_interval
    PublicInterval,      \* public_heartbeat_interval
    TtlOffsets,          \* how far ahead an approval may put ttl_expires_at
    MaxExposureTime      \* bound on the clock

ASSUME CallsAreFinite == IsFiniteSet(ExposureTasks)

VARIABLES
    exposure,            \* [label, heartbeat, ttl]; a field the label does not use is 0
    balance,             \* balance[l]: the history's entries that lead to l, less those that leave it
    xtask,               \* xtask[t]: the call in progress
    xclock,              \* Utc::now
    cosigned             \* the expiry times that a co-signer approved

exposureVars == <<exposure, balance, xtask, xclock, cosigned>>

Labels == {"Loopback", "LanPending", "LanApproved", "LanActive",
           "PublicPending", "PublicApproved", "PublicActive", "Revoked"}

NoCall == [at |-> "idle", from |-> "Loopback", to |-> "Loopback", ttl |-> 0]

ExposureInit ==
    /\ exposure = [label |-> "Loopback", heartbeat |-> 0, ttl |-> 0]
    /\ balance = [l \in Labels |-> 0]
    /\ xtask = [t \in ExposureTasks |-> NoCall]
    /\ xclock = 1
    /\ cosigned = {}

TransitionAllowed(from, to) ==
    \/ to = "Revoked"
    \/ from = "Loopback" /\ to \in {"LanPending", "PublicPending"}
    \/ from = "LanPending" /\ to = "LanApproved"
    \/ from \in {"LanApproved", "LanActive"} /\ to = "LanActive"
    \/ from = "PublicPending" /\ to = "PublicApproved"
    \/ from \in {"PublicApproved", "PublicActive"} /\ to = "PublicActive"
    \/ from = "Revoked" /\ to = "Loopback"

\* What the call does once it dropped the state lock.
ThenHistory(t, from, to) ==
    xtask' = [xtask EXCEPT ![t] = [at |-> "record", from |-> from, to |-> to, ttl |-> 0]]

\* enforce_transition.
Enforce(t, to, heartbeat, ttl) ==
    /\ TransitionAllowed(exposure.label, to)
    /\ exposure' = [label |-> to, heartbeat |-> heartbeat, ttl |-> ttl]
    /\ ThenHistory(t, exposure.label, to)

IsIdle(t) == xtask[t].at = "idle"

RequestLan(t) ==
    IsIdle(t) /\ Enforce(t, "LanPending", 0, 0) /\ UNCHANGED <<balance, xclock, cosigned>>

ApplyLanPolicyDecision(t) ==
    IsIdle(t) /\ Enforce(t, "LanApproved", 0, 0) /\ UNCHANGED <<balance, xclock, cosigned>>

\* activate_lan, and record_lan_heartbeat, which writes the same under one lock.
ActivateLan(t) ==
    IsIdle(t) /\ Enforce(t, "LanActive", xclock, 0) /\ UNCHANGED <<balance, xclock, cosigned>>

RequestPublic(t) ==
    IsIdle(t) /\ Enforce(t, "PublicPending", 0, 0) /\ UNCHANGED <<balance, xclock, cosigned>>

ApplyPublicCoSignerApproval(t, offset) ==
    /\ IsIdle(t)
    /\ Enforce(t, "PublicApproved", 0, xclock + offset)
    /\ cosigned' = cosigned \cup {xclock + offset}
    /\ UNCHANGED <<balance, xclock>>

\* activate_public and record_public_heartbeat: the expiry is read under a read lock
\* that is dropped.
ReadTtl(t, at, from) ==
    /\ IsIdle(t)
    /\ exposure.label = from
    /\ xtask' = [xtask EXCEPT ![t].at = at, ![t].ttl = exposure.ttl]
    /\ UNCHANGED <<exposure, balance, xclock, cosigned>>

ActivatePublic(t) ==
    /\ xtask[t].at = "activate"
    /\ \/ Enforce(t, "PublicActive", xclock, xtask[t].ttl)
       \/ /\ ~TransitionAllowed(exposure.label, "PublicActive")
          /\ xtask' = [xtask EXCEPT ![t] = NoCall]
          /\ UNCHANGED exposure
    /\ UNCHANGED <<balance, xclock, cosigned>>

\* A heartbeat that starts a new time to live.
HeartbeatRenews(t) ==
    /\ xtask[t].at = "beat"
    /\ exposure' = [label |-> "PublicActive", heartbeat |-> xclock, ttl |-> xclock + PublicInterval]
    /\ ThenHistory(t, exposure.label, "PublicActive")
    /\ UNCHANGED <<balance, xclock, cosigned>>

\* record_public_heartbeat writes whatever the state is by then.
RecordPublicHeartbeat(t) ==
    /\ xtask[t].at = "beat"
    /\ exposure' = [label |-> "PublicActive", heartbeat |-> xclock, ttl |-> xtask[t].ttl]
    /\ ThenHistory(t, exposure.label, "PublicActive")
    /\ UNCHANGED <<balance, xclock, cosigned>>

Revoke(t) ==
    IsIdle(t) /\ Enforce(t, "Revoked", 0, 0) /\ UNCHANGED <<balance, xclock, cosigned>>

ResetToLoopback(t) ==
    IsIdle(t) /\ Enforce(t, "Loopback", 0, 0) /\ UNCHANGED <<balance, xclock, cosigned>>

\* The exposure ran out of heartbeats or of its time to live.
Lapsed ==
    \/ exposure.label = "LanActive" /\ xclock - exposure.heartbeat > LanInterval
    \/ exposure.label = "PublicActive" /\ xclock - exposure.heartbeat > PublicInterval
    \/ exposure.label \in {"PublicApproved", "PublicActive"} /\ xclock > exposure.ttl

\* check_heartbeat: the state is read here and revoked in a second critical section.
CheckHeartbeat(t) ==
    /\ IsIdle(t)
    /\ Lapsed
    /\ xtask' = [xtask EXCEPT ![t].at = "lapse"]
    /\ UNCHANGED <<exposure, balance, xclock, cosigned>>

RevokeLapsed(t) ==
    /\ xtask[t].at = "lapse"
    /\ Enforce(t, "Revoked", 0, 0)
    /\ UNCHANGED <<balance, xclock, cosigned>>

OneIf(l, m) == IF l = m THEN 1 ELSE 0

RecordTransition(t) ==
    /\ xtask[t].at = "record"
    /\ balance' = [l \in Labels |-> balance[l] + OneIf(l, xtask[t].to) - OneIf(l, xtask[t].from)]
    /\ xtask' = [xtask EXCEPT ![t] = NoCall]
    /\ UNCHANGED <<exposure, xclock, cosigned>>

ExposureTick ==
    /\ xclock < MaxExposureTime
    /\ xclock' = xclock + 1
    /\ UNCHANGED <<exposure, balance, xtask, cosigned>>

ExposureNext ==
    \/ \E t \in ExposureTasks :
        \/ RequestLan(t) \/ ApplyLanPolicyDecision(t) \/ ActivateLan(t)
        \/ RequestPublic(t)
        \/ \E offset \in TtlOffsets : ApplyPublicCoSignerApproval(t, offset)
        \/ ReadTtl(t, "activate", "PublicApproved") \/ ActivatePublic(t)
        \/ ReadTtl(t, "beat", "PublicActive") \/ RecordPublicHeartbeat(t)
        \/ Revoke(t) \/ ResetToLoopback(t)
        \/ CheckHeartbeat(t) \/ RevokeLapsed(t)
        \/ RecordTransition(t)
    \/ ExposureTick

ExposureSpec == ExposureInit /\ [][ExposureNext]_exposureVars

--------------------------------------------------------------------------------
\* A public exposure ends at a time that a co-signer approved, also when its expiry
\* was read before a revocation and a second approval: no heartbeat and no activation
\* makes up an expiry (activate_public, record_public_heartbeat).
TtlCosigned == exposure.label \in {"PublicApproved", "PublicActive"} => exposure.ttl \in cosigned

\* The calls that have yet to enter a transition to l, or from l, in the history.
Arriving(l) == {t \in ExposureTasks : xtask[t].at = "record" /\ xtask[t].to = l}
Leaving(l) == {t \in ExposureTasks : xtask[t].at = "record" /\ xtask[t].from = l}

\* The history accounts for the state: with the transitions still to be entered it is
\* a path from Loopback to the present label, although entries of concurrent calls may
\* come in any order (record_transition after the lock is dropped).
HistoryBalances ==
    \A l \in Labels :
        balance[l] + Cardinality(Arriving(l)) - Cardinality(Leaving(l))
            = OneIf(l, exposure.label) - OneIf(l, "Loopback")

\* The host becomes public from an approval only, except by a heartbeat that read a
\* public exposure before it was revoked and writes after (transition_allowed).
PublicIsArmed ==
    [][exposure'.label = "PublicActive" /\ exposure.label \notin {"PublicApproved", "PublicActive"}
        => \E t \in ExposureTasks : xtask[t].at = "beat"]_exposureVars

\* "LanActive -> PublicPending direct transition is forbidden; PUBLIC must re-arm from
\* Loopback": no step makes a host public that was not approved to be.
PublicRearms ==
    [][exposure'.label = "PublicActive" => exposure.label \in {"PublicApproved", "PublicActive"}]_exposureVars
================================================================================
