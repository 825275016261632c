---------------------------- MODULE IdentityCatalog ----------------------------
(* The vault's identity catalog: subjects with their groups, the reverse index   *)
(* group_membership that the context hydrator reads, and the sessions.  The three *)
(* maps have a lock each.  A change of groups writes the subject first and the    *)
(* index afterwards, so two calls on the same subject can cross.  One group       *)
(* stands for all: no operation relates two groups.                               *)
EXTENDS Naturals, FiniteSets

CONSTANTS
    Subjects,
    SessionIds,
    CatalogTasks,      \* concurrent callers
    CatalogMaxNow,     \* bound on the clock
    MaxGroupCalls      \* bound on the changes of groups

ASSUME CatalogClockBounded == CatalogMaxNow \in Nat

VARIABLES
    catNow,
    inGroup,           \* subjects: the registered ones, and whether each is in the group
    memberIndex,       \* group_membership[group]
    sessions,          \* the map: subject, state, expires_at
    catTask,           \* the index write each caller still owes
    crossed,           \* subjects two of whose group changes overlapped
    groupCalls

catVars == <<catNow, inGroup, memberIndex, sessions, catTask, crossed, groupCalls>>

NothingOwed == [op |-> "none", subject |-> 0]
NoSession == [subject |-> 0, state |-> "NONE", expires |-> 0]

CatalogInit ==
    /\ catNow = 0
    /\ inGroup = [s \in {} |-> FALSE]
    /\ memberIndex = {}
    /\ sessions = [i \in SessionIds |-> NoSession]
    /\ catTask = [p \in CatalogTasks |-> NothingOwed]
    /\ crossed = {}
    /\ groupCalls = 0

\* The first half of a call leaves the subjects' lock with the index write owed.
Owe(p, op, s) ==
    /\ catTask[p] = NothingOwed
    /\ groupCalls < MaxGroupCalls
    /\ groupCalls' = groupCalls + 1
    /\ catTask' = [catTask EXCEPT ![p] = [op |-> op, subject |-> s]]
    /\ crossed' = IF \E q \in CatalogTasks : catTask[q].op # "none" /\ catTask[q].subject = s
                    THEN crossed \cup {s} ELSE crossed
    /\ UNCHANGED <<catNow, memberIndex, sessions>>

\* register_subject: refuses a registered subject; member says whether the new one
\* comes with the group.
RegisterSubject(p, s, member) ==
    /\ s \notin DOMAIN inGroup
    /\ inGroup' = [t \in DOMAIN inGroup \cup {s} |-> IF t = s THEN member ELSE inGroup[t]]
    /\ Owe(p, IF member THEN "add" ELSE "keep", s)

\* add_to_group and remove_from_group refuse a call that changes nothing.
AddToGroup(p, s) ==
    /\ s \in DOMAIN inGroup
    /\ ~inGroup[s]
    /\ inGroup' = [inGroup EXCEPT ![s] = TRUE]
    /\ Owe(p, "add", s)

RemoveFromGroup(p, s) ==
    /\ s \in DOMAIN inGroup
    /\ inGroup[s]
    /\ inGroup' = [inGroup EXCEPT ![s] = FALSE]
    /\ Owe(p, "remove", s)

\* The removed subject stays in the index.
IndexedNeverRemoved(op, s) == IF op = "add" THEN memberIndex \cup {s} ELSE memberIndex

\* The index entry after the second half of the call.
Indexed(op, s) ==
    CASE op = "add" -> memberIndex \cup {s}
      [] op = "remove" -> memberIndex \ {s}
      [] OTHER -> memberIndex

UpdateIndex(p) ==
    /\ catTask[p] # NothingOwed
    /\ memberIndex' = Indexed(catTask[p].op, catTask[p].subject)
    /\ catTask' = [catTask EXCEPT ![p] = NothingOwed]
    /\ UNCHANGED <<catNow, inGroup, sessions, crossed, groupCalls>>

Rest == <<catNow, inGroup, memberIndex, catTask, crossed, groupCalls>>

\* transition_expired_session: an active or suspended session, past its expiry.
SessionExpiry(sess) ==
    IF sess.state \in {"ACTIVE", "SUSPENDED"} /\ sess.expires < catNow
      THEN [sess EXCEPT !.state = "EXPIRED"] ELSE sess

\* expire_past_sessions_for_subject.
ExpirePast(s) ==
    [i \in SessionIds |-> IF sessions[i].subject = s THEN SessionExpiry(sessions[i]) ELSE sessions[i]]

\* start_session: expire the subject's past sessions, then refuse if one is active.
StartSession(i, s, expires) ==
    /\ s \in DOMAIN inGroup
    /\ sessions[i] = NoSession
    /\ IF \E j \in SessionIds : /\ ExpirePast(s)[j].subject = s
                                /\ ExpirePast(s)[j].state = "ACTIVE"
                                /\ ExpirePast(s)[j].expires >= catNow
         THEN sessions' = ExpirePast(s)
         ELSE sessions' = [ExpirePast(s) EXCEPT
                              ![i] = [subject |-> s, state |-> "ACTIVE", expires |-> expires]]
    /\ UNCHANGED Rest

LookupSession(i) ==
    /\ sessions' = [sessions EXCEPT ![i] = SessionExpiry(@)]
    /\ UNCHANGED Rest

\* suspend_session: an expired session is marked so and the call refused.
SuspendSession(i) ==
    /\ sessions' = [sessions EXCEPT ![i] =
                       IF SessionExpiry(@).state = "ACTIVE" THEN [@ EXCEPT !.state = "SUSPENDED"]
                                                            ELSE SessionExpiry(@)]
    /\ UNCHANGED Rest

\* revoke_session: from any state.
RevokeSession(i) ==
    /\ sessions[i] # NoSession
    /\ sessions' = [sessions EXCEPT ![i].state = "REVOKED"]
    /\ UNCHANGED Rest

CatalogTick ==
    /\ catNow < CatalogMaxNow
    /\ catNow' = catNow + 1
    /\ UNCHANGED <<inGroup, memberIndex, sessions, catTask, crossed, groupCalls>>

CatalogNext ==
    \/ CatalogTick
    \/ \E p \in CatalogTasks :
        \/ UpdateIndex(p)
        \/ \E s \in Subjects :
            \/ AddToGroup(p, s)
            \/ RemoveFromGroup(p, s)
            \/ \E member \in BOOLEAN : RegisterSubject(p, s, member)
    \/ \E i \in SessionIds :
        \/ LookupSession(i)
        \/ SuspendSession(i)
        \/ RevokeSession(i)
        \/ \E s \in Subjects, expires \in 0..CatalogMaxNow : StartSession(i, s, expires)

CatalogSpec == CatalogInit /\ [][CatalogNext]_catVars

--------------------------------------------------------------------------------
\* A subject has at most one session that is active and not past its expiry, however
\* sessions are suspended, revoked and left to expire (start_session).
OneActiveSession ==
    \A i, j \in SessionIds :
        /\ sessions[i].subject = sessions[j].subject
        /\ \A k \in {i, j} : sessions[k].state = "ACTIVE" /\ sessions[k].expires >= catNow
        => i = j

\* Once every call has returned, the index the hydrator reads agrees with the groups
\* of each subject, unless two changes of that subject overlapped: the subject and
\* the index are written under different locks.
IndexAgrees ==
    (\A p \in CatalogTasks : catTask[p] = NothingOwed) =>
        \A s \in DOMAIN inGroup \ crossed : s \in memberIndex <=> inGroup[s]
================================================================================
