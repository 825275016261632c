----------------------------- MODULE OutboundGrants ------------------------------
(* OutboundGrantRegistry: the append-only manifest of the outbound grants of a     *)
(* subject, the tombstones of revoked grants, and the allowlist that a connection  *)
(* is evaluated against.  Manifests and tombstones have a lock each, and           *)
(* append_grant and revoke_grant drop the lock between their check and their write.*)
(* Signatures are assumed valid: a grant that fails one changes nothing.           *)
EXTENDS Naturals, Sequences

CONSTANTS
    GrantCallers,    \* the RPCs that may be in progress together
    GrantSubjects,
    GrantIds,
    Expiries,        \* expires_at of a grant; the largest stands for a grant without one
    MaxGrants        \* bound on the grants of a manifest

ASSUME ExpiriesAreTimes == Expiries \subseteq Nat

VARIABLES
    manifest,        \* manifest[s]: sequence of [id, expires, seen]; seen is how many grants it was checked against
    tombstones,      \* the revoked_grant_ids; order and repetitions make no difference
    gcall,           \* gcall[c]: the call in progress
    refusedNarrow    \* a grant was refused although every longer one of its subject was revoked

grantVars == <<manifest, tombstones, gcall, refusedNarrow>>

Ready == [at |-> "idle"]

GrantsInit ==
    /\ manifest = [s \in GrantSubjects |-> <<>>]
    /\ tombstones = {}
    /\ gcall = [c \in GrantCallers |-> Ready]
    /\ refusedNarrow = FALSE

\* shrink_attempt: some grant of the manifest, revoked or not, lasts longer.
Shrinks(expires, grants) == \E i \in DOMAIN grants : expires < grants[i].expires

Tombstoned(id) == id \in tombstones

\* append_grant up to the end of the shrink check.
CheckGrant(c, s, id, expires) ==
    /\ gcall[c].at = "idle"
    /\ IF Shrinks(expires, manifest[s])
       THEN /\ refusedNarrow' = (refusedNarrow \/ \A i \in DOMAIN manifest[s] :
                                    expires < manifest[s][i].expires => Tombstoned(manifest[s][i].id))
            /\ UNCHANGED gcall
       ELSE /\ gcall' = [gcall EXCEPT ![c] = [at |-> "append", subject |-> s,
                             grant |-> [id |-> id, expires |-> expires, seen |-> Len(manifest[s])]]]
            /\ UNCHANGED refusedNarrow
    /\ UNCHANGED <<manifest, tombstones>>

AppendGrant(c) ==
    /\ gcall[c].at = "append"
    /\ LET s == gcall[c].subject
       IN  /\ Len(manifest[s]) < MaxGrants
           /\ manifest' = [manifest EXCEPT ![s] = Append(@, gcall[c].grant)]
    /\ gcall' = [gcall EXCEPT ![c] = Ready]
    /\ UNCHANGED <<tombstones, refusedNarrow>>

\* revoke_grant up to the search through every manifest.
FindGrant(c, id) ==
    /\ gcall[c].at = "idle"
    /\ \E s \in GrantSubjects : \E i \in DOMAIN manifest[s] : manifest[s][i].id = id
    /\ gcall' = [gcall EXCEPT ![c] = [at |-> "revoke", id |-> id]]
    /\ UNCHANGED <<manifest, tombstones, refusedNarrow>>

PushTombstone(c) ==
    /\ gcall[c].at = "revoke"
    /\ tombstones' = tombstones \cup {gcall[c].id}
    /\ gcall' = [gcall EXCEPT ![c] = Ready]
    /\ UNCHANGED <<manifest, refusedNarrow>>

\* effective_allowlist that applies a tombstone to the grants entered by then only.
EffectiveSince(s) ==
    {manifest[s][i].id : i \in {j \in DOMAIN manifest[s] :
        ~Tombstoned(manifest[s][j].id) \/ \E k \in DOMAIN manifest[s] : k < j /\ manifest[s][k].id = manifest[s][j].id}}

\* effective_allowlist: the grants of a subject whose id has no tombstone.
Effective(s) ==
    {manifest[s][i].id : i \in {j \in DOMAIN manifest[s] : ~Tombstoned(manifest[s][j].id)}}

GrantsNext ==
    \E c \in GrantCallers :
        \/ \E s \in GrantSubjects, id \in GrantIds, expires \in Expiries : CheckGrant(c, s, id, expires)
        \/ AppendGrant(c)
        \/ \E id \in GrantIds : FindGrant(c, id)
        \/ PushTombstone(c)

GrantsSpec == GrantsInit /\ [][GrantsNext]_grantVars

--------------------------------------------------------------------------------
\* A grant is never shorter than one it was checked against: only a grant that came
\* in between the check and the append of a concurrent call can be longer
\* (append_grant, "no in-place shrink").
NoShrink ==
    \A s \in GrantSubjects : \A j \in DOMAIN manifest[s] :
        \A i \in 1 .. manifest[s][j].seen : manifest[s][i].expires <= manifest[s][j].expires

\* Once a grant was revoked its entries are never effective again for any subject,
\* also when a grant with the same id is appended later or was on its way
\* (effective_allowlist).
RevokedStaysOut ==
    [][\A s \in GrantSubjects, id \in GrantIds : Tombstoned(id) => id \notin Effective(s)']_grantVars

\* "Reduction happens via revoke_grant + a fresh narrower grant, not in-place
\* mutation": a grant is not refused for being shorter than revoked grants only.
NarrowAfterRevoke == ~refusedNarrow
================================================================================
