---------------------------- MODULE PolicyKernel ----------------------------
(* The policy kernel of aios-policy as its service drives it: the version      *)
(* label of the service and the bundle slot of the kernel, the stack of        *)
(* displaced bundles, the emergency-override grants and the LRU cache of       *)
(* decisions, each behind its own lock (kernel.rs, cache.rs,                   *)
(* override_boundary.rs, service/server.rs).                                   *)
(*                                                                             *)
(* Abstractions: a bundle is its version, and a version may be loaded again; a *)
(* request is its hash, which leaves the subject out; a refused load, grant or *)
(* schema changes nothing; the explain log only records what was returned.     *)
(* `era` and the fields era, late, subject of an entry and under are history:  *)
(* the number of label swaps, and where an entry or a grant came from.         *)
EXTENDS Naturals, Sequences, FiniteSets

CONSTANTS
    Requests,           \* request hashes
    Askers,             \* subjects of the envelopes
    HardDenied,         \* the <<request, subject>> a hard-deny class matches
    Admins,             \* concurrent LoadBundle and RollbackBundle calls
    Evaluators,         \* concurrent EvaluatePolicy calls
    CacheCapacity,      \* entries of the decision cache
    StackCapacity,      \* rollback_capacity
    Versions,           \* bundle versions that may be loaded
    MaxLoads,           \* bound on the loads
    MaxRollbacks,       \* bound on the rollbacks
    MaxGrants,          \* bound on the override grants held
    OverrideTtl,        \* validity of an override grant
    MaxNow              \* bound on the clock

ASSUME PolicyBounds ==
    /\ Versions \subseteq Nat \ {0}
    /\ CacheCapacity \in Nat \ {0} /\ StackCapacity \in Nat \ {0}
    /\ MaxGrants \in Nat /\ MaxNow \in Nat

VARIABLES
    label,          \* active_bundle_version of the service
    activeBundle,   \* active_bundle of the kernel, 0 for None
    bundleStack,    \* rollback_stack, oldest first
    cache,          \* decision_cache, least recently used first
    grants,         \* OverrideBoundary.grants
    now,
    loads,          \* LoadBundle calls so far
    rollbacks,      \* RollbackBundle calls so far
    era,
    adminPc,
    evalPc

policyVars == <<label, activeBundle, bundleStack, cache, grants, now, loads,
                rollbacks, era, adminPc, evalPc>>

IdleAdmin == [at |-> "idle", call |-> "load", bundle |-> 0, displaced |-> 0, old |-> 0]
IdleEval == [at |-> "idle", req |-> 0, subject |-> 0, ver |-> 0, era |-> 0, decision |-> "NONE"]

PolicyInit ==
    /\ label = 0 /\ activeBundle = 0
    /\ bundleStack = <<>> /\ cache = <<>> /\ grants = {}
    /\ now = 0 /\ loads = 0 /\ rollbacks = 0 /\ era = 0
    /\ adminPc = [a \in Admins |-> IdleAdmin]
    /\ evalPc = [e \in Evaluators |-> IdleEval]

AdminAt(a, at) ==
    adminPc' = [adminPc EXCEPT ![a] = IF at = "idle" THEN IdleAdmin ELSE [@ EXCEPT !.at = at]]

-----------------------------------------------------------------------------
(* load_bundle: swap_active_bundle_version, then set_active_bundle, then the   *)
(* cache. A rollback restores a bundle first and swaps the label afterwards;   *)
(* when the caller expected another bundle it ends with set_active_bundle.     *)
LoadBundle(a, v) ==
    /\ adminPc[a].at = "idle" /\ loads < MaxLoads
    /\ loads' = loads + 1
    /\ label' = v
    /\ era' = era + 1
    /\ adminPc' = [adminPc EXCEPT ![a] =
          [at |-> "slot", call |-> "load", bundle |-> v, displaced |-> 0, old |-> label]]
    /\ UNCHANGED <<activeBundle, bundleStack, cache, grants, now, rollbacks, evalPc>>

\* rollback_active_bundle: the pop; the caller's target may not match
RollbackBundle(a, call) ==
    /\ adminPc[a].at = "idle" /\ rollbacks < MaxRollbacks
    /\ bundleStack # <<>>
    /\ rollbacks' = rollbacks + 1
    /\ bundleStack' = SubSeq(bundleStack, 1, Len(bundleStack) - 1)
    /\ adminPc' = [adminPc EXCEPT ![a] =
          [at |-> "restore", call |-> call, bundle |-> bundleStack[Len(bundleStack)],
           displaced |-> 0, old |-> 0]]
    /\ UNCHANGED <<label, activeBundle, cache, grants, now, loads, era, evalPc>>

\* set_active_bundle and rollback_active_bundle: slot.replace
SwapSlot(a) ==
    /\ adminPc[a].at \in {"slot", "restore"}
    /\ activeBundle' = adminPc[a].bundle
    /\ adminPc' = [adminPc EXCEPT
          ![a].at = CASE @ = "restore" -> "clearRestored"
                      [] @ = "slot" /\ activeBundle = 0 -> "clear"
                      [] OTHER -> "push",
          ![a].displaced = activeBundle]
    /\ UNCHANGED <<label, bundleStack, cache, grants, now, loads, rollbacks, era, evalPc>>

\* set_active_bundle: the displaced bundle goes on the bounded stack
PushDisplaced(a) ==
    /\ adminPc[a].at = "push"
    /\ bundleStack' = Append(IF Len(bundleStack) >= StackCapacity THEN Tail(bundleStack)
                             ELSE bundleStack, adminPc[a].displaced)
    /\ AdminAt(a, "clear")
    /\ UNCHANGED <<label, activeBundle, cache, grants, now, loads, rollbacks, era, evalPc>>

\* invalidate_for_bundle_flip, and where the call goes on
ClearGrants(a) ==
    /\ adminPc[a].at \in {"clear", "clearRestored"}
    /\ grants' = {}
    /\ AdminAt(a, IF adminPc[a].at = "clear"
                  THEN IF adminPc[a].call = "load" THEN "invalidate" ELSE "idle"
                  ELSE IF adminPc[a].call = "refused" THEN "slot" ELSE "label")
    /\ UNCHANGED <<label, activeBundle, bundleStack, cache, now, loads, rollbacks, era, evalPc>>

\* rollback_bundle: swap_active_bundle_version
SwapLabel(a) ==
    /\ adminPc[a].at = "label"
    /\ label' = adminPc[a].bundle
    /\ era' = era + 1
    /\ adminPc' = [adminPc EXCEPT ![a].at = "invalidate", ![a].old = label]
    /\ UNCHANGED <<activeBundle, bundleStack, cache, grants, now, loads, rollbacks, evalPc>>

\* The enumeration of a set of places in ascending order, and what is there.
Ascending(S) ==
    {f \in [1..Cardinality(S) -> S] : \A i, j \in DOMAIN f : i < j => f[i] < f[j]}

At(places) == [i \in DOMAIN places |-> cache[places[i]]]

\* The version just installed is swept instead of the previous one.
InvalidateNew(a) ==
    /\ adminPc[a].at = "invalidate"
    /\ \E places \in Ascending({k \in DOMAIN cache : cache[k].ver # adminPc[a].bundle}) :
          cache' = At(places)
    /\ AdminAt(a, "idle")
    /\ UNCHANGED <<label, activeBundle, bundleStack, grants, now, loads, rollbacks, era, evalPc>>

\* invalidate_for_bundle(previous version)
InvalidateForBundle(a) ==
    /\ adminPc[a].at = "invalidate"
    /\ \E places \in Ascending({k \in DOMAIN cache : cache[k].ver # adminPc[a].old}) :
          cache' = At(places)
    /\ AdminAt(a, "idle")
    /\ UNCHANGED <<label, activeBundle, bundleStack, grants, now, loads, rollbacks, era, evalPc>>

-----------------------------------------------------------------------------
\* request_override_at, revoke and prune_expired
RequestOverride ==
    /\ Cardinality(grants) < MaxGrants
    /\ grants' = grants \union
          {[expires |-> now + OverrideTtl, revoked |-> FALSE, under |-> activeBundle]}
    /\ UNCHANGED <<label, activeBundle, bundleStack, cache, now, loads, rollbacks, era,
                   adminPc, evalPc>>

RevokeGrant(g) ==
    /\ g \in grants
    /\ grants' = (grants \ {g}) \union {[g EXCEPT !.revoked = TRUE]}
    /\ UNCHANGED <<label, activeBundle, bundleStack, cache, now, loads, rollbacks, era,
                   adminPc, evalPc>>

\* is_expired_or_revoked
InForce(g) == ~g.revoked /\ now < g.expires

PruneExpired ==
    /\ grants' = {g \in grants : InForce(g)}
    /\ UNCHANGED <<label, activeBundle, bundleStack, cache, now, loads, rollbacks, era,
                   adminPc, evalPc>>

PolicyTick ==
    /\ now < MaxNow
    /\ now' = now + 1
    /\ UNCHANGED <<label, activeBundle, bundleStack, cache, grants, loads, rollbacks, era,
                   adminPc, evalPc>>

-----------------------------------------------------------------------------
EvalAt(e, p) == evalPc' = [evalPc EXCEPT ![e] = p]

\* evaluate_internal: the context takes the version label of the service
BuildContext(e, r, s) ==
    /\ evalPc[e].at = "idle"
    /\ EvalAt(e, [at |-> "lookup", req |-> r, subject |-> s, ver |-> label, era |-> era,
                  decision |-> "NONE"])
    /\ UNCHANGED <<label, activeBundle, bundleStack, cache, grants, now, loads, rollbacks,
                   era, adminPc>>

\* CacheKey: the request hash and the bundle version, not the subject
Hits(entry, p) == entry.req = p.req /\ entry.ver = p.ver

\* evaluate_policy: a hit is served and becomes the most recently used entry
CacheLookup(e) ==
    LET p == evalPc[e]
        hit == {k \in DOMAIN cache : Hits(cache[k], p)}
    IN
    /\ p.at = "lookup"
    /\ \/ /\ hit = {} /\ EvalAt(e, [p EXCEPT !.at = "decide"]) /\ UNCHANGED cache
       \/ \E k \in hit :
             /\ \E others \in Ascending(DOMAIN cache \ {k}) :
                   cache' = Append(At(others), cache[k])
             /\ EvalAt(e, [p EXCEPT !.at = "served", !.subject = cache[k].subject,
                                    !.decision = cache[k].decision])
    /\ UNCHANGED <<label, activeBundle, bundleStack, grants, now, loads, rollbacks, era, adminPc>>

(* evaluate_with_chain_full: an unknown subject or a hard deny is denied       *)
(* before the override grants are looked at, and everything else is denied by  *)
(* default. `covered`: the subject is hydrated, and in the scope of the grants *)
(* with the action it asks for (is_overridden_at).                             *)
Evaluate(e, covered) ==
    LET p == evalPc[e]
        relaxed == /\ covered /\ <<p.req, p.subject>> \notin HardDenied
                   /\ \E g \in grants : InForce(g)
    IN
    /\ p.at = "decide"
    /\ EvalAt(e, [p EXCEPT !.at = "put",
                           !.decision = IF relaxed THEN "ALLOW_BY_OVERRIDE" ELSE "DENY"])
    /\ UNCHANGED <<label, activeBundle, bundleStack, cache, grants, now, loads, rollbacks,
                   era, adminPc>>

\* LruCache::put: the key's entry is replaced, the oldest evicted when full
Put(entry) ==
    \E others \in Ascending({k \in DOMAIN cache : ~Hits(cache[k], entry)}) :
       cache' = Append(IF Len(others) >= CacheCapacity THEN Tail(At(others)) ELSE At(others),
                       entry)

CachePut(e) ==
    LET p == evalPc[e] IN
    /\ p.at = "put"
    /\ Put([req |-> p.req, ver |-> p.ver, decision |-> p.decision,
            subject |-> p.subject, era |-> p.era, late |-> p.era # era])
    /\ EvalAt(e, [p EXCEPT !.at = "served"])
    /\ UNCHANGED <<label, activeBundle, bundleStack, grants, now, loads, rollbacks, era, adminPc>>

\* The decision goes to the caller.
EvaluateReturns(e) ==
    /\ evalPc[e].at = "served"
    /\ EvalAt(e, IdleEval)
    /\ UNCHANGED <<label, activeBundle, bundleStack, cache, grants, now, loads, rollbacks,
                   era, adminPc>>

AdminStep(a) ==
    \/ (\E v \in Versions : LoadBundle(a, v)) \/ SwapSlot(a) \/ PushDisplaced(a) \/ ClearGrants(a)
    \/ SwapLabel(a) \/ InvalidateForBundle(a)
    \/ \E call \in {"rollback", "refused"} : RollbackBundle(a, call)

EvalStep(e) ==
    \/ \E r \in Requests, s \in Askers : BuildContext(e, r, s)
    \/ CacheLookup(e) \/ CachePut(e) \/ EvaluateReturns(e)
    \/ \E covered \in BOOLEAN : Evaluate(e, covered)

PolicyNext ==
    \/ \E a \in Admins : AdminStep(a)
    \/ \E e \in Evaluators : EvalStep(e)
    \/ RequestOverride \/ PruneExpired \/ PolicyTick
    \/ \E g \in grants : RevokeGrant(g)

PolicySpec == PolicyInit /\ [][PolicyNext]_policyVars

-----------------------------------------------------------------------------
Flipping == \E a \in Admins : adminPc[a].at \in {"slot", "restore", "push", "clear", "clearRestored"}

\* Types; the cache and the stack of bundles stay within their capacities and a
\* cache key is stored once (DecisionCache::put, set_active_bundle).
PolicyTypeOK ==
    /\ label \in Versions \union {0} /\ activeBundle \in Versions \union {0}
    /\ bundleStack \in Seq(Versions) /\ Len(bundleStack) <= StackCapacity
    /\ Len(cache) <= CacheCapacity
    /\ \A i, j \in DOMAIN cache : Hits(cache[i], cache[j]) => i = j
    /\ Cardinality(grants) <= MaxGrants

(* "override grants do not persist across bundle versions; a bundle flip       *)
(* invalidates active grants" (override_boundary.rs:38): once no flip is under *)
(* way, every grant was given under the bundle that is active, however two     *)
(* flips and the grants given between their steps interleave (kernel.rs:351).  *)
GrantsEndWithBundle == ~Flipping => \A g \in grants : g.under = activeBundle

(* "Bundle flip => all cached decisions for the old bundle invalidated"        *)
(* (cache.rs:189, server.rs:432): once no load or rollback is under way, what  *)
(* is cached was computed by a call that began after the last flip, also when  *)
(* loads and rollbacks overlapped or a version came back that was cached       *)
(* before. The exception is an entry put late, by an evaluation that a flip    *)
(* overtook between its context and its put (kernel.rs:557).                   *)
FlipsPurge ==
    (\A a \in Admins : adminPc[a].at = "idle") =>
        \A k \in DOMAIN cache : cache[k].late \/ cache[k].era = era

(* A decision is never relaxed for a subject whose request is hard-denied,     *)
(* neither by a grant when it is computed nor by an entry replaced or kept     *)
(* since (pipeline.rs:311-328). `subject` is whom the decision was computed    *)
(* for: the cache key leaves the subject out (kernel.rs:515), so a caller may  *)
(* be served the decision of another subject.                                  *)
HardDenyHolds ==
    \A e \in Evaluators :
        <<evalPc[e].req, evalPc[e].subject>> \in HardDenied =>
            evalPc[e].decision # "ALLOW_BY_OVERRIDE"

(* Whatever admins load and evaluators cache at the same time, a flip leaves   *)
(* nothing of earlier bundles in the cache but late puts, no hard denial is    *)
(* relaxed, and cache and bundle stack keep to their capacities (server.rs,    *)
(* cache.rs, pipeline.rs).                                                     *)
ServedSoundly == PolicyTypeOK /\ FlipsPurge /\ HardDenyHolds

(* server.rs:488 "Best-effort restore the displacement so the kernel isn't     *)
(* left in an unexpected state": when one rollback was refused and nothing     *)
(* else is under way, the active bundle is still the labelled one.             *)
RefusedRollbackRestores ==
    (\A a \in Admins : adminPc[a].at = "idle") => activeBundle = label

(* override_boundary.rs:33 "Time-bounded": a decision relaxed by an override   *)
(* is served only while some grant is in force.                                *)
OverrideTimeBounded ==
    [][\A e \in Evaluators :
          evalPc'[e].at = "served" /\ evalPc[e].at = "lookup" =>
              (evalPc'[e].decision = "ALLOW_BY_OVERRIDE" => \E g \in grants : InForce(g))]_policyVars
=============================================================================
