--------------------------------- MODULE AiosFs ---------------------------------
(* InMemoryAiosFs: objects, immutable versions, the current pointer of an object,  *)
(* reference-counted chunks, quarantine, and the garbage collector.  Every call    *)
(* holds the state lock; a collector pass is a list, a call per listed version,    *)
(* another list and a call per listed chunk, and other calls run between them.     *)
(* Stable and rollback pointers exist only in the test harness.  A write with a    *)
(* stale expected snapshot changes nothing, and neither does a refused call.       *)
EXTENDS Naturals, Sequences, FiniteSets

CONSTANTS
    FsObjects,
    ChunkIds,
    ChunkLists,      \* the chunk_refs a writer may send: sequences over ChunkIds
    GcMax,           \* max_versions_per_pass and max_chunks_per_pass
    MaxVersions      \* bound on the versions written

ASSUME ChunkListsAreLists == ChunkLists \subseteq Seq(ChunkIds)

VARIABLES
    versions,        \* sequence of [object, parents, chunks, state]
    current,         \* current[o]: the version its pointer names, 0 before the first
    chunkRef,        \* chunkRef[c]: ref_count; 0 is stored with no reference
    stored,          \* keys of chunks
    purged,          \* purged_versions
    gc               \* [at, todo]: the pass of the collector

fsVars == <<versions, current, chunkRef, stored, purged, gc>>

GcIdle == [at |-> "idle", todo |-> {}]

FsInit ==
    /\ versions = <<>>
    /\ current = [o \in FsObjects |-> 0]
    /\ chunkRef = [c \in ChunkIds |-> 0]
    /\ stored = {}
    /\ purged = {}
    /\ gc = GcIdle

\* Where, and how often, a list of chunks names c.
Places(c, chunks) == {i \in DOMAIN chunks : chunks[i] = c}
Occurrences(c, chunks) == Cardinality(Places(c, chunks))

ChunksOf(v) == {versions[v].chunks[i] : i \in DOMAIN versions[v].chunks}

\* write_object: a first version, or one with parents of the same object; the chunks
\* are registered and the pointer is promoted in the same call.
WriteObject(o, parents, chunks) ==
    LET v == Len(versions) + 1
    IN  /\ v <= MaxVersions
        /\ IF current[o] = 0 THEN parents = {} ELSE parents # {}
        /\ \A p \in parents : versions[p].object = o
        /\ versions' = Append(versions, [object |-> o, parents |-> parents, chunks |-> chunks,
                                         state |-> "VERIFIED"])
        /\ current' = [current EXCEPT ![o] = v]
        /\ chunkRef' = [c \in ChunkIds |-> chunkRef[c] + Occurrences(c, chunks)]
        /\ stored' = stored \cup {chunks[i] : i \in DOMAIN chunks}
        /\ UNCHANGED <<purged, gc>>

\* prior_verified_parent: the parents the fallback may be.
VerifiedParents(v) == {p \in versions[v].parents : versions[p].state = "VERIFIED"}

\* apply_quarantine_entry: a current version is left for a verified parent, and the
\* call is refused when there is none.
ApplyQuarantineEntry(v) ==
    LET o == versions[v].object
    IN  /\ versions[v].state # "QUARANTINED"
        /\ versions' = [versions EXCEPT ![v].state = "QUARANTINED"]
        /\ \/ current[o] # v /\ UNCHANGED current
           \/ current[o] = v /\ \E p \in VerifiedParents(v) : current' = [current EXCEPT ![o] = p]
        /\ UNCHANGED <<chunkRef, stored, purged, gc>>

ApplyQuarantineExit(v, disposition) ==
    /\ versions[v].state = "QUARANTINED"
    /\ versions' = [versions EXCEPT ![v].state =
                       IF disposition = "RELEASED" THEN "VERIFIED" ELSE "RETIRED"]
    /\ UNCHANGED <<current, chunkRef, stored, purged, gc>>

\* purge_version, whatever the version's state and whoever points to it.
Purge(v) ==
    /\ v \notin purged
    /\ ChunksOf(v) \subseteq stored
    /\ versions' = [versions EXCEPT ![v].state = "RETIRED"]
    /\ chunkRef' = [c \in ChunkIds |->
                      LET n == Occurrences(c, versions[v].chunks)
                      IN  IF chunkRef[c] >= n THEN chunkRef[c] - n ELSE 0]
    /\ purged' = purged \cup {v}

\* purge_version called by an operator.
PurgeVersion(v) == Purge(v) /\ UNCHANGED <<current, stored, gc>>

\* The GcMax smallest of a set of ids.
Truncated(ids) == {i \in ids : Cardinality({j \in ids : j < i}) < GcMax}

First(ids) == CHOOSE i \in ids : \A j \in ids : i <= j

\* run_pass: retired_version_ids_for_gc.
GcListVersions ==
    /\ gc.at = "idle"
    /\ gc' = [at |-> "versions",
              todo |-> Truncated({v \in DOMAIN versions : versions[v].state = "RETIRED" /\ v \notin purged})]
    /\ UNCHANGED <<versions, current, chunkRef, stored, purged>>

\* run_pass: the next listed version; one purged meanwhile is skipped.
GcPurgeVersion ==
    LET v == First(gc.todo)
    IN  /\ gc.at = "versions"
        /\ gc.todo # {}
        /\ gc' = [gc EXCEPT !.todo = @ \ {v}]
        /\ \/ v \in purged /\ UNCHANGED <<versions, chunkRef, purged>>
           \/ Purge(v)
        /\ UNCHANGED <<current, stored>>

\* run_pass: zero_ref_chunk_ids_for_gc.
GcListChunks ==
    /\ gc.at = "versions"
    /\ gc.todo = {}
    /\ gc' = [at |-> "chunks", todo |-> Truncated({c \in stored : chunkRef[c] = 0})]
    /\ UNCHANGED <<versions, current, chunkRef, stored, purged>>

\* reclaim_chunk of what was listed, without a second look at the count.
ReclaimListed(c) == stored' = stored \ {c} /\ chunkRef' = [chunkRef EXCEPT ![c] = 0]

\* reclaim_chunk: refused when the chunk is referenced again.
ReclaimChunk(c) ==
    /\ stored' = IF chunkRef[c] = 0 THEN stored \ {c} ELSE stored
    /\ UNCHANGED chunkRef

GcReclaimChunk ==
    /\ gc.at = "chunks"
    /\ gc.todo # {}
    /\ gc' = [gc EXCEPT !.todo = @ \ {First(gc.todo)}]
    /\ ReclaimChunk(First(gc.todo))
    /\ UNCHANGED <<versions, current, purged>>

GcReport ==
    /\ gc.at = "chunks"
    /\ gc.todo = {}
    /\ gc' = GcIdle
    /\ UNCHANGED <<versions, current, chunkRef, stored, purged>>

FsNext ==
    \/ \E o \in FsObjects, parents \in SUBSET DOMAIN versions, chunks \in ChunkLists :
          WriteObject(o, parents, chunks)
    \/ \E v \in DOMAIN versions :
        \/ ApplyQuarantineEntry(v)
        \/ \E disposition \in {"RELEASED", "PURGED"} : ApplyQuarantineExit(v, disposition)
        \/ PurgeVersion(v)
    \/ GcListVersions
    \/ GcPurgeVersion
    \/ GcListChunks
    \/ GcReclaimChunk
    \/ GcReport

FsSpec == FsInit /\ [][FsNext]_fsVars

--------------------------------------------------------------------------------
\* The references to c from versions that were not purged.
References(c) == UNION {{v} \X Places(c, versions[v].chunks) : v \in (DOMAIN versions) \ purged}

\* The reference count of a chunk is the number of references from versions that
\* were not purged: writes, purges by an operator and a collector working from an
\* old list neither lose nor repeat a decrement (register_chunks, purge_version).
RefCountsExact == \A c \in ChunkIds : chunkRef[c] = Cardinality(References(c))

\* The content of a version that was not purged is never collected, also when the
\* chunk had no reference at the time it was listed (reclaim_chunk).
ContentKept == \A v \in DOMAIN versions : v \notin purged => ChunksOf(v) \subseteq stored

\* Chunk counts and contents stay right whatever writes, purges, quarantines and
\* collections overlap: counts are exact and live content is kept.
ContentSafe == RefCountsExact /\ ContentKept

\* No current pointer names a quarantined version, whatever was quarantined,
\* released, purged and written before (apply_quarantine_entry).
CurrentNotQuarantined ==
    \A o \in FsObjects : current[o] # 0 => versions[current[o]].state # "QUARANTINED"

\* "RETIRED_VERSION - superseded; readable for audit but not promotable": a pointer
\* never moves to a version that was purged.
PurgedNotPromoted ==
    [][\A o \in FsObjects : current'[o] # current[o] => current'[o] \notin purged]_fsVars
================================================================================
