------------------------- MODULE DurableEvidenceLog -------------------------
(***************************************************************************)
(* The RocksDB evidence log (aios-evidence/src/persistence) with the       *)
(* compaction worker (aios-evidence/src/compaction.rs) through crashes and *)
(* restarts.                                                               *)
(*                                                                         *)
(* Every write of the backend is one synced WriteBatch made under the      *)
(* write lock, so it is one step here; a batch that fails leaves disk and  *)
(* memory as they were (append pops the receipt it pushed), which is a     *)
(* stuttering step except for the worker, whose tick it ends.  A crash may *)
(* fall between any two steps, in particular between a durable append and  *)
(* its answer to the caller.                                               *)
(*                                                                         *)
(* A segment is named by its position in chain_index; its terminal         *)
(* SEGMENT_SEALED receipt, which has no row of its own, is left out.       *)
(***************************************************************************)
EXTENDS Integers, Sequences, FiniteSets, Functions, ChainOrder

CONSTANTS Workers,      \* compaction workers sharing the backend
          Policies,     \* the CompactionPolicy values a deployment may use
          Horizon,      \* 730 days: every segment is STANDARD_24M
          MaxTime,      \* bound on the clock
          DurableMaxReceipts,  \* bound on the receipts appended
          DurableMaxSegments,  \* bound on the segments sealed
          MaxCrashes,   \* bound on the crashes
          Down          \* the process is not running

ASSUME DurableBounds ==
  /\ IsFiniteSet(Workers)
  /\ Policies \subseteq {"auto", "operator_approval", "disabled"}
  /\ Horizon \in Nat \ {0}
  /\ {MaxTime, DurableMaxReceipts, DurableMaxSegments, MaxCrashes} \subseteq Nat

VARIABLES disk,    \* the column families
          mem,     \* BackendState, or Down
          worker,  \* the workers' bookkeeping and what is left of a tick
          policy,  \* CompactionWorker.policy
          unacked, \* receipts durable but not yet answered
          acked,   \* receipts whose Append returned Ok
          now,     \* wall clock
          crashes  \* restarts so far

durableVars == <<disk, mem, worker, policy, unacked, acked, now, crashes>>

Positions == 1 .. DurableMaxSegments

(* about = 0 for a caller's receipt (class STANDARD_24M), else the segment  *)
(* whose compaction the worker asks approval for (class FOREVER); boot is   *)
(* the run of the process that appended it.                                 *)
Receipt == [id : 1 .. DurableMaxReceipts, about : 0 .. DurableMaxSegments, boot : 0 .. MaxCrashes]
DurableSegment == [receipts : Seq(Receipt), prev : 0 .. DurableMaxSegments, sealedAt : 0 .. MaxTime]

EmptyDisk == [receipts |-> {}, segments |-> << >>, head |-> 0,
              current |-> << >>, compacted |-> {}]

NewWorker == [awaiting |-> {}, approved |-> {}, todo |-> << >>]

Up == mem # Down

(* What the log holds: sealed segments in chain order, then the open one. *)
Part(p) == IF p <= disk.head THEN disk.segments[p].receipts ELSE disk.current
DurableEntries == UNION {EntriesAt(p, Part(p)) : p \in 1 .. disk.head + 1}

Held == {e.receipt : e \in DurableEntries}

DurableInit ==
  /\ disk = EmptyDisk
  /\ mem = [current |-> << >>, head |-> 0]
  /\ worker = [w \in Workers |-> NewWorker]
  /\ policy \in Policies
  /\ unacked = {} /\ acked = {} /\ now = 0 /\ crashes = 0

-----------------------------------------------------------------------------
\* Mutant of PersistAppend: the snapshot is not rewritten.
PersistRowOnly(r) ==
  /\ mem' = [mem EXCEPT !.current = Append(@, r)]
  /\ disk' = [disk EXCEPT !.receipts = @ \cup {r}]

(* persist_append: the receipt's row and the rewritten snapshot, together. *)
PersistAppend(r) ==
  /\ mem' = [mem EXCEPT !.current = Append(@, r)]
  /\ disk' = [disk EXCEPT !.receipts = @ \cup {r}, !.current = mem'.current]

NewReceipt(about) == [id |-> Cardinality(DurableEntries) + 1, about |-> about, boot |-> crashes]

(* append: a caller's receipt becomes durable... *)
AppendReceipt ==
  /\ Up /\ Cardinality(DurableEntries) < DurableMaxReceipts
  /\ PersistAppend(NewReceipt(0))
  /\ unacked' = unacked \cup {NewReceipt(0)}
  /\ UNCHANGED <<worker, policy, acked, now, crashes>>

(* ... and is answered once the lock is released. *)
Acknowledge ==
  /\ Up
  /\ \E r \in unacked : unacked' = unacked \ {r} /\ acked' = acked \cup {r}
  /\ UNCHANGED <<disk, mem, worker, policy, now, crashes>>

\* Mutant of PersistSeal: the open snapshot is not cleared.
PersistSealKeepsSnapshot(seg, head) ==
  disk' = [disk EXCEPT !.segments = Append(@, seg), !.head = head]

(* persist_seal: the segment's row, its chain_index row, the new chain_head *)
(* and the cleared snapshot, together.                                      *)
PersistSeal(seg, head) ==
  disk' = [disk EXCEPT !.segments = Append(@, seg), !.head = head, !.current = << >>]

SealDurably ==
  /\ Up /\ mem.current # << >> /\ mem.head < DurableMaxSegments
  /\ PersistSeal([receipts |-> mem.current, prev |-> mem.head, sealedAt |-> now], mem.head + 1)
  /\ mem' = [current |-> << >>, head |-> mem.head + 1]
  /\ UNCHANGED <<worker, policy, unacked, acked, now, crashes>>

-----------------------------------------------------------------------------
(* recover_sealed_chain: each position has its segment, linked to the one   *)
(* before it.                                                               *)
Verifies == \A i \in 1 .. disk.head :
              i \in DOMAIN disk.segments /\ disk.segments[i].prev = i - 1

(* The process dies: memory, the workers' bookkeeping and the answers it    *)
(* owed are gone.                                                           *)
Crash ==
  /\ Up /\ crashes < MaxCrashes
  /\ mem' = Down
  /\ worker' = [w \in Workers |-> NewWorker]
  /\ unacked' = {}
  /\ crashes' = crashes + 1
  /\ UNCHANGED <<disk, policy, acked, now>>

(* open: verify the sealed chain, restore the open snapshot. *)
Open ==
  /\ ~Up /\ Verifies
  /\ mem' = [current |-> disk.current, head |-> disk.head]
  /\ UNCHANGED <<disk, worker, policy, unacked, acked, now, crashes>>

-----------------------------------------------------------------------------
(* is_eligible, for the STANDARD_24M class every segment is opened with. *)
IsEligible(p) == now - disk.segments[p].sealedAt >= Horizon

(* list_sealed_segments: those without a compacted-at sentinel, oldest      *)
(* first, here narrowed to the eligible ones the tick goes on to handle.    *)
Eligible == {p \in 1 .. disk.head : p \notin disk.compacted /\ IsEligible(p)}

EligibleSegments ==
  {q \in [1 .. Cardinality(Eligible) -> Eligible] :
     \A i, j \in DOMAIN q : i < j => q[i] < q[j]}

(* tick begins: it works through the list as it is now. *)
TickStart(w) ==
  /\ Up /\ worker[w].todo = << >> /\ policy # "disabled"
  /\ \E list \in EligibleSegments : worker' = [worker EXCEPT ![w].todo = list]
  /\ UNCHANGED <<disk, mem, policy, unacked, acked, now, crashes>>

(* compact_segment: the rows of the segment's receipts go, the sentinel is  *)
(* written; the segment's own row stays.                                    *)
CompactSegment(p) ==
  disk' = [disk EXCEPT !.receipts = @ \ Range(disk.segments[p].receipts),
                       !.compacted = @ \cup {p}]

Next_(w) == Head(worker[w].todo)
\* Mutant of MayCompact: having asked counts as having been approved.
MayCompactReported(w) ==
  policy = "auto" \/ Next_(w) \in worker[w].approved \cup worker[w].awaiting

MayCompact(w) == policy = "auto" \/ Next_(w) \in worker[w].approved

TickCompact(w) ==
  /\ Up /\ worker[w].todo # << >> /\ MayCompact(w)
  /\ CompactSegment(Next_(w))
  /\ worker' = [worker EXCEPT ![w] = [awaiting |-> @.awaiting \ {Next_(w)},
                                      approved |-> @.approved \ {Next_(w)},
                                      todo |-> Tail(@.todo)]]
  /\ UNCHANGED <<mem, policy, unacked, acked, now, crashes>>

(* Already reported on an earlier tick: keep waiting. *)
TickWait(w) ==
  /\ Up /\ worker[w].todo # << >> /\ ~MayCompact(w)
  /\ Next_(w) \in worker[w].awaiting
  /\ worker' = [worker EXCEPT ![w].todo = Tail(@)]
  /\ UNCHANGED <<disk, mem, policy, unacked, acked, now, crashes>>

(* emit_approval_required, then the bookkeeping. *)
TickReport(w) ==
  /\ Up /\ worker[w].todo # << >> /\ ~MayCompact(w)
  /\ Next_(w) \notin worker[w].awaiting
  /\ Cardinality(DurableEntries) < DurableMaxReceipts
  /\ PersistAppend(NewReceipt(Next_(w)))
  /\ worker' = [worker EXCEPT ![w].awaiting = @ \cup {Next_(w)}, ![w].todo = Tail(@)]
  /\ UNCHANGED <<policy, unacked, acked, now, crashes>>

(* A backend error ends the tick (the `?`s of tick). *)
TickFails(w) ==
  /\ Up /\ worker[w].todo # << >>
  /\ worker' = [worker EXCEPT ![w].todo = << >>]
  /\ UNCHANGED <<disk, mem, policy, unacked, acked, now, crashes>>

(* approve_segment: between ticks (both take &mut self); the segment need   *)
(* not be known.                                                            *)
ApproveSegment(w, p) ==
  /\ Up /\ worker[w].todo = << >>
  /\ worker' = [worker EXCEPT ![w].approved = @ \cup {p}, ![w].awaiting = @ \ {p}]
  /\ UNCHANGED <<disk, mem, policy, unacked, acked, now, crashes>>

ClockAdvances ==
  /\ now < MaxTime /\ now' = now + 1
  /\ UNCHANGED <<disk, mem, worker, policy, unacked, acked, crashes>>

Tick(w) == TickStart(w) \/ TickCompact(w) \/ TickWait(w) \/ TickReport(w) \/ TickFails(w)

DurableNext ==
  \/ AppendReceipt \/ Acknowledge \/ SealDurably
  \/ Crash \/ Open \/ ClockAdvances
  \/ \E w \in Workers : Tick(w) \/ \E p \in Positions : ApproveSegment(w, p)

DurableSpec == DurableInit /\ [][DurableNext]_durableVars

-----------------------------------------------------------------------------
(* Every variable has its type; a segment enters chain_index only whole. *)
DurableTypeOK ==
  /\ disk \in [receipts : SUBSET Receipt, segments : Seq(DurableSegment), head : 0 .. DurableMaxSegments,
               current : Seq(Receipt), compacted : SUBSET Positions]
  /\ mem \in {Down} \cup [current : Seq(Receipt), head : 0 .. DurableMaxSegments]
  /\ worker \in [Workers -> [awaiting : SUBSET Positions, approved : SUBSET Positions,
                             todo : Seq(Positions)]]
  /\ policy \in Policies /\ now \in 0 .. MaxTime /\ crashes \in 0 .. MaxCrashes
  /\ unacked \subseteq Receipt /\ acked \subseteq Receipt

(* An acknowledged receipt survives every crash and every compaction: it is *)
(* in a sealed segment or in the open snapshot on disk.                     *)
AckedSurvive == acked \subseteq Held

(* What read_receipt finds: the open segment in memory, else the row. *)
Readable == Range(mem.current) \cup disk.receipts

(* The receipts of compacted segments. *)
CompactedAway == UNION {Range(disk.segments[p].receipts) : p \in disk.compacted}

(* While the process runs, read_receipt finds every receipt of the log      *)
(* except exactly those of compacted segments.                              *)
ReadableUnlessCompacted == Up => Readable = Held \ CompactedAway

(* Recovery restores the state of the last successful append: whenever the  *)
(* process runs, memory and disk agree on the open segment and the head.    *)
RecoveredExactly == Up => mem = [current |-> disk.current, head |-> disk.head]

(* Whatever step a crash follows, open's walk of the sealed chain succeeds: *)
(* compaction and a half-finished tick never break it.                      *)
AlwaysRecoverable == Verifies

(* A segment is compacted only past its retention horizon and, under        *)
(* OperatorApproval, only by a worker an operator approved it to in this    *)
(* run of the process, however stale the tick's list is.                    *)
CompactionJustified ==
  [][\A p \in disk'.compacted \ disk.compacted :
       /\ now - disk.segments[p].sealedAt >= Horizon
       /\ policy = "operator_approval" => \E w \in Workers : p \in worker[w].approved
       /\ policy # "disabled"]_durableVars

(* Approval-required records for segment p. *)
Reports(p) == {r \in Held : r.about = p}

(* Each worker asks for approval of a segment at most once in one run       *)
(* of the process, however often it ticks and wherever a tick fails.        *)
ReportedOncePerBoot ==
  \A p \in Positions, b \in 0 .. MaxCrashes :
    Cardinality({r \in Reports(p) : r.boot = b}) <= Cardinality(Workers)

(* No crash, at whatever point of an append, a seal or a compaction, loses  *)
(* what was acknowledged: the log on disk verifies, memory is rebuilt from  *)
(* it exactly, everything but compacted rows can be read, and a worker's    *)
(* retries repeat no record (open, recover, append_receipt, tick).          *)
CrashSafe ==
  /\ DurableTypeOK /\ AckedSurvive /\ ReadableUnlessCompacted
  /\ RecoveredExactly /\ AlwaysRecoverable /\ ReportedOncePerBoot

DurableLog == InOrder(DurableEntries)

DurableAppendOnly == INSTANCE AppendOnlyLog WITH Receipts <- Receipt, log <- DurableLog

(* Through appends, seals, compactions, crashes and restarts the durable    *)
(* log is an append-only log.                                               *)
DurableIsAppendOnly == DurableAppendOnly!LogSpec

(* What the comment on tick says: an approval-required record is emitted    *)
(* once per segment.                                                        *)
ReportedOnce == \A p \in Positions : Cardinality(Reports(p)) <= 1

(* What the compaction module's rules say: only receipts aged past their    *)
(* retention class go, and those of class FOREVER never do.                 *)
ForeverReceiptsKept == \A r \in CompactedAway : r.about = 0
=============================================================================
