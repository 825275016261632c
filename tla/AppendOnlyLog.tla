--------------------------- MODULE AppendOnlyLog ---------------------------
(***************************************************************************)
(* What the evidence log promises whatever backend stores it: receipts are *)
(* only ever added, one at a time, at the end, and none is added twice.    *)
(* Sealing, compaction, crashes and restarts are invisible at this level.  *)
(***************************************************************************)
EXTENDS Sequences

CONSTANT Receipts

VARIABLE log

(* The set of receipts the log holds. *)
Logged == {log[i] : i \in DOMAIN log}

LogInit == log = << >>

Extend(r) == r \notin Logged /\ log' = Append(log, r)

(* Extending changes the log: a step that leaves it alone is told apart before *)
(* any receipt is tried.                                                       *)
LogNext == log' # log /\ \E r \in Receipts : Extend(r)

LogSpec == LogInit /\ [][LogNext]_log
=============================================================================
