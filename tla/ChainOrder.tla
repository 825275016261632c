----------------------------- MODULE ChainOrder -----------------------------
(***************************************************************************)
(* Reading a chain of segments as one log.  An entry is a receipt with the *)
(* position of its segment and its position in that segment; the log is    *)
(* the receipts of the entries in the order of their positions.            *)
(***************************************************************************)
EXTENDS Integers, FiniteSets

(* The entries of the segment at position p with these receipts. *)
EntriesAt(p, receipts) ==
  {[segment |-> p, at |-> i, receipt |-> receipts[i]] : i \in DOMAIN receipts}

(* Entry e comes before entry f. *)
Precedes(e, f) == e.segment < f.segment \/ (e.segment = f.segment /\ e.at < f.at)

(* The number of the entries of E before entry f. *)
Rank(E, f) == Cardinality({e \in E : Precedes(e, f)})

(* The receipts of the entries E, in order. *)
InOrder(E) ==
  [n \in 1 .. Cardinality(E) |-> (CHOOSE e \in E : Rank(E, e) = n - 1).receipt]
=============================================================================
