------------------------------ MODULE MCEvidence ------------------------------
(* The two evidence backends: the in-memory log that Subscribe streams from, and  *)
(* the durable log with its compaction.  A deployment uses one of them, chosen at *)
(* the start of a behaviour.                                                      *)
EXTENDS EvidenceStream, DurableEvidenceLog

VARIABLE backend

MCInit ==
  /\ Init /\ DurableInit
  /\ backend \in {"memory", "durable"}
  /\ backend = "memory" => policy = "disabled"

MCNext ==
  /\ \/ backend = "memory" /\ Next /\ UNCHANGED durableVars
     \/ backend = "durable" /\ DurableNext /\ UNCHANGED vars
  /\ UNCHANGED backend

MCSpec == MCInit /\ [][MCNext]_<<vars, durableVars, backend>> /\ Fairness
===============================================================================
