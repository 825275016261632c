-------------------------- MODULE DistributedEvidence --------------------------
(* DistributedEvidenceLog: every host keeps a replica of the evidence DAG, adds    *)
(* its own nodes, replicates those of its peers in whatever order they arrive, and *)
(* merges whole replicas.  The id of a node is the hash of the content it was      *)
(* built with: ids are numbers in order of creation and built[id] is the content.  *)
(* Hashes are symbolic: <<id>> for a leaf and <<left, right>> for a pair.          *)
EXTENDS Naturals, Sequences, SequencesExt

CONSTANTS
    DagHosts,
    CheckpointHosts,   \* replicas that hold the cluster root key
    MaxNodes,          \* bound on nodes built
    MaxStored,         \* MaxStored[r]: bound on nodes replica r stores
    MaxCheckpoints     \* bound on checkpoints signed by a replica

VARIABLES
    built,             \* sequence of [host, parents]: every DagNode::new so far
    dagNodes,          \* dagNodes[r]: sequence of [id, host, parents]
    hostChains,        \* hostChains[r][h]: head_hash, 0 when r has no chain of h
    consistency,       \* consistency[r]: TRUE once a fork was recorded
    checkpoints        \* checkpoints[r]: sequence of [root, size]

dagVars == <<built, dagNodes, hostChains, consistency, checkpoints>>

Ids(nodes) == {nodes[i].id : i \in DOMAIN nodes}
Node(id) == [id |-> id, host |-> built[id].host, parents |-> built[id].parents]
\* recompute_node_id of a stored node: its content is hashed again.
Recomputes(node) == node = Node(node.id)

DagInit ==
    /\ built = <<>>
    /\ dagNodes = [r \in DagHosts |-> <<>>]
    /\ hostChains = [r \in DagHosts |-> [h \in DagHosts |-> 0]]
    /\ consistency = [r \in DagHosts |-> FALSE]
    /\ checkpoints = [r \in DagHosts |-> <<>>]

--------------------------------------------------------------------------------
(* build_merkle_tree, build_merkle_proof, compute_merkle_root_from_proof.  Indices *)
(* start at 0 as in the code.                                                      *)

At(level, i) == level[i + 1]

\* One pass of the while loop: an odd last element is paired with itself.
Level(level) ==
    [i \in 1..((Len(level) + 1) \div 2) |->
        <<level[2 * i - 1], IF 2 * i <= Len(level) THEN level[2 * i] ELSE level[2 * i - 1]>>]

RECURSIVE MerkleTree(_)
MerkleTree(level) ==
    IF level = <<>> THEN <<>> ELSE IF Len(level) = 1 THEN level[1] ELSE MerkleTree(Level(level))

\* The sibling without the case of the odd last element.
SiblingOrNone(level, i) ==
    LET s == IF i % 2 = 0 THEN i + 1 ELSE i - 1
    IN  IF s < Len(level) THEN <<At(level, s)>> ELSE <<>>

Sibling(level, i) ==
    LET s == IF i % 2 = 0 THEN i + 1 ELSE i - 1
    IN  <<At(level, IF s < Len(level) THEN s ELSE i)>>

RECURSIVE MerkleProof(_, _)
MerkleProof(level, i) ==
    IF Len(level) <= 1 THEN <<>>
    ELSE Sibling(level, i) \o MerkleProof(Level(level), i \div 2)

RECURSIVE RootFromProof(_, _, _)
RootFromProof(hash, siblings, i) ==
    IF siblings = <<>> THEN hash
    ELSE RootFromProof(IF i % 2 = 0 THEN <<hash, Head(siblings)>> ELSE <<Head(siblings), hash>>,
                       Tail(siblings), i \div 2)

Leaves(nodes) == [i \in DOMAIN nodes |-> <<nodes[i].id>>]

--------------------------------------------------------------------------------
\* DagNode::new by host h, a first node or one on top of a chain it knows, added to
\* its own replica with add_node.
SealNode(h, parents) ==
    LET node == [id |-> Len(built) + 1, host |-> h, parents |-> parents]
    IN  /\ Len(built) < MaxNodes
        /\ Range(parents) \subseteq Ids(dagNodes[h])
        /\ built' = Append(built, [host |-> h, parents |-> parents])
        /\ dagNodes' = [dagNodes EXCEPT ![h] = Append(@, node)]
        /\ hostChains' = [hostChains EXCEPT ![h][h] = node.id]
        /\ UNCHANGED <<consistency, checkpoints>>

\* add_node, of a node a peer has built.
AddNode(r, id) ==
    /\ id \notin Ids(dagNodes[r])
    /\ Range(Node(id).parents) \subseteq Ids(dagNodes[r])
    /\ hostChains' = [hostChains EXCEPT ![r][built[id].host] = id]
    /\ dagNodes' = [dagNodes EXCEPT ![r] = Append(@, Node(id))]
    /\ UNCHANGED <<built, consistency, checkpoints>>

\* replicate_from_peer at replica r, with the head of r's own chain, or a hash that names
\* no node (0) while it has none: the head is pushed onto the parents after the id was
\* checked, and the new node becomes the head of r's own chain, which may be its first.
\* No parent is looked up.
ReplicateFromPeer(r, id) ==
    LET head == hostChains[r][r]
        node == Node(id)
    IN  /\ id \notin Ids(dagNodes[r])
        /\ dagNodes' = [dagNodes EXCEPT ![r] = Append(@,
                          IF head \in Range(node.parents) THEN node
                          ELSE [node EXCEPT !.parents = Append(@, head)])]
        /\ hostChains' = [hostChains EXCEPT ![r][r] = id]
        /\ UNCHANGED <<built, consistency, checkpoints>>

SignCheckpoint(r) ==
    /\ Len(checkpoints[r]) < MaxCheckpoints
    /\ checkpoints' = [checkpoints EXCEPT ![r] =
                          Append(@, [root |-> MerkleTree(Leaves(dagNodes[r])), size |-> Len(dagNodes[r])])]
    /\ UNCHANGED <<built, dagNodes, hostChains, consistency>>

\* has_conflict of merge_consistent.
Conflicting(node, mine, other) ==
    \E p \in Range(node.parents) :
        /\ p \in Ids(mine) \cap Ids(other)
        /\ Len(SelectSeq(mine, LAMBDA n : p \in Range(n.parents))) > 1

\* One turn of the merge loop; after an error the rest is skipped.
MergeOne(acc, node, other) ==
    IF ~acc.ok \/ node.id \in Ids(acc.nodes) THEN acc
    ELSE IF ~Recomputes(node) \/ Conflicting(node, acc.nodes, other) THEN [acc EXCEPT !.ok = FALSE]
    ELSE [acc EXCEPT !.nodes = Append(@, node)]

\* The heads merge_consistent takes over: those of chains r does not have.
TakenHeads(r, s) == [h \in DagHosts |-> IF hostChains[r][h] = 0 THEN hostChains[s][h] ELSE hostChains[r][h]]

\* merge_consistent of replica s into r: the nodes pushed before an error stay.
MergeConsistent(r, s) ==
    LET acc == FoldLeft(LAMBDA a, n : MergeOne(a, n, dagNodes[s]), [nodes |-> dagNodes[r], ok |-> TRUE], dagNodes[s])
    IN  /\ r # s
        /\ dagNodes' = [dagNodes EXCEPT ![r] = acc.nodes]
        /\ hostChains' = IF acc.ok THEN [hostChains EXCEPT ![r] = TakenHeads(r, s)] ELSE hostChains
        /\ UNCHANGED <<built, consistency, checkpoints>>

\* The first parent of a stored node, 0 when there is none.
FirstParent(r, id) ==
    LET found == {n \in Range(dagNodes[r]) : n.id = id}
    IN  IF found = {} THEN 0
        ELSE LET n == CHOOSE x \in found : TRUE IN IF n.parents = <<>> THEN 0 ELSE n.parents[1]

\* The first parents collect_ancestry walks through, cut after MaxNodes steps: a walk
\* without a repetition is over by then and has reached 0.
Walk(r, id) ==
    LET walk[k \in 0..MaxNodes] == IF k = 0 THEN id ELSE FirstParent(r, walk[k - 1])
    IN  {walk[k] : k \in 1..MaxNodes}

Ancestry(r, id) == Walk(r, id) \ {0}

\* detect_forks, where it returns and records a fork: on a walk that never ends the
\* call does not return.
DetectForks(r, a, b) ==
    LET ancestryA == Ancestry(r, hostChains[r][a])
        ancestryB == Ancestry(r, hostChains[r][b])
    IN  /\ hostChains[r][a] # 0 /\ hostChains[r][b] # 0
        /\ \A h \in {a, b} : 0 \in Walk(r, hostChains[r][h])
        /\ ancestryA # {} /\ ancestryB # {}
        /\ ancestryA \cap ancestryB = {}
        /\ ~consistency[r]
        /\ consistency' = [consistency EXCEPT ![r] = TRUE]
        /\ UNCHANGED <<built, dagNodes, hostChains, checkpoints>>

DagNext ==
    \E r \in DagHosts :
        \/ /\ Len(dagNodes[r]) < MaxStored[r]
           /\ \/ \E parents \in {<<>>} \cup {<<hostChains[r][h]>> : h \in DagHosts} : SealNode(r, parents)
              \/ \E id \in DOMAIN built : AddNode(r, id)
              \/ \E id \in DOMAIN built : ReplicateFromPeer(r, id)
        \/ /\ \E s \in DagHosts : MergeConsistent(r, s)
           /\ Len(dagNodes'[r]) <= MaxStored[r]
        \/ r \in CheckpointHosts /\ SignCheckpoint(r)
        \/ \E a, b \in DagHosts : DetectForks(r, a, b)

--------------------------------------------------------------------------------
\* Every head names a node the replica stores, also after merges that failed half
\* way (add_node, replicate_from_peer, merge_consistent).
HeadsAreStored ==
    \A r, h \in DagHosts : hostChains[r][h] # 0 => hostChains[r][h] \in Ids(dagNodes[r])

\* A root commits to one history: two replicas, or a replica and an earlier
\* checkpoint, with the same Merkle root hold the same nodes in the same order.  The
\* tree duplicates an odd last leaf, so this rests on no node being stored twice.
RootsBind ==
    \A r, s \in DagHosts :
        /\ MerkleTree(Leaves(dagNodes[r])) = MerkleTree(Leaves(dagNodes[s])) =>
              Leaves(dagNodes[r]) = Leaves(dagNodes[s])
        /\ \A i \in DOMAIN checkpoints[s] :
              checkpoints[s][i].root = MerkleTree(Leaves(dagNodes[r])) =>
                  checkpoints[s][i].size = Len(dagNodes[r])

\* A proof built for any stored node verifies against a checkpoint of the same nodes,
\* at every position and for every number of nodes (build_inclusion_proof and
\* verify_inclusion).
ProofsVerify ==
    \A r \in DagHosts : \A c \in Range(checkpoints[r]) :
        c.size = Len(dagNodes[r]) =>
            \A i \in DOMAIN dagNodes[r] :
                LET leaves == Leaves(dagNodes[r])
                IN  RootFromProof(leaves[i], MerkleProof(leaves, i - 1), i - 1) = c.root

\* A replica's heads, roots and proofs are sound together, after any adds,
\* replications in any order, merges and checkpoints.
ReplicasSound == HeadsAreStored /\ RootsBind /\ ProofsVerify

\* "Merkle-DAG": no node is its own ancestor, so that collect_ancestry ends.
AncestryEnds ==
    \A r \in DagHosts : \A id \in Ids(dagNodes[r]) : 0 \in Walk(r, id)
================================================================================
