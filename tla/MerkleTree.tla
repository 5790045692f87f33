------------------------------ MODULE MerkleTree ------------------------------
(***************************************************************************)
(* starkware/commitment_scheme/merkle/merkle.{h,cc} and the part of        *)
(* merkle_commitment_scheme.cc that drives it: threads feed segments of    *)
(* the leaves, the root is computed from a depth assumed correct, the      *)
(* prover sends the nodes that its queries need and the verifier rebuilds  *)
(* the root from them.                                                     *)
(*                                                                         *)
(* A hash is written as the index of the node it is the right value of, or *)
(* Wrong; two hashes combine to the right value of their parent exactly if *)
(* they are the right values of its two children, in order: what a hash    *)
(* without collisions gives.                                               *)
(***************************************************************************)
EXTENDS Integers, Sequences, FiniteSets

CONSTANTS
  MaxHeight,      \* trees of 1, 2, ..., 2^MaxHeight leaves
  Wrong           \* a hash that is not the right one of any node

ASSUME TreeAssumption == MaxHeight \in Nat /\ Wrong \notin Nat

VARIABLES
  height,         \* log2(k_data_length)
  log_segment,    \* log2 of the length of the spans given to AddData
  nodes_,         \* 1 is the root; the cell 0 is never used
  adding,         \* where the AddData of each segment is
  next_root_node, \* the i of GetRoot's loop
  phase,          \* the operation of the single-threaded part
  queries,        \* the leaves to decommit
  queue,          \* the prover's queue of node indices
  proof,          \* what it has sent: nodes and their hashes
  known,          \* the verifier's queue of node indices and hashes
  reads,          \* the nodes it has asked the channel for
  tampered,       \* did its leaves or its proof differ from the prover's?
  verdict         \* what VerifyDecommitment returned

committing == <<height, log_segment, nodes_, adding, next_root_node>>
proving == <<queries, queue, proof>>
verifying == <<known, reads, tampered, verdict>>
vars == <<committing, phase, proving, verifying>>

\* math.h's Pow2, as a function that proofs can unfold.
Pow2[n \in Nat] == IF n = 0 THEN 1 ELSE 2 * Pow2[n - 1]

k_data_length == Pow2[height]
Node == 1 .. 2 * k_data_length - 1
Cell == Node \cup {0}
Leaf(i) == i + k_data_length
Segment == 0 .. Pow2[height - log_segment] - 1
Sibling(n) == IF n % 2 = 0 THEN n + 1 ELSE n - 1      \* n ^ 1
Hash(a, b) == IF a # Wrong /\ b # Wrong /\ a % 2 = 0 /\ b = a + 1
              THEN a \div 2 ELSE Wrong

Phases == {"feed", "root", "committed", "decommit", "sent", "verify", "done"}

TypeOK ==
  /\ height \in 0 .. MaxHeight /\ log_segment \in 0 .. height
  /\ nodes_ \in [Cell -> Cell \cup {Wrong}]
  /\ adding \in [Segment -> [cur : Nat, length : Nat, i : Nat, copied : BOOLEAN]]
  /\ next_root_node \in Nat
  /\ phase \in Phases
  /\ queries \subseteq 0 .. k_data_length - 1
  /\ queue \in Seq(Node)
  /\ proof \in Seq(Node \X (Node \cup {Wrong}))
  /\ known \in Seq(Node \X (Node \cup {Wrong}))
  /\ reads \in Seq(Node)
  /\ tampered \in BOOLEAN /\ verdict \in {"none", "accept", "reject"}

FirstParent(s) == Leaf(s * Pow2[log_segment]) \div 2

\* The constructor, and one AddData call per segment; a node that was never
\* written holds no hash of the data.
Init ==
  /\ height \in 0 .. MaxHeight
  /\ log_segment \in 0 .. height
  /\ nodes_ = [n \in Cell |-> Wrong]
  /\ adding = [s \in Segment |->
       [cur |-> FirstParent(s), length |-> Pow2[log_segment] \div 2,
        i |-> FirstParent(s), copied |-> FALSE]]
  /\ next_root_node = 0
  /\ phase = "feed"
  /\ queries = {} /\ queue = <<>> /\ proof = <<>>
  /\ known = <<>> /\ reads = <<>> /\ tampered = FALSE /\ verdict = "none"

-----------------------------------------------------------------------------
\* AddData, by as many threads as there are segments.

CopyLeaves(s) ==
  LET mine == Leaf(s * Pow2[log_segment]) .. Leaf((s + 1) * Pow2[log_segment] - 1)
  IN nodes_' = [n \in Cell |-> IF n \in mine THEN n ELSE nodes_[n]]

AddDataCopy(s) ==
  /\ phase = "feed" /\ ~adding[s].copied
  /\ CopyLeaves(s)
  /\ adding' = [adding EXCEPT ![s].copied = TRUE]
  /\ UNCHANGED <<height, log_segment, next_root_node, phase, proving, verifying>>

\* At the end of a sub-layer, its parents.  (Slip, as those below what a property
\* must catch: they are sought after its end.)
NextSubLayerAtEnd(a) ==
  [a EXCEPT !.cur = (a.cur + a.length) \div 2, !.length = a.length \div 2,
            !.i = (a.cur + a.length) \div 2]
NextSubLayer(a) ==
  [a EXCEPT !.cur = a.cur \div 2, !.length = a.length \div 2, !.i = a.cur \div 2]

\* One node of a sub-layer: threads interleave between any two of them.
AddDataHash(s) ==
  LET a == adding[s] IN
  /\ phase = "feed" /\ a.copied /\ a.length > 0
  /\ nodes_' = [nodes_ EXCEPT ![a.i] = Hash(nodes_[2 * a.i], nodes_[2 * a.i + 1])]
  /\ adding' = [adding EXCEPT ![s] =
       IF a.i + 1 < a.cur + a.length THEN [a EXCEPT !.i = a.i + 1] ELSE NextSubLayer(a)]
  /\ UNCHANGED <<height, log_segment, next_root_node, phase, proving, verifying>>

AllAdded == \A s \in Segment : adding[s].copied /\ adding[s].length = 0

\* GetRoot(min_depth): any depth from which the added segments are complete.
\* Commit asks for the least of them.
LastIncompleteNode(min_depth) == Pow2[min_depth] - 1

GetRootStart ==
  /\ phase = "feed" /\ AllAdded
  /\ \E min_depth \in height - log_segment .. height :
       next_root_node' = LastIncompleteNode(min_depth)
  /\ phase' = "root"
  /\ UNCHANGED <<height, log_segment, nodes_, adding, proving, verifying>>


GetRootHash ==
  /\ phase = "root" /\ next_root_node > 0
  /\ nodes_' = [nodes_ EXCEPT ![next_root_node] =
       Hash(nodes_[2 * next_root_node], nodes_[2 * next_root_node + 1])]
  /\ next_root_node' = next_root_node - 1
  /\ UNCHANGED <<height, log_segment, adding, phase, proving, verifying>>

GetRootReturn ==
  /\ phase = "root" /\ next_root_node = 0
  /\ phase' = "committed"
  /\ UNCHANGED <<committing, proving, verifying>>

-----------------------------------------------------------------------------
\* GenerateDecommitment: a queue of known nodes, from the leaves up.

\* A std::set or std::map is iterated in increasing order.
InOrder(S) ==
  [k \in 1 .. Cardinality(S) |-> CHOOSE x \in S : Cardinality({y \in S : y < x}) = k - 1]

GenerateDecommitmentStart ==
  /\ phase = "committed"
  /\ \E Q \in (SUBSET (0 .. k_data_length - 1)) \ {{}} :
       /\ queries' = Q
       /\ queue' = InOrder({Leaf(q) : q \in Q})
  /\ phase' = "decommit"
  /\ UNCHANGED <<committing, proof, verifying>>

\* A node leaves the queue, its parent joins it; the sibling is skipped if it is
\* known, and sent if it is not.
PassNode(n, rest) ==
  IF Head(rest) = Sibling(n)
  THEN queue' = Tail(rest) /\ UNCHANGED proof
  ELSE queue' = rest /\ proof' = Append(proof, <<Sibling(n), nodes_[Sibling(n)]>>)

GenerateDecommitmentNode ==
  /\ phase = "decommit" /\ Head(queue) # 1
  /\ LET n == Head(queue) IN PassNode(n, Append(Tail(queue), n \div 2))
  /\ UNCHANGED <<committing, phase, queries, verifying>>

GenerateDecommitmentReturn ==
  /\ phase = "decommit" /\ Head(queue) = 1
  /\ phase' = "sent"
  /\ UNCHANGED <<committing, proving, verifying>>

-----------------------------------------------------------------------------
\* VerifyDecommitment, on the prover's leaves and proof or with one of them
\* changed, as the tests do.
Tampered(seq, i) == [seq EXCEPT ![i][2] = Wrong]

VerifyStart ==
  /\ phase = "sent"
  /\ LET leaves == InOrder({Leaf(q) : q \in queries})
         given == [i \in DOMAIN leaves |-> <<leaves[i], leaves[i]>>]
     IN \/ known' = given /\ tampered' = FALSE /\ UNCHANGED proof
        \/ /\ \E i \in DOMAIN given : known' = Tampered(given, i)
           /\ tampered' = TRUE /\ UNCHANGED proof
        \/ /\ \E i \in DOMAIN proof : proof' = Tampered(proof, i)
           /\ tampered' = TRUE /\ known' = given
  /\ phase' = "verify"
  /\ UNCHANGED <<committing, queries, queue, reads, verdict>>

\* The hash of the parent of node n, whose own hash and sibling's hash are given.
ParentHashUnordered(n, own, other) == Hash(own, other)   \* slip: siblings[] in reading order
ParentHash(n, own, other) ==
  IF n % 2 = 0 THEN Hash(own, other) ELSE Hash(other, own)

SiblingNeverKnown(n, rest) == FALSE                      \* slip: always read
SiblingKnown(n, rest) == rest # <<>> /\ Head(rest)[1] = Sibling(n)

VerifyNode ==
  /\ phase = "verify" /\ Head(known)[1] # 1
  /\ LET n == Head(known)[1]
         own == Head(known)[2]
         rest == Tail(known)
     IN IF SiblingKnown(n, rest)
        THEN /\ known' = Append(Tail(rest),
                  <<n \div 2, ParentHash(n, own, Head(rest)[2])>>)
             /\ UNCHANGED <<phase, reads, verdict>>
        ELSE /\ reads' = Append(reads, Sibling(n))
             /\ IF Len(reads) < Len(proof)
                THEN /\ known' = Append(rest,
                          <<n \div 2, ParentHash(n, own, proof[Len(reads) + 1][2])>>)
                     /\ UNCHANGED <<phase, verdict>>
                \* The channel throws "Proof too short", which is a rejection.
                ELSE phase' = "done" /\ verdict' = "reject" /\ UNCHANGED known
  /\ UNCHANGED <<committing, proving, tampered>>

VerifyReturn ==
  /\ phase = "verify" /\ Head(known)[1] = 1
  /\ verdict' = IF Head(known)[2] = nodes_[1] THEN "accept" ELSE "reject"
  /\ phase' = "done"
  /\ UNCHANGED <<committing, proving, known, reads, tampered>>

Finished == phase = "done" /\ UNCHANGED vars

Next ==
  \/ \E s \in Segment : AddDataCopy(s) \/ AddDataHash(s)
  \/ GetRootStart \/ GetRootHash \/ GetRootReturn
  \/ GenerateDecommitmentStart \/ GenerateDecommitmentNode \/ GenerateDecommitmentReturn
  \/ VerifyStart \/ VerifyNode \/ VerifyReturn
  \/ Finished

Spec == Init /\ [][Next]_vars

-----------------------------------------------------------------------------
\* merkle.h: "data may be fed into the tree in any order, and by different
\* threads".  Whatever the order, and from any depth that the segments complete,
\* GetRoot leaves every node of the tree right: none is stale or was hashed
\* before its children.
EveryNodeRight ==
  /\ TypeOK
  /\ phase \notin {"feed", "root"} => \A n \in Node : nodes_[n] = n

\* The decommitment is exactly what the verifier cannot compute, each node once:
\* the siblings of the nodes between the queried leaves and the root that are not
\* such nodes themselves.  And the channel is a tape without names: the k-th node
\* the verifier reads is the k-th node the prover sent, and at the end all of them
\* have been read.
OnAPath == {Leaf(q) \div Pow2[k] : q \in queries, k \in 0 .. height}

ReadsWhatWasSent ==
  /\ phase \in {"sent", "verify", "done"} =>
       /\ {proof[i][1] : i \in DOMAIN proof} =
            {Sibling(n) : n \in OnAPath \ {1}} \ OnAPath
       /\ Len(proof) = Cardinality({proof[i][1] : i \in DOMAIN proof})
  /\ phase \in {"verify", "done"} =>
       \A k \in DOMAIN reads : k <= Len(proof) /\ reads[k] = proof[k][1]
  /\ phase = "done" => Len(reads) = Len(proof)

\* VerifyDecommitment accepts the prover's leaves and proof, and nothing else.
AcceptsOnlyTheData ==
  phase = "done" => (verdict = "accept" <=> ~tampered)
=============================================================================
