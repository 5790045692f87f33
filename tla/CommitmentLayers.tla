--------------------------- MODULE CommitmentLayers ---------------------------
(***************************************************************************)
(* The commitment to a table: table_prover_impl.cc and                     *)
(* table_verifier_impl.cc over the stack of commitment schemes that        *)
(* commitment_scheme_builder.inl makes (all in commitment_scheme/).        *)
(*                                                                         *)
(* The two sides stack different layers.  The prover's: a packaging layer  *)
(* on the rows, packaging layers on hashes down to one hash per segment,   *)
(* the inner ones of them cached, and a Merkle tree on the segments.  The  *)
(* verifier's: packaging layers all the way to the root.  Neither names    *)
(* what it sends or reads.                                                 *)
(*                                                                         *)
(* A layer of depth d holds 2^d elements, the rows having depth height + 1.*)
(* A value is the pair of the depth and index of the element it is the     *)
(* right value of, or Wrong.                                               *)
(***************************************************************************)
EXTENDS Integers, Sequences, FiniteSets

CONSTANTS
  Configurations,   \* the commitments to make, see Config
  Wrong

\* per_package rows are hashed into one of 2^height leaves, added in
\* 2^log_segments segments; out_of_memory layers are not cached; the hashes of
\* the friendly layers next to the root are of another kind.  max_integrity bounds
\* the number of integrity queries.
Config ==
  [height : Nat, log_segments : Nat, per_package : Nat \ {0}, columns : Nat \ {0},
   out_of_memory : Nat, friendly : Nat, max_integrity : Nat]

ASSUME ConfigurationsAssumption ==
  /\ Configurations \subseteq Config
  /\ \A c \in Configurations : c.log_segments <= c.height
  /\ Wrong \notin Nat \X Nat

VARIABLES
  config, layers,      \* the prover's stack, the outermost first
  stored,              \* per layer: cached elements, or leaves of the tree
  added,               \* segments added
  phase,
  at,                  \* the layer that is called, or returns
  rows, integrity,     \* the queries
  queries_,            \* per layer
  missing,             \* per layer: missing_element_queries_, and the caching
                       \* layer's missing_element_queries_inner_layer_
  n_missing_inner,     \* per layer: n_missing_elements_for_inner_layer_
  passed,              \* what the layers pass to each other
  queue,               \* of GenerateDecommitment
  proof,               \* the names and values sent
  known,               \* the verifier's elements of the current layer
  reads,               \* the names of what it has read
  tampered, verdict

prover == <<config, layers, stored, added, rows, integrity, queries_, missing,
            n_missing_inner, queue>>
verifier == <<known, reads, tampered, verdict>>
vars == <<prover, phase, at, passed, proof, verifier>>

Pow2[n \in Nat] == IF n = 0 THEN 1 ELSE 2 * Pow2[n - 1]

InOrder(S) ==
  [k \in 1 .. Cardinality(S) |-> CHOOSE x \in S : Cardinality({y \in S : y < x}) = k - 1]
SetOf(s) == {s[k] : k \in DOMAIN s}

-----------------------------------------------------------------------------
\* The stacks, and the kind of hash each layer uses.

\* What the configuration asks for: the friendly layers are those next to the root.
Friendly(c, depth) == depth <= c.friendly

Packaging(depth, per, top) == [kind |-> "packaging", depth |-> depth, per |-> per, top |-> top]
Caching(depth) == [kind |-> "caching", depth |-> depth, per |-> 1, top |-> FALSE]
Merkle(depth, top) == [kind |-> "merkle", depth |-> depth, per |-> 1, top |-> top]
Rows(c) == Packaging(c.height + 1, c.per_package, FALSE)

\* CalculateNVerifierFriendlyLayersInSegment; the constructor throws where its
\* assertion fails.
BuilderAsserts(c) ==
  0 < c.friendly /\ c.friendly < c.height => c.friendly >= c.log_segments
\* Slip, as those below what a property must catch: the tree's layers are not
\* subtracted.
FriendlyFromRoot(c) ==
  IF c.friendly < c.height - c.log_segments THEN c.friendly
  ELSE c.height - c.log_segments
FriendlyInSegment(c) ==
  IF c.friendly = 0 THEN 0
  ELSE IF c.friendly >= c.height THEN c.height - c.log_segments
  ELSE c.friendly - c.log_segments

Cached(c, layer) == layer < (c.height - c.log_segments) - c.out_of_memory

\* From inner to outer.
InSegment(c, layer) ==
  LET depth == c.log_segments + layer + 1
      packaging == <<Packaging(depth, 2, layer < FriendlyInSegment(c))>>
  IN IF Cached(c, layer) THEN <<Caching(depth)>> \o packaging ELSE packaging
ProverLayers(c) ==
  LET n_layers == c.height - c.log_segments
      Around[n \in 0 .. n_layers] ==
        IF n = 0 THEN <<Merkle(c.log_segments, c.friendly > 0)>>
        ELSE InSegment(c, n - 1) \o Around[n - 1]
  IN <<Rows(c)>> \o Around[n_layers]

VerifierLayers(c) ==
  LET n_friendly == IF c.height < c.friendly THEN c.height ELSE c.friendly
  IN <<Rows(c)>>
     \o [j \in 1 .. c.height |-> Packaging(c.height - j + 1, 2, c.height - j < n_friendly)]
     \o <<Merkle(0, n_friendly > 0)>>

-----------------------------------------------------------------------------
\* PackerHasher.

Node(l, i) == <<l.depth, i>>
PackageOf(l, i) == i \div l.per
PackageElements(l, p) == [j \in 1 .. l.per |-> p * l.per + j - 1]

\* The hash of a package is right if it is made of its elements, in order, and
\* with the kind of hash that the layer should have.
HashPackage(l, p, elements) ==
  IF /\ elements = [j \in 1 .. l.per |-> Node(l, PackageElements(l, p)[j])]
     /\ l.kind = "packaging" /\ l.depth <= config.height => l.top = Friendly(config, l.depth)
  THEN <<l.depth - 1, p>> ELSE Wrong

\* On bytes without names: the package is known by what is in it.
PackAndHash(l, data) ==
  [j \in 1 .. Len(data) \div l.per |->
     LET elements == [k \in 1 .. l.per |-> data[(j - 1) * l.per + k]]
     IN IF elements[1] = Wrong THEN Wrong
        ELSE HashPackage(l, PackageOf(l, elements[1][2]), elements)]

GetElementsInPackages(l, packages) ==
  [k \in 1 .. Len(packages) * l.per |->
     PackageElements(l, packages[((k - 1) \div l.per) + 1])[((k - 1) % l.per) + 1]]

ElementsRequiredToComputeHashes(l, indices) ==
  LET packages == {PackageOf(l, i) : i \in indices}
  IN InOrder((UNION {SetOf(PackageElements(l, p)) : p \in packages}) \ indices)

-----------------------------------------------------------------------------
NumElements(l) ==
  IF l.depth > config.height THEN Pow2[config.height] * config.per_package ELSE Pow2[l.depth]

Phases == {"add", "query", "start", "return", "decommit", "tree", "sent",
           "verify", "done", "aborted"}

TypeOK ==
  /\ config \in Configurations /\ phase \in Phases
  /\ at \in 0 .. Len(layers) + config.log_segments + 1
  /\ \A j \in DOMAIN layers :
       /\ queries_[j] \subseteq 0 .. NumElements(layers[j]) - 1
       /\ \A k \in DOMAIN missing[j] : missing[j][k] \in 0 .. NumElements(layers[j]) - 1
       /\ n_missing_inner[j] \in 0 .. NumElements(layers[j])
  /\ tampered \in BOOLEAN /\ verdict \in {"none", "accept", "reject"}

Init ==
  /\ config \in {c \in Configurations : BuilderAsserts(c)}
  /\ layers = ProverLayers(config)
  /\ stored = [j \in DOMAIN layers |->
       IF layers[j].kind = "packaging" THEN <<>>
       ELSE [i \in 0 .. Pow2[layers[j].depth] - 1 |-> Wrong]]
  /\ added = {} /\ phase = "add" /\ at = 0
  /\ rows = {} /\ integrity = {}
  /\ queries_ = [j \in DOMAIN layers |-> {}]
  /\ missing = [j \in DOMAIN layers |-> <<>>]
  /\ n_missing_inner = [j \in DOMAIN layers |-> 0]
  /\ passed = <<>> /\ queue = <<>> /\ proof = <<>>
  /\ known = <<>> /\ reads = <<>> /\ tampered = FALSE /\ verdict = "none"

Segments == 0 .. Pow2[config.log_segments] - 1

\* GetSegmentOffsetInData.
SegmentOffset(segment, length) == segment * length

\* AddSegmentForCommitment, through all layers.
AddSegment(segment) ==
  LET length == NumElements(layers[1]) \div Pow2[config.log_segments]
      flow[j \in DOMAIN layers] ==
        IF j = 1 THEN [i \in 1 .. length |-> Node(layers[1], segment * length + i - 1)]
        ELSE IF layers[j - 1].kind = "packaging"
             THEN PackAndHash(layers[j - 1], flow[j - 1])
        ELSE flow[j - 1]
  IN /\ phase = "add" /\ segment \notin added
     /\ stored' = [j \in DOMAIN layers |->
          LET offset == SegmentOffset(segment, Len(flow[j])) IN
          [i \in DOMAIN stored[j] |->
             IF i \in offset .. offset + Len(flow[j]) - 1
             THEN flow[j][i - offset + 1] ELSE stored[j][i]]]
     /\ added' = added \cup {segment}
     /\ UNCHANGED <<config, layers, rows, integrity, queries_, missing,
                    n_missing_inner, queue, phase, at, passed, proof, verifier>>

Commit ==
  /\ phase = "add" /\ added = Segments
  /\ phase' = "query"
  /\ UNCHANGED <<prover, at, passed, proof, verifier>>

-----------------------------------------------------------------------------
\* StartDecommitmentPhase: queries go in, requests for elements come out.

\* What is sent: a cell of a row, or an element of a layer.
Cell(row, column) == <<config.height + 2, row, column>>
Element(depth, i) == <<depth, i, 0>>
Sent(name, value) == [name |-> name, value |-> value]

Cells(S) == {Cell(row, column) : row \in S, column \in 0 .. config.columns - 1}

TableStartDecommitment ==
  /\ phase = "query"
  /\ \E S \in (SUBSET (0 .. NumElements(layers[1]) - 1)) \ {{}} :
       \E I \in SUBSET Cells(S) :
         Cardinality(I) <= config.max_integrity /\ rows' = S /\ integrity' = I /\ passed' = S
  /\ phase' = "start" /\ at' = 1
  /\ UNCHANGED <<config, layers, stored, added, queries_, missing, n_missing_inner,
                 queue, proof, verifier>>

PackageQueries(l, Q) == {PackageOf(l, i) : i \in Q}

StartDecommitment ==
  LET l == layers[at] IN
  /\ phase = "start"
  /\ queries_' = [queries_ EXCEPT ![at] = passed]
  /\ missing' = [missing EXCEPT ![at] =
       IF l.kind = "packaging" THEN ElementsRequiredToComputeHashes(l, passed) ELSE <<>>]
  /\ passed' = IF l.kind = "packaging" THEN PackageQueries(l, passed)
               ELSE IF l.kind = "caching" THEN passed ELSE <<>>
  /\ IF l.kind = "merkle" THEN phase' = "return" /\ at' = at - 1
     ELSE at' = at + 1 /\ UNCHANGED phase
  /\ UNCHANGED <<config, layers, stored, added, rows, integrity, n_missing_inner,
                 queue, proof, verifier>>

\* What a caching layer asks of the one around it: nothing.  The slip asks for
\* what it holds.
CachingAsksAll(asked) == asked
CachingAsks(asked) == <<>>

\* What the layer misses itself, then what the layers inside it asked for.
MissingThenInner(own, inner) == own \o inner

ReturnRequests ==
  LET l == layers[at]
      inner == GetElementsInPackages(l, passed)
  IN
  /\ phase = "return" /\ at > 0
  /\ IF l.kind = "packaging"
     THEN /\ n_missing_inner' = [n_missing_inner EXCEPT ![at] = Len(inner)]
          /\ passed' = MissingThenInner(missing[at], inner)
          /\ UNCHANGED missing
     ELSE /\ missing' = [missing EXCEPT ![at] = passed]
          /\ passed' = CachingAsks(passed)
          /\ UNCHANGED n_missing_inner
  /\ at' = at - 1
  /\ UNCHANGED <<config, layers, stored, added, rows, integrity, queries_, queue,
                 phase, proof, verifier>>

-----------------------------------------------------------------------------
\* Decommit: data goes in, and each layer sends what it asked for itself.

\* The cells that are sent and received, row by row.
CellsByRow(S) ==
  LET order == InOrder(S) IN
  [k \in 1 .. Len(order) * config.columns |->
     Cell(order[((k - 1) \div config.columns) + 1], (k - 1) % config.columns)]

Transmitted(cells) ==
  LET kept == InOrder({k \in DOMAIN cells : cells[k] \notin integrity})
  IN [j \in DOMAIN kept |-> cells[kept[j]]]

HasDuplicates(s) == \E j, k \in DOMAIN s : j # k /\ s[j] = s[k]

Abort == phase' = "aborted" /\ UNCHANGED <<prover, at, passed, proof, verifier>>

\* The caller evaluates the rows asked for; those of the queries are sent.
TableDecommit ==
  /\ phase = "return" /\ at = 0
  /\ IF HasDuplicates(passed) THEN Abort
     ELSE LET cells == Transmitted(CellsByRow(rows)) IN
          /\ proof' = [k \in DOMAIN cells |-> Sent(cells[k], Node(layers[1], cells[k][2]))]
          /\ passed' = [k \in DOMAIN passed |-> Node(layers[1], passed[k])]
          /\ phase' = "decommit" /\ at' = 1
          /\ UNCHANGED <<prover, verifier>>

PackagingDecommit ==
  LET l == layers[at]
      m == Len(missing[at])
  IN
  /\ phase = "decommit" /\ l.kind = "packaging"
  /\ IF Len(passed) # m + n_missing_inner[at] THEN Abort
     ELSE /\ proof' = proof \o [k \in 1 .. m |-> Sent(Element(l.depth, missing[at][k]), passed[k])]
          /\ passed' = PackAndHash(l, SubSeq(passed, m + 1, Len(passed)))
          /\ at' = at + 1
          /\ UNCHANGED <<prover, phase, verifier>>

CachingDecommit ==
  /\ phase = "decommit" /\ layers[at].kind = "caching"
  /\ IF passed # <<>> THEN Abort
     ELSE /\ passed' = [k \in DOMAIN missing[at] |-> stored[at][missing[at][k]]]
          /\ at' = at + 1
          /\ UNCHANGED <<prover, phase, proof, verifier>>

MerkleDecommit ==
  LET l == layers[at] IN
  /\ phase = "decommit" /\ l.kind = "merkle"
  /\ IF passed # <<>> THEN Abort
     ELSE /\ queue' = InOrder({q + Pow2[l.depth] : q \in queries_[at]})
          /\ phase' = "tree"
          /\ UNCHANGED <<config, layers, stored, added, rows, integrity, queries_,
                         missing, n_missing_inner, at, passed, proof, verifier>>

\* GenerateDecommitment (see MerkleTree), whose node n is the element
\* n - 2^depth of a layer.  The tree is right if its leaves are and its one kind
\* of hash is that of all its layers.
Depth(n) == CHOOSE d \in 0 .. config.height : Pow2[d] <= n /\ n < Pow2[d + 1]
TreeValue(n) ==
  LET tree == Len(layers) IN
  IF /\ \A depth \in 1 .. config.log_segments : Friendly(config, depth) = layers[tree].top
     /\ \A i \in DOMAIN stored[tree] : stored[tree][i] = Node(layers[tree], i)
  THEN LET depth == Depth(n) IN <<depth, n - Pow2[depth]>> ELSE Wrong

SiblingQueued(sibling, rest) == Head(rest) = sibling

TreeNode ==
  LET n == Head(queue)
      sibling == IF n % 2 = 0 THEN n + 1 ELSE n - 1
      rest == Append(Tail(queue), n \div 2)
      depth == Depth(n)
      name == Element(depth, sibling - Pow2[depth])
  IN
  /\ phase = "tree" /\ n # 1
  /\ IF SiblingQueued(sibling, rest) THEN queue' = Tail(rest) /\ UNCHANGED proof
     ELSE queue' = rest /\ proof' = Append(proof, Sent(name, TreeValue(sibling)))
  /\ UNCHANGED <<config, layers, stored, added, rows, integrity, queries_, missing,
                 n_missing_inner, phase, at, passed, verifier>>

TreeReturn ==
  /\ phase = "tree" /\ Head(queue) = 1
  /\ phase' = "sent"
  /\ UNCHANGED <<prover, at, passed, proof, verifier>>

-----------------------------------------------------------------------------
\* The verifier, on what was sent and on the integrity values it computed itself,
\* or with one of them changed.

\* A row is right if its cells are.
RowValue(row, values, own) ==
  IF /\ \A k \in DOMAIN values : values[k].name[2] = row => values[k].value = Node(layers[1], row)
     /\ own
  THEN Node(layers[1], row) ELSE Wrong

\* TableVerifierImpl::Query and VerifyDecommitment.
TableVerify ==
  LET cells == Transmitted(CellsByRow(rows))
      received == SubSeq(proof, 1, Len(cells))
  IN
  /\ phase = "sent"
  /\ \/ tampered' = FALSE /\ UNCHANGED proof
        /\ known' = [row \in rows |-> RowValue(row, received, TRUE)]
     \/ /\ tampered' = TRUE
        /\ \E k \in DOMAIN proof : proof' = [proof EXCEPT ![k].value = Wrong]
        /\ known' = [row \in rows |-> RowValue(row, SubSeq(proof', 1, Len(cells)), TRUE)]
     \/ /\ tampered' = TRUE /\ UNCHANGED proof
        /\ \E cell \in integrity :
             known' = [row \in rows |-> RowValue(row, received, row # cell[2])]
  /\ reads' = cells
  /\ phase' = "verify" /\ at' = 1
  /\ UNCHANGED <<prover, passed, verdict>>

\* PackagingCommitmentSchemeVerifier::VerifyIntegrity.
VerifyIntegrity ==
  LET l == VerifierLayers(config)[at]
      required == ElementsRequiredToComputeHashes(l, DOMAIN known)
      next == Len(reads)
      full == [i \in DOMAIN known \cup SetOf(required) |->
                 IF i \in DOMAIN known THEN known[i]
                 ELSE proof[next + (CHOOSE k \in DOMAIN required : required[k] = i)].value]
  IN
  /\ phase = "verify" /\ l.kind = "packaging"
  /\ reads' = reads \o [k \in DOMAIN required |-> Element(l.depth, required[k])]
  /\ IF next + Len(required) > Len(proof)
     \* The channel throws "Proof too short".
     THEN phase' = "done" /\ verdict' = "reject" /\ UNCHANGED <<at, known>>
     ELSE /\ known' = [p \in {PackageOf(l, i) : i \in DOMAIN full} |->
               HashPackage(l, p, [j \in 1 .. l.per |-> full[PackageElements(l, p)[j]]])]
          /\ at' = at + 1
          /\ UNCHANGED <<phase, verdict>>
  /\ UNCHANGED <<prover, passed, proof, tampered>>

VerifyRoot ==
  /\ phase = "verify" /\ VerifierLayers(config)[at].kind = "merkle"
  /\ verdict' = IF known[0] # Wrong /\ known[0] = TreeValue(1) THEN "accept" ELSE "reject"
  /\ phase' = "done"
  /\ UNCHANGED <<prover, at, passed, proof, known, reads, tampered>>

Finished == phase \in {"done", "aborted"} /\ UNCHANGED vars

Next ==
  \/ \E segment \in Segments : AddSegment(segment)
  \/ Commit
  \/ TableStartDecommitment \/ StartDecommitment \/ ReturnRequests
  \/ TableDecommit \/ PackagingDecommit \/ CachingDecommit \/ MerkleDecommit
  \/ TreeNode \/ TreeReturn
  \/ TableVerify \/ VerifyIntegrity \/ VerifyRoot
  \/ Finished

Spec == Init /\ [][Next]_vars

-----------------------------------------------------------------------------
\* No assertion of the layers fails: each gets as much data as it asked for, the
\* caching layers and the tree none; and packaging_commitment_scheme.cc:131,
\* "missing_element_queries and missing_element_queries_to_inner_layer are
\* disjoint sets": a layer asks for no element twice, and for none that is queried
\* already.
NoAssertionFails ==
  /\ TypeOK /\ phase # "aborted"
  /\ phase = "return" =>
       /\ ~HasDuplicates(passed)
       /\ at < Len(layers) => SetOf(passed) \cap queries_[at + 1] = {}

\* The data committed to is accepted, and no other: although the prover's stack is
\* cut by segments and caches, both hash the same elements with the same kind of
\* hash, whatever the order of the segments, and read, one after the other and to
\* the end, what was sent.
AcceptsOnlyTheData ==
  /\ phase = "done" => (verdict = "accept" <=> ~tampered)
  /\ verdict = "accept" => reads = [k \in DOMAIN proof |-> proof[k].name]
=============================================================================
