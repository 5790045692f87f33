------------------------------ MODULE FriQueries ------------------------------
(***************************************************************************)
(* The query phase of FRI: fri_details.cc, the decommitments of            *)
(* fri_committed_layer.cc and FriVerifier's VerifyFirstLayer,              *)
(* VerifyInnerLayers and VerifyLastLayer (starkware/fri).                  *)
(*                                                                         *)
(* The prover has committed to every layer, and may have cheated: cheats   *)
(* is the set of elements that are not the fold of the committed elements  *)
(* below them.  An element is written as its depth (the folds before it),  *)
(* its index, and whether it is such an element; a fold of what was        *)
(* committed, on the right domain and with the right evaluation point,     *)
(* gives the element that an honest prover commits to, anything else gives *)
(* Wrong.                                                                  *)
(***************************************************************************)
EXTENDS Integers, Sequences, FiniteSets, Functions

CONSTANTS
  StepLists,      \* the values of fri_step_list
  LogLast,        \* of log2 of the last layer's size
  NumQueries      \* n_queries

ASSUME FriAssumption ==
  /\ StepLists \subseteq Seq(Nat) /\ \A s \in StepLists : Len(s) > 0
  /\ LogLast \subseteq Nat /\ NumQueries \in Nat

VARIABLES
  fri_step_list, log_last, cheats,
  query_indices_,           \* the same on both sides
  proof,                    \* the names and values the prover has sent
  layer_num,                \* the layer that is decommitted, or verified
  phase,
  data_queries, integrity_queries,    \* of that layer
  to_verify,                \* from cells of its table to values
  query_results_,
  reads,                    \* the names the verifier has read
  verdict

parameters == <<fri_step_list, log_last, cheats, query_indices_>>
queries == <<data_queries, integrity_queries>>
vars == <<parameters, proof, layer_num, phase, queries, to_verify, query_results_, reads, verdict>>

n_layers == Len(fri_step_list)
Step(k) == fri_step_list[k + 1]
\* The folds before layer k; layer n_layers is the last one.
Depth[k \in 0 .. n_layers] == IF k = 0 THEN 0 ELSE Depth[k - 1] + fri_step_list[k]

Pow2[n \in Nat] == IF n = 0 THEN 1 ELSE 2 * Pow2[n - 1]
SizeAt(depth) == Pow2[Depth[n_layers] + log_last - depth]

Element(depth, index, cheat) == [depth |-> depth, index |-> index, cheat |-> cheat]
Committed(depth, index) == Element(depth, index, <<depth, index>> \in cheats)
Oracle(index) == Element(0, index, FALSE)
Wrong == Element(0, SizeAt(0), TRUE)        \* no such element

-----------------------------------------------------------------------------
\* Positions.

GetTableProverRow(index, step) == index \div Pow2[step]
GetTableProverCol(index, step) == index % Pow2[step]
GetTableProverRowCol(index, step) == <<GetTableProverRow(index, step), GetTableProverCol(index, step)>>
\* The cells of a std::set<RowCol> in its order.
InOrder(cells, k) ==
  LET indices == {c[1] * Pow2[Step(k)] + c[2] : c \in cells}
      Ranked(n) == CHOOSE i \in indices : Cardinality({x \in indices : x < i}) = n - 1
  IN [n \in 1 .. Cardinality(indices) |-> GetTableProverRowCol(Ranked(n), Step(k))]

\* The index in layer k of a query, which is an index in the second layer.
IndexInLayer(index, k) == index \div Pow2[Depth[k] - Depth[1]]

SecondLayerQueriesToFirstLayerQueries(list, first_fri_step) ==
  LET coset == Pow2[first_fri_step]
  IN [i \in 1 .. Len(list) * coset |-> list[(i - 1) \div coset + 1] * coset + ((i - 1) % coset)]

\* NextLayerDataAndIntegrityQueries.
IntegrityQueries(list, k) ==
  {GetTableProverRowCol(IndexInLayer(list[j], k), Step(k)) : j \in DOMAIN list}
DataQueries(list, k) ==
  {GetTableProverRow(IndexInLayer(list[j], k), Step(k)) : j \in DOMAIN list}
     \X (0 .. Pow2[Step(k)] - 1) \ IntegrityQueries(list, k)

\* AllQueryRows and ElementsToBeTransmitted, of both the table prover and verifier.
\* Slip, as the other one below what a property must catch: whole rows.
ElementsOfWholeRows(data, integrity, k) ==
  {q[1] : q \in data \cup integrity} \X (0 .. Pow2[Step(k)] - 1)
ElementsToBeTransmitted(data, integrity, k) ==
  {q[1] : q \in data \cup integrity} \X (0 .. Pow2[Step(k)] - 1) \ integrity

-----------------------------------------------------------------------------
\* NextLayerElementFromTwoPreviousLayerElements: at is the position of the first
\* on the basis of that depth, point the depth whose evaluation point is used.
Fold(f_x, f_minus_x, depth, at, point) ==
  IF /\ at % 2 = 0 /\ point = depth
     /\ f_x = Committed(depth, at) /\ f_minus_x = Committed(depth, at + 1)
  THEN Element(depth + 1, at \div 2, FALSE) ELSE Wrong

\* ApplyFriLayers.  Slip: the index of the first element stays as it is.
NextFirstIndexSame(index) == index
NextFirstIndex(index) == index \div 2
ApplyFriLayers(elements, k, first) ==
  LET after[n \in 0 .. Step(k)] ==
        IF n = 0 THEN [values |-> elements, first |-> first, point |-> Depth[k]]
        ELSE LET was == after[n - 1]
             IN [values |-> [j \in 1 .. Len(was.values) \div 2 |->
                               Fold(was.values[2 * j - 1], was.values[2 * j], Depth[k] + n - 1,
                                    was.first + 2 * (j - 1), was.point)],
                 first |-> NextFirstIndex(was.first), point |-> was.point + 1]
  IN after[Step(k)].values[1]

Phases == {"decommit", "first", "query", "compute", "verify", "last", "done"}
Cell(k) == (0 .. SizeAt(Depth[k] + Step(k)) - 1) \X (0 .. Pow2[Step(k)] - 1)
TypeOK ==
  /\ phase \in Phases /\ verdict \in {"none", "accept", "reject", "throw"}
  /\ layer_num \in 0 .. n_layers
  /\ phase \in {"compute", "verify"} =>
       /\ data_queries \subseteq Cell(layer_num) /\ integrity_queries \subseteq Cell(layer_num)
       /\ DOMAIN to_verify \subseteq Cell(layer_num)
  /\ Len(reads) <= Len(proof)
  /\ Len(query_results_) \in {0, NumQueries}

\* ChooseQueryIndices: sorted, repeated ones included.  The oracle's elements are
\* not folds; at most one of the committed ones is cheated on.
Init ==
  /\ fri_step_list \in StepLists /\ log_last \in LogLast
  /\ LET elements == UNION {{Depth[k]} \X (0 .. SizeAt(Depth[k]) - 1) : k \in 1 .. n_layers}
     IN cheats \in {{}} \cup {{e} : e \in elements}
  /\ query_indices_ \in {list \in [1 .. NumQueries -> 0 .. SizeAt(Depth[1]) - 1] :
                           \A j \in 1 .. NumQueries - 1 : list[j] <= list[j + 1]}
  /\ proof = <<>> /\ layer_num = 0 /\ phase = "decommit"
  /\ data_queries = {} /\ integrity_queries = {}
  /\ to_verify = <<>> /\ query_results_ = <<>> /\ reads = <<>> /\ verdict = "none"

-----------------------------------------------------------------------------
\* FriProver: every committed layer's Decommit, in their order.

Sent(k, cell) ==
  [name |-> <<k, cell>>, value |-> Committed(Depth[k], cell[1] * Pow2[Step(k)] + cell[2])]

Decommit ==
  /\ phase = "decommit" /\ layer_num < n_layers
  /\ LET data == DataQueries(query_indices_, layer_num)
         integrity == IntegrityQueries(query_indices_, layer_num)
         cells == InOrder(ElementsToBeTransmitted(data, integrity, layer_num), layer_num)
         first == SecondLayerQueriesToFirstLayerQueries(query_indices_, Step(0))
     IN proof' = proof \o
          IF layer_num = 0
          THEN [j \in DOMAIN first |-> [name |-> <<0, <<first[j], 0>>>>, value |-> Oracle(first[j])]]
          ELSE [j \in DOMAIN cells |-> Sent(layer_num, cells[j])]
  /\ layer_num' = layer_num + 1
  /\ UNCHANGED <<parameters, phase, queries, to_verify, query_results_, reads, verdict>>

\* What reaches the verifier is the proof, or has one value changed.
ProverDone ==
  /\ phase = "decommit" /\ layer_num = n_layers
  /\ phase' = "first"
  /\ \/ UNCHANGED proof
     \/ cheats = {} /\ \E j \in DOMAIN proof : proof' = [proof EXCEPT ![j].value = Wrong]
  /\ UNCHANGED <<parameters, layer_num, queries, to_verify, query_results_, reads, verdict>>

-----------------------------------------------------------------------------
\* FriVerifier.

Unread == Len(proof) - Len(reads)
Value(j) == proof[Len(reads) + j].value

\* VerifyFirstLayer; the callback verifies the values against the commitments to
\* the trace, and throws if they are not those.
VerifyFirstLayer ==
  LET asked == SecondLayerQueriesToFirstLayerQueries(query_indices_, Step(0))
      coset == Pow2[Step(0)]
  IN /\ phase = "first"
     /\ IF \E j \in DOMAIN asked : j > Unread \/ Value(j) # Oracle(asked[j])
        THEN /\ phase' = "done" /\ verdict' = "reject"
             /\ UNCHANGED <<layer_num, query_results_, reads>>
        ELSE /\ query_results_' = [j \in 1 .. NumQueries |->
                  ApplyFriLayers([i \in 1 .. coset |-> Value((j - 1) * coset + i)], 0,
                                 asked[(j - 1) * coset + 1])]
             /\ reads' = reads \o [j \in DOMAIN asked |-> <<0, <<asked[j], 0>>>>]
             /\ layer_num' = 1 /\ phase' = "query"
             /\ UNCHANGED verdict
     /\ UNCHANGED <<parameters, proof, queries, to_verify>>

\* VerifyInnerLayers, one layer in three steps: read the data, ...
Query ==
  LET data == DataQueries(query_indices_, layer_num)
      integrity == IntegrityQueries(query_indices_, layer_num)
      cells == InOrder(ElementsToBeTransmitted(data, integrity, layer_num), layer_num)
  IN /\ phase = "query" /\ layer_num < n_layers
     /\ data_queries' = data /\ integrity_queries' = integrity
     /\ IF data \cap integrity # {} \/ Len(cells) > Unread
        THEN /\ phase' = "done" /\ verdict' = "throw" /\ UNCHANGED <<to_verify, reads>>
        ELSE /\ to_verify' = [c \in Range(cells) |->
                               Value(CHOOSE j \in DOMAIN cells : cells[j] = c)]
             /\ reads' = reads \o [j \in DOMAIN cells |-> <<layer_num, cells[j]>>]
             /\ phase' = "compute" /\ UNCHANGED verdict
     /\ UNCHANGED <<parameters, proof, layer_num, query_results_>>

\* ... insert the results of the layer before, which changes nothing where there
\* is a value already, and compute those of the next, ...
InsertResults ==
  LET at(j) == GetTableProverRowCol(IndexInLayer(query_indices_[j], layer_num), Step(layer_num))
      cells == {at(j) : j \in DOMAIN query_results_}
      First(c) == CHOOSE j \in DOMAIN query_results_ :
                    at(j) = c /\ \A i \in 1 .. j - 1 : at(i) # c
  IN [c \in DOMAIN to_verify \cup cells |->
        IF c \in DOMAIN to_verify THEN to_verify[c] ELSE query_results_[First(c)]]

CosetStart(j) == GetTableProverRow(IndexInLayer(query_indices_[j], layer_num), Step(layer_num))

Compute ==
  LET all == InsertResults
      coset_size == Pow2[Step(layer_num)]
      Coset(j) == [i \in 1 .. coset_size |-> <<CosetStart(j), i - 1>>]
  IN /\ phase = "compute"
     /\ to_verify' = all
     /\ IF \E j \in DOMAIN query_results_ : ~(Range(Coset(j)) \subseteq DOMAIN all)
        THEN phase' = "done" /\ verdict' = "throw" /\ UNCHANGED query_results_
        ELSE /\ query_results_' = [j \in DOMAIN query_results_ |->
                  ApplyFriLayers([i \in 1 .. coset_size |-> all[Coset(j)[i]]], layer_num,
                                 CosetStart(j) * coset_size)]
             /\ phase' = "verify" /\ UNCHANGED verdict
     /\ UNCHANGED <<parameters, proof, layer_num, queries, reads>>

\* ... and verify all of them against the commitment.
RowsComplete ==
  {c[1] : c \in DOMAIN to_verify} \X (0 .. Pow2[Step(layer_num)] - 1) = DOMAIN to_verify
VerifyDecommitment ==
  /\ phase = "verify"
  /\ IF ~RowsComplete THEN phase' = "done" /\ verdict' = "throw" /\ UNCHANGED layer_num
     ELSE IF \E c \in DOMAIN to_verify : to_verify[c] # Sent(layer_num, c).value
     THEN phase' = "done" /\ verdict' = "reject" /\ UNCHANGED layer_num
     ELSE phase' = "query" /\ layer_num' = layer_num + 1 /\ UNCHANGED verdict
  /\ UNCHANGED <<parameters, proof, queries, to_verify, query_results_, reads>>

\* VerifyLastLayer.
VerifyLastLayer ==
  /\ phase = "query" /\ layer_num = n_layers
  /\ verdict' = IF \A j \in DOMAIN query_results_ :
                     query_results_[j] = Committed(Depth[n_layers], IndexInLayer(query_indices_[j], n_layers))
                 THEN "accept" ELSE "reject"
  /\ phase' = "done"
  /\ UNCHANGED <<parameters, proof, layer_num, queries, to_verify, query_results_, reads>>

Done == phase = "done" /\ UNCHANGED vars

Next ==
  \/ Decommit \/ ProverDone
  \/ VerifyFirstLayer \/ Query \/ Compute \/ VerifyDecommitment \/ VerifyLastLayer \/ Done

Spec == Init /\ [][Next]_vars

-----------------------------------------------------------------------------
\* A query's path: the element of each committed layer that it folds to, and the
\* other elements of the path's cosets.  A tampered proof differs from what the
\* prover sent.
Path(j) == {<<Depth[k], IndexInLayer(query_indices_[j], k)>> : k \in 1 .. n_layers}
Tampered == \E j \in DOMAIN proof : proof[j].value = Wrong

\* Soundness of the consistency check: if FriVerifier accepts, then each layer's
\* elements on the paths of all queries are the folds of the layer before, and what
\* it has read, in an order that no name in the proof helps it with, is all that the
\* prover sent.
AcceptsOnlyConsistentPaths ==
  verdict = "accept" =>
    /\ ~Tampered /\ \A j \in 1 .. NumQueries : Path(j) \cap cheats = {}
    /\ reads = [j \in DOMAIN proof |-> proof[j].name]

\* Its completeness: a prover that is consistent there is not turned down, though
\* it cheat elsewhere.  And no assertion of the table verifier fails, however
\* queries coincide: data and integrity queries are disjoint and together fill every
\* row that a query falls on.
RejectsOnlyInconsistentPaths ==
  /\ TypeOK /\ verdict # "throw"
  /\ verdict = "reject" => Tampered \/ \E j \in 1 .. NumQueries : Path(j) \cap cheats # {}
===============================================================================
