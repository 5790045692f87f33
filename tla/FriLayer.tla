------------------------------- MODULE FriLayer -------------------------------
(***************************************************************************)
(* starkware/fri/fri_layer.{h,cc} as FriProver::CommitmentPhase and the    *)
(* committed layers of fri_committed_layer.cc drive them: the layers of a  *)
(* FRI prover, each kept in memory, recomputed from its first coset, or    *)
(* folded on the fly, that serve one another's evaluations in chunks.      *)
(*                                                                         *)
(* Field elements are abstracted to their position: a span is the range of *)
(* elements of its layer that it should hold, and whether it does.  It     *)
(* does unless it was computed with the twiddle factors, or folded on the  *)
(* domain, of another coset, extended from too small a coset, or read from *)
(* a vector that was moved away.                                           *)
(***************************************************************************)
EXTENDS Integers, Sequences

CONSTANTS
  StepLists,      \* the values of fri_step_list
  Bounds,         \* of last_layer_degree_bound
  Cosets,         \* of n_evaluation_domain_cosets
  LogMemory,      \* of log_n_max_in_memory_fri_layer_elements
  NonChunked,     \* of max_non_chunked_layer_size
  ChunkCounts     \* of n_chunks_between_layers

Pow2[n \in Nat] == IF n = 0 THEN 1 ELSE 2 * Pow2[n - 1]
IsPow2(x) == \E n \in 0 .. x : x = Pow2[n]

\* Only the first step may be 0 (fri_prover.cc:67).  Sizes of domains are powers of
\* two, so what divides them is; stark.cc asks this of the trace's length and of the
\* number of cosets.  There are two cosets at least: as many as the composition
\* polynomial's degree bound has trace lengths.
ASSUME FriLayerAssumption ==
  /\ \A list \in StepLists :
       list \in Seq(Nat) /\ list # <<>> /\ \A k \in 2 .. Len(list) : list[k] >= 1
  /\ \A x \in Bounds \cup Cosets \cup NonChunked \cup ChunkCounts : x \in Nat /\ IsPow2(x)
  /\ \A x \in Cosets : x >= 2
  /\ LogMemory \subseteq Nat

VARIABLES
  params,         \* FriParameters and FriProverConfig
  layers,         \* the chain of layers; the last one is current_layer
  layer_num,
  pc,             \* where CommitmentPhase, or a loop it calls, is
  fold,           \* the j of CreateNextFriLayer
  coset_size, is_in_memory, first_in_memory,
  chunk_index,    \* of GetAllEvaluation, or of Commit
  precompute,     \* the coset whose twiddle factors the loop's storage holds, if any
  gathered,       \* what the loop has put together so far
  tables          \* the layers given to a table prover, and what it was given

loop == <<chunk_index, precompute, gathered>>
choice == <<coset_size, is_in_memory, first_in_memory>>
vars == <<params, layers, layer_num, pc, fold, choice, loop, tables>>

n_layers == Len(params.steps)
Step(k) == IF k \in 1 .. n_layers THEN params.steps[k] ELSE 0
StepSum[k \in 0 .. n_layers] == IF k = 0 THEN 0 ELSE StepSum[k - 1] + params.steps[k]

Span(from, n, right) == [from |-> from, n |-> n, right |-> right]
Gone == Span(0, 0, FALSE)       \* a moved vector, or that of a failed assertion
current == layers[Len(layers)]

LayerKinds == {"memory", "out_of_memory", "proxy"}
Spans == [from : Nat, n : Nat, right : BOOLEAN]
Layers == [kind : LayerKinds, size : Nat, chunk : Nat, evaluation : Spans, lde : Spans]

TypeOK ==
  /\ layers \in Seq(Layers) /\ Len(layers) > 0
  /\ layer_num \in 1 .. n_layers
  /\ pc \in {"layer", "fold", "store", "fill", "commit", "decommit", "done", "abort"}
  /\ fold \in Nat /\ coset_size \in Nat
  /\ is_in_memory \in BOOLEAN /\ first_in_memory \in BOOLEAN
  /\ chunk_index \in Nat /\ precompute \subseteq Nat /\ gathered \in Spans
  /\ tables \in Seq([layer : 1 .. Len(layers), step : Nat, given : Spans,
                     answers : {"none", "right", "wrong"}])

\* The degree bound of the witness, which StarkParameters requires to equal the
\* length of the trace.
WitnessSize == params.bound * Pow2[StepSum[n_layers]]

\* What the prover's configuration must satisfy: nothing checks it, but SafeDiv
\* fails if a layer has fewer elements than it is to have chunks, or if so many are
\* folded in one step that a chunk of a single element is to be halved.
FitConfig(p) ==
  /\ 2 <= p.n_chunks /\ p.n_chunks <= p.max_non_chunked
  /\ \/ p.n_chunks <= 2 * p.bound * p.cosets
     \/ \A k \in DOMAIN p.steps : Pow2[p.steps[k]] <= 2 * p.max_non_chunked

\* FriProver and the first layer of CommitmentPhase.
Init ==
  /\ params \in {p \in [steps : StepLists, bound : Bounds, cosets : Cosets, log_memory : LogMemory,
                        max_non_chunked : NonChunked, n_chunks : ChunkCounts] : FitConfig(p)}
  /\ layers = <<[kind |-> "out_of_memory", size |-> WitnessSize * params.cosets,
                 chunk |-> WitnessSize,
                 evaluation |-> Span(0, WitnessSize, TRUE), lde |-> Gone]>>
  /\ layer_num = 1 /\ pc = "layer" /\ fold = 0
  /\ coset_size = WitnessSize /\ is_in_memory = FALSE /\ first_in_memory = TRUE
  /\ chunk_index = 0 /\ precompute = {} /\ gathered = Gone /\ tables = <<>>

-----------------------------------------------------------------------------
\* GetChunk.

\* A vector of evaluations on the first coset determines the layer only if it is
\* no shorter than the degree bound the folds have left the layer with.  (Slip,
\* as those below what a property must catch: moved before it is added.)
Moved(L) == L.lde # Gone
InitLdeManagerTooLate(L) ==
  IF Moved(L) THEN L ELSE [L EXCEPT !.evaluation = Gone, !.lde = Span(0, L.chunk, FALSE)]
InitLdeManager(L) ==
  IF Moved(L) THEN L
  ELSE [L EXCEPT !.evaluation = Gone,
                 !.lde = Span(0, L.chunk, /\ L.evaluation.right
                                          /\ L.chunk * params.cosets >= L.size)]

LdeOnCoset(L, index, twiddles) ==
  Span(index * L.chunk, L.chunk, InitLdeManager(L).lde.right /\ twiddles = {index})

\* Is chunk 0 still in evaluation_?
ServesEvaluation(L, index) == index = 0 /\ ~Moved(L)

SubSpan(L, size, index) ==
  IF (index + 1) * size <= L.size THEN Span(index * size, size, L.evaluation.right) ELSE Gone

OutOfMemoryAccepts(L, size, index) == size <= L.chunk /\ index < L.size \div L.chunk

\* The overload that returns a span: a layer in memory, or one out of memory that
\* computes into the storage.
StoredChunk(L, size, index) ==
  IF L.kind = "memory" THEN IF size < L.size THEN SubSpan(L, size, index) ELSE L.evaluation
  ELSE IF ~OutOfMemoryAccepts(L, size, index) THEN Gone
  ELSE IF ServesEvaluation(L, index) THEN L.evaluation
  ELSE [LdeOnCoset(L, index, {index}) EXCEPT !.n = size]

\* The overload that fills an output of that size; an LDE fills whole cosets only.
CopiedChunk(L, size, index, twiddles) ==
  IF L.kind = "memory" THEN SubSpan(L, size, index)
  ELSE IF ~OutOfMemoryAccepts(L, size, index) THEN Gone
  ELSE IF ServesEvaluation(L, index) THEN [L.evaluation EXCEPT !.n = size]
  ELSE IF size = L.chunk /\ twiddles # {} THEN LdeOnCoset(L, index, twiddles) ELSE Gone

\* A proxy asks the layer below for twice the elements, down to the first layer
\* that is not one; each checks the sizes and folds on its own coset.
Base == CHOOSE b \in DOMAIN layers : /\ layers[b].kind # "proxy"
                                     /\ \A i \in b + 1 .. Len(layers) : layers[i].kind = "proxy"
Proxies == Base + 1 .. Len(layers)

FoldedChunk(size, index) ==
  LET top == Len(layers)
      below == size * Pow2[top - Base]
      chunk == StoredChunk(layers[Base], below, index)
  IN IF /\ chunk.n = below
        /\ \A i \in Proxies : /\ layers[i].chunk = size * Pow2[top - i]
                              /\ index < layers[i].size \div layers[i].chunk
     THEN Span(index * size, size, chunk.right /\ chunk.from = index * below)
     ELSE Gone

GetChunk(size, index, twiddles) ==
  IF current.kind = "proxy" THEN FoldedChunk(size, index)
  ELSE CopiedChunk(current, size, index, twiddles)

\* What GetChunk leaves behind in the layer that answers.
AfterChunk(index) ==
  IF layers[Base].kind = "out_of_memory" /\ ~ServesEvaluation(layers[Base], index)
  THEN [layers EXCEPT ![Base] = InitLdeManager(@)] ELSE layers

\* GetPrecomputedFft: the storage's twiddle factors, shifted from the coset
\* before.  Slip: shifted from the first coset.
ShiftFromFirst(p, index) == p + index
Shift(p, index) == p + index - (index - 1)
GetPrecomputedFft(index) ==
  IF current.kind # "out_of_memory" \/ ServesEvaluation(current, index) THEN precompute
  ELSE LET held == IF precompute = {} THEN {0} ELSE precompute
       IN IF index > 0 THEN {Shift(p, index) : p \in held} ELSE held

-----------------------------------------------------------------------------
\* CommitmentPhase, and the loops below it.

Abort == pc' = "abort" /\ UNCHANGED <<params, layers, layer_num, fold, choice, loop, tables>>

RowsLeft == current.chunk \div Pow2[Step(layer_num + 1) + Step(layer_num)]
ChunkTooSmall == RowsLeft < 2

NextLayer ==
  /\ pc = "layer"
  /\ is_in_memory' = \/ current.size <= Pow2[params.log_memory]
                     \/ layer_num = n_layers
                     \/ ChunkTooSmall
  /\ pc' = "fold" /\ fold' = 0
  /\ UNCHANGED <<params, layers, layer_num, coset_size, first_in_memory, loop, tables>>

\* 0 stands for a failing SafeDiv.
CalculateChunkSize(prev) ==
  LET part == prev.size \div params.n_chunks IN
  IF prev.chunk < prev.size \/ prev.size <= params.max_non_chunked THEN prev.chunk \div 2
  ELSE IF prev.size % params.n_chunks # 0 THEN 0
  ELSE IF part > params.max_non_chunked THEN part ELSE params.max_non_chunked

\* CreateNextFriLayer, one turn: the constructor of FriLayerProxy splits the domain
\* below it into cosets of twice the chunk.
FoldOnce ==
  LET chunk == CalculateChunkSize(current) IN
  /\ pc = "fold" /\ fold < Step(layer_num)
  /\ IF chunk = 0 \/ 2 * chunk > current.size THEN Abort
     ELSE /\ layers' = Append(layers, [kind |-> "proxy", size |-> current.size \div 2,
                                      chunk |-> chunk, evaluation |-> Gone, lde |-> Gone])
          /\ fold' = fold + 1
          /\ UNCHANGED <<params, layer_num, pc, choice, loop, tables>>

FoldsDone ==
  /\ pc = "fold" /\ fold = Step(layer_num)
  /\ pc' = IF ~is_in_memory \/ (first_in_memory /\ Step(layer_num) # 0) THEN "store" ELSE "fill"
  /\ first_in_memory' = (first_in_memory /\ ~is_in_memory)
  /\ UNCHANGED <<params, layers, layer_num, fold, coset_size, is_in_memory, loop, tables>>

\* The coset of an out-of-memory layer.  Slip: not made smaller with the layer.
SameCosetSize == coset_size
NextCosetSize == coset_size \div Pow2[Step(layer_num)]

\* The constructor of FriLayerOutOfMemory, which passes no storage on.
StoreFirstCoset ==
  LET coset == NextCosetSize
      first == GetChunk(coset, 0, {})
  IN /\ pc = "store"
     /\ IF coset = 0 \/ coset > current.size \/ first = Gone THEN Abort
        ELSE /\ layers' = Append(AfterChunk(0), [kind |-> "out_of_memory", size |-> current.size,
                                        chunk |-> coset, evaluation |-> first, lde |-> Gone])
             /\ coset_size' = coset
             /\ pc' = IF is_in_memory THEN "fill" ELSE "commit"
             /\ UNCHANGED <<params, layer_num, fold, is_in_memory, first_in_memory, loop, tables>>

Gather(chunk) == Span(0, gathered.n + chunk.n,
                      chunk.right /\ chunk.from = gathered.n /\ (chunk_index > 0 => gathered.right))
ChunksLeft == chunk_index < current.size \div current.chunk
LoopEnds == chunk_index' = 0 /\ precompute' = {} /\ gathered' = Gone

\* GetAllEvaluation, one turn; the storage is kept from one to the next.
FillChunk ==
  LET twiddles == GetPrecomputedFft(chunk_index)
      chunk == GetChunk(current.chunk, chunk_index, twiddles)
  IN /\ pc = "fill" /\ ChunksLeft
     /\ IF chunk = Gone THEN Abort
        ELSE /\ gathered' = Gather(chunk) /\ layers' = AfterChunk(chunk_index)
             /\ precompute' = twiddles /\ chunk_index' = chunk_index + 1
             /\ UNCHANGED <<params, layer_num, pc, fold, choice, tables>>

\* The constructor of FriLayerInMemory returns.
FillEnds ==
  /\ pc = "fill" /\ ~ChunksLeft
  /\ layers' = Append(layers, [kind |-> "memory", size |-> current.size, chunk |-> current.size,
                               evaluation |-> gathered, lde |-> Gone])
  /\ LoopEnds
  /\ pc' = IF layer_num = n_layers THEN "decommit" ELSE "commit"
  /\ UNCHANGED <<params, layer_num, fold, choice, tables>>

\* FriCommittedLayerByTableProver::Commit, one turn.
CommitChunk ==
  LET chunk == StoredChunk(current, current.chunk, chunk_index) IN
  /\ pc = "commit" /\ ChunksLeft
  /\ IF chunk = Gone THEN Abort
     ELSE /\ gathered' = Gather(chunk) /\ layers' = AfterChunk(chunk_index)
          /\ chunk_index' = chunk_index + 1
          /\ UNCHANGED <<params, layer_num, pc, fold, choice, precompute, tables>>

CommitEnds ==
  /\ pc = "commit" /\ ~ChunksLeft
  /\ tables' = Append(tables, [layer |-> Len(layers), step |-> Step(layer_num + 1),
                               given |-> gathered, answers |-> "none"])
  /\ LoopEnds
  /\ layer_num' = layer_num + 1 /\ pc' = "layer"
  /\ UNCHANGED <<params, layers, fold, choice>>

\* Decommit of one committed layer, in their order: EvalAtPoints, on any points;
\* a proxy has none.
Decommit ==
  \E k \in DOMAIN tables :
    LET L == layers[tables[k].layer]
        asked == IF L.kind = "out_of_memory" THEN InitLdeManager(L) ELSE L
    IN /\ pc = "decommit"
       /\ tables[k].answers = "none" /\ \A j \in 1 .. k - 1 : tables[j].answers # "none"
       /\ IF L.kind = "proxy" THEN Abort
          ELSE /\ layers' = [layers EXCEPT ![tables[k].layer] = asked]
               /\ tables' = [tables EXCEPT ![k].answers =
                               IF IF L.kind = "memory" THEN L.evaluation.right ELSE asked.lde.right
                               THEN "right" ELSE "wrong"]
               /\ UNCHANGED <<params, layer_num, pc, fold, choice, loop>>

DecommitEnds ==
  /\ pc = "decommit" /\ \A k \in DOMAIN tables : tables[k].answers # "none"
  /\ pc' = "done"
  /\ UNCHANGED <<params, layers, layer_num, fold, choice, loop, tables>>

Done == pc \in {"done", "abort"} /\ UNCHANGED vars

Next ==
  \/ NextLayer \/ FoldOnce \/ FoldsDone \/ StoreFirstCoset \/ FillChunk \/ FillEnds
  \/ CommitChunk \/ CommitEnds \/ Decommit \/ DecommitEnds \/ Done

Spec == Init /\ [][Next]_vars

-----------------------------------------------------------------------------
\* A segment given to a table prover holds two rows or more: what is_chunk_too_small
\* is for.
SegmentsHaveTwoRows ==
  \A k \in DOMAIN tables : layers[tables[k].layer].chunk >= 2 * Pow2[tables[k].step]

\* The note in fri_layer.h: an in-memory layer is never followed by one out of
\* memory.  CommitmentPhase decides for each layer anew, so this rests on the
\* witness being as long as the degree bound.
MemoryLayersStayLast == first_in_memory \/ is_in_memory

\* No assertion fails in any configuration that FitConfig admits: not "Bad
\* parameters", not "vector size does not match domain size", no layer is asked
\* for a chunk without the storage it needs, and no proxy is decommitted: sizes and
\* kinds of layers fit together.
NoAssertionFails ==
  TypeOK /\ pc # "abort" /\ SegmentsHaveTwoRows /\ MemoryLayersStayLast

\* Each table prover is given every element of its layer once and in order, right
\* ones: chunks served from the first evaluation, from the LDE after it was moved,
\* with shifted twiddle factors or folded from the layers below all agree.  And the
\* last layer, whose coefficients SendLastLayer sends, is the whole right evaluation
\* of a polynomial of the degree bound.
TablesHoldTheirLayers ==
  /\ \A k \in DOMAIN tables : tables[k].given = Span(0, layers[tables[k].layer].size, TRUE)
  /\ pc \in {"decommit", "done"} =>
       current.evaluation = Span(0, params.bound * params.cosets, TRUE)

\* The elements revealed in the query phase are those that were committed.
AnswersAreTheCommitted == \A k \in DOMAIN tables : tables[k].answers # "wrong"
===============================================================================
