--------------------------- MODULE EvaluationProofs ---------------------------
(***************************************************************************)
(* Whoever asks for evaluations gets those it asked for.  Of a column, by  *)
(* CachedLdeManager: for every number of cosets and every sequence of      *)
(* calls the twiddle factors stand for previous_coset_offset_, and so a    *)
(* caller that stops at the first failure gets the coset it named.  Of a   *)
(* FRI layer, by FriLayer: for every list of steps and every configuration *)
(* of the prover, the chunks that layers serve one another are right, of   *)
(* sizes that fit, and make up the layers that are committed.              *)
(***************************************************************************)
EXTENDS FriLayer, CachedLdeManager, FiniteSetTheorems, SequenceTheorems, WellFoundedInduction, TLAPS

-----------------------------------------------------------------------------
\* CachedLdeManager.

\* What EvalOnCoset and EvalAtPoints rely on: every entry a caller can still be
\* given was computed on its own coset.
CacheCorrect ==
  ~RetryAfterFailure /\ reply.kind # "assert" =>
    \A c \in Coset : cache_[c] \in {None, c}

LdeInvariant ==
  /\ LdeTypeOK
  /\ TwiddlesMatchPreviousOffset
  /\ ~done_adding_ => previous_coset_offset_ = 0
  /\ CacheCorrect
  /\ ~RetryAfterFailure => EvaluatedOnRequestedCoset

LEMMA LdeInitStep == LdeInit => LdeInvariant
<1> SUFFICES ASSUME LdeInit PROVE LdeInvariant
  OBVIOUS
<1> USE DEF LdeInit, NoValue
<1>1. 0 \in Coset /\ n_columns_ \in 0 .. MaxColumns
  BY LdeAssumption DEF Coset
<1>2. cache_ \in [Coset -> Evaluation \cup {None}]
  OBVIOUS
<1>3. reply.kind \in {"assert", "done", "values"} /\ reply.values = {}
  OBVIOUS
<1>4. LdeTypeOK
  BY <1>1, <1>2, <1>3, Zenon DEF LdeTypeOK
<1>5. CacheCorrect
  BY DEF CacheCorrect
<1>6. QED
  BY <1>3, <1>4, <1>5 DEF LdeInvariant, TwiddlesMatchPreviousOffset, EvaluatedOnRequestedCoset

\* After a shift the twiddle factors stand for the coset that was asked for.
LEMMA ShiftToCorrect ==
  ASSUME LdeInvariant, done_adding_, NEW c \in Coset, ShiftTo(c)
  PROVE  fft_precompute_' = c /\ previous_coset_offset_' = c /\ c \in Int
  BY LdeAssumption DEF LdeInvariant, LdeTypeOK, TwiddlesMatchPreviousOffset, ShiftTo, Coset

LEMMA EvalOnCosetStep ==
  ASSUME LdeInvariant, NEW c \in Coset, EvalOnCoset(c)
  PROVE  LdeInvariant'
<1> USE DEF LdeInvariant, Failure, Values, Fail
<1>1. MayCall /\ UNCHANGED <<config, done_adding_, n_columns_, lde_manager_>>
  BY DEF EvalOnCoset
<1>2. CASE ~done_adding_ /\ Fail
           /\ UNCHANGED <<cache_, fft_precompute_, previous_coset_offset_, storage>>
  BY <1>1, <1>2 DEF LdeTypeOK, TwiddlesMatchPreviousOffset, CacheCorrect,
     EvaluatedOnRequestedCoset, config
<1>3. CASE /\ done_adding_ /\ cache_[c] # None
           /\ reply' = Values({<<c, cache_[c]>>})
           /\ UNCHANGED <<cache_, fft_precompute_, previous_coset_offset_, storage>>
  <2>1. LdeTypeOK'
    BY <1>1, <1>3 DEF LdeTypeOK, config
  <2>2. ~RetryAfterFailure => cache_[c] = c
    BY <1>1, <1>3 DEF CacheCorrect, MayCall
  <2>3. QED
    BY <1>1, <1>3, <2>1, <2>2 DEF TwiddlesMatchPreviousOffset, CacheCorrect,
       MayCall, EvaluatedOnRequestedCoset
<1>4. CASE /\ done_adding_ /\ cache_[c] = None /\ ShiftTo(c) /\ store_full_lde
           /\ IF lde_manager_
              THEN /\ cache_' = [cache_ EXCEPT ![c] = fft_precompute_']
                   /\ reply' = Values({<<c, fft_precompute_'>>})
              ELSE /\ cache_' = [cache_ EXCEPT ![c] = Uninitialized]
                   /\ Fail
           /\ UNCHANGED storage
  <2>1. fft_precompute_' = c /\ previous_coset_offset_' = c /\ c \in Int
    BY <1>4, ShiftToCorrect
  <2>2. LdeTypeOK'
    <3>1. {c, Uninitialized} \subseteq Evaluation
      BY <2>1 DEF Evaluation, Offset
    <3>2. /\ cache_' \in [Coset -> Evaluation \cup {None}]
          /\ storage' \in Evaluation \cup {None}
      <4>1. cache_ \in [Coset -> Evaluation \cup {None}] /\ storage \in Evaluation \cup {None}
        BY DEF LdeTypeOK
      <4>2. /\ storage' = storage
            /\ \/ cache_' = [cache_ EXCEPT ![c] = c]
               \/ cache_' = [cache_ EXCEPT ![c] = Uninitialized]
        BY <1>4, <2>1
      <4>3. QED
        BY <3>1, <4>1, <4>2
    <3>3. reply' \in {Failure, Values({<<c, c>>})}
      BY <1>4, <2>1
    <3>4. reply'.kind \in {"assert", "done", "values"} /\ reply'.values \subseteq Coset \X Evaluation
      BY <3>1, <3>3
    <3>5. previous_coset_offset_' \in Coset /\ fft_precompute_' \in Offset \cup {None}
      BY <2>1 DEF Offset
    <3>6. QED
      BY <1>1, <3>2, <3>4, <3>5 DEF LdeTypeOK, config
  <2>3. QED
    BY <1>1, <1>4, <2>1, <2>2 DEF LdeTypeOK, TwiddlesMatchPreviousOffset, CacheCorrect,
       MayCall, EvaluatedOnRequestedCoset
<1>5. CASE /\ done_adding_ /\ cache_[c] = None /\ ShiftTo(c) /\ ~store_full_lde
           /\ IF storage # None /\ lde_manager_
              THEN /\ storage' = fft_precompute_'
                   /\ reply' = Values({<<c, fft_precompute_'>>})
              ELSE Fail /\ UNCHANGED storage
           /\ UNCHANGED cache_
  <2>1. fft_precompute_' = c /\ previous_coset_offset_' = c /\ c \in Int
    BY <1>5, ShiftToCorrect
  <2>2. LdeTypeOK'
    <3>1. {c, Uninitialized} \subseteq Evaluation
      BY <2>1 DEF Evaluation, Offset
    <3>2. /\ cache_' \in [Coset -> Evaluation \cup {None}]
          /\ storage' \in Evaluation \cup {None}
      <4>1. cache_ \in [Coset -> Evaluation \cup {None}] /\ storage \in Evaluation \cup {None}
        BY DEF LdeTypeOK
      <4>2. cache_' = cache_ /\ storage' \in {storage, c}
        BY <1>5, <2>1
      <4>3. QED
        BY <3>1, <4>1, <4>2
    <3>3. reply' \in {Failure, Values({<<c, c>>})}
      BY <1>5, <2>1
    <3>4. reply'.kind \in {"assert", "done", "values"} /\ reply'.values \subseteq Coset \X Evaluation
      BY <3>1, <3>3
    <3>5. previous_coset_offset_' \in Coset /\ fft_precompute_' \in Offset \cup {None}
      BY <2>1 DEF Offset
    <3>6. QED
      BY <1>1, <3>2, <3>4, <3>5 DEF LdeTypeOK, config
  <2>3. reply' \in {Failure, Values({<<c, c>>})} /\ cache_' = cache_
    BY <1>5, <2>1
  <2>4. CacheCorrect'
    BY <1>1, <2>3 DEF CacheCorrect, MayCall
  <2>5. EvaluatedOnRequestedCoset'
    BY <2>3 DEF EvaluatedOnRequestedCoset
  <2>6. QED
    BY <1>1, <1>5, <2>1, <2>2, <2>4, <2>5 DEF TwiddlesMatchPreviousOffset
<1>6. QED
  BY <1>2, <1>3, <1>4, <1>5 DEF EvalOnCoset

LEMMA EvalAtPointsStep ==
  ASSUME LdeInvariant, NEW cs \in SUBSET Coset, cs # {}, EvalAtPoints(cs)
  PROVE  LdeInvariant'
<1> USE DEF LdeInvariant, Failure, Values, Fail
<1>1. MayCall /\ UNCHANGED <<config, done_adding_, n_columns_, lde_manager_, cache_,
                             storage>>
  BY DEF EvalAtPoints
<1>2. CASE Fail /\ UNCHANGED <<fft_precompute_, previous_coset_offset_>>
  BY <1>1, <1>2 DEF LdeTypeOK, TwiddlesMatchPreviousOffset, CacheCorrect,
     EvaluatedOnRequestedCoset, config
<1>3. CASE /\ \A c \in cs : cache_[c] # None
           /\ reply' = Values({<<c, cache_[c]>> : c \in cs})
           /\ UNCHANGED <<fft_precompute_, previous_coset_offset_>>
  <2>1. LdeTypeOK'
    BY <1>1, <1>3 DEF LdeTypeOK, config
  <2>2. ~RetryAfterFailure => \A c \in cs : cache_[c] = c
    BY <1>1, <1>3 DEF CacheCorrect, MayCall
  <2>3. QED
    BY <1>1, <1>3, <2>1, <2>2 DEF TwiddlesMatchPreviousOffset, CacheCorrect,
       MayCall, EvaluatedOnRequestedCoset
<1>4. CASE /\ done_adding_ /\ \E last \in cs : ShiftTo(last)
           /\ reply' = Values({<<c, fft_precompute_ + (c - previous_coset_offset_)>> : c \in cs})
  <2>1. PICK last \in cs : ShiftTo(last)
    BY <1>4
  <2>2. fft_precompute_' = last /\ previous_coset_offset_' = last
        /\ last \in Int
    BY <1>4, <2>1, ShiftToCorrect
  <2>3. \A c \in cs : fft_precompute_ + (c - previous_coset_offset_) = c /\ c \in Int
    BY <1>4, LdeAssumption DEF LdeTypeOK, TwiddlesMatchPreviousOffset, Coset
  <2>4. reply' = Values({<<c, c>> : c \in cs})
    BY <1>4, <2>3
  <2>5. LdeTypeOK'
    BY <1>1, <2>1, <2>2, <2>3, <2>4 DEF LdeTypeOK, config, Evaluation, Offset
  <2>6. QED
    BY <1>1, <1>4, <2>2, <2>4, <2>5 DEF TwiddlesMatchPreviousOffset, CacheCorrect,
       MayCall, EvaluatedOnRequestedCoset
<1>5. CASE /\ reply' = Values({<<c, c>> : c \in cs})
           /\ UNCHANGED <<fft_precompute_, previous_coset_offset_>>
  <2>1. \A c \in cs : c \in Int
    BY LdeAssumption DEF Coset
  <2>2. QED
    BY <1>1, <1>5, <2>1 DEF LdeTypeOK, TwiddlesMatchPreviousOffset, CacheCorrect,
       EvaluatedOnRequestedCoset, config, Evaluation, Offset, MayCall
<1>6. QED
  BY <1>2, <1>3, <1>4, <1>5 DEF EvalAtPoints

LEMMA LdeNextStep == LdeInvariant /\ [LdeNext]_lde_vars => LdeInvariant'
<1> SUFFICES ASSUME LdeInvariant, [LdeNext]_lde_vars PROVE LdeInvariant'
  OBVIOUS
<1> USE DEF LdeInvariant, LdeTypeOK, TwiddlesMatchPreviousOffset, CacheCorrect, MayCall,
            EvaluatedOnRequestedCoset, Failure, NoValue, Fail, config
<1>1. CASE AddEvaluation
  BY <1>1, LdeAssumption DEF AddEvaluation
<1>2. CASE FinalizeAdding
  <2>1. fft_precompute_' \in {0, fft_precompute_} /\ 0 \in Offset \cup {None}
    BY <1>2 DEF FinalizeAdding, Offset
  <2>2. done_adding_' \in BOOLEAN /\ reply' \in {[kind |-> "assert", values |-> {}],
                                                  [kind |-> "done", values |-> {}]}
    BY <1>2 DEF FinalizeAdding
  <2>3. done_adding_' /\ (done_adding_ \/ fft_precompute_' = 0)
        /\ (done_adding_ => fft_precompute_' = fft_precompute_)
    BY <1>2 DEF FinalizeAdding
  <2>4. QED
    BY <1>2, <2>1, <2>2, <2>3 DEF FinalizeAdding
<1>3. CASE AllocateStorage
  BY <1>3 DEF AllocateStorage, Evaluation
<1>4. CASE EvalAtPointsNotCached
  BY <1>4 DEF EvalAtPointsNotCached
<1>5. CASE NumColumns \/ FinalizeEvaluations
  <2>1. /\ lde_manager_' \in BOOLEAN
        /\ reply' \in {[kind |-> "assert", values |-> {}], [kind |-> "done", values |-> {}]}
        /\ UNCHANGED <<config, done_adding_, n_columns_, cache_, fft_precompute_,
                       previous_coset_offset_, storage>>
    BY <1>5, Zenon DEF NumColumns, FinalizeEvaluations
  <2>2. MayCall
    BY <1>5 DEF NumColumns, FinalizeEvaluations
  <2>3. QED
    BY <2>1, <2>2
<1>6. CASE Aborted \/ UNCHANGED lde_vars
  BY <1>6 DEF Aborted, lde_vars
<1>7. CASE \E c \in Coset : EvalOnCoset(c)
  BY <1>7, EvalOnCosetStep
<1>8. CASE \E cs \in (SUBSET Coset) \ {{}} : EvalAtPoints(cs)
  <2> HIDE DEF LdeInvariant
  <2>1. PICK cs \in SUBSET Coset : cs # {} /\ EvalAtPoints(cs)
    BY <1>8
  <2>2. QED
    BY <2>1, EvalAtPointsStep
<1>9. QED
  BY <1>1, <1>2, <1>3, <1>4, <1>5, <1>6, <1>7, <1>8 DEF LdeNext

-----------------------------------------------------------------------------
\* Offsets and evaluations are those of cosets, or None, or uninitialised memory:
\* the shifts never leave the cosets.
THEOREM LdeTypeOKTheorem == LdeSpec => []LdeTypeOK
<1>1. LdeInvariant => LdeTypeOK
  BY DEF LdeInvariant
<1>2. QED
  BY <1>1, LdeInitStep, LdeNextStep, PTL DEF LdeSpec

\* The twiddle factors of fft_precompute_ always belong to the offset that
\* previous_coset_offset_ records, whatever was asked for and whatever failed.
THEOREM TwiddlesTheorem == LdeSpec => []TwiddlesMatchPreviousOffset
<1>1. LdeInvariant => TwiddlesMatchPreviousOffset
  BY DEF LdeInvariant
<1>2. QED
  BY <1>1, LdeInitStep, LdeNextStep, PTL DEF LdeSpec

\* A caller that does not go on after a failure gets the evaluations on the
\* cosets it asked for, in any order and with any configuration.
THEOREM EvaluatedTheorem ==
  ASSUME ~RetryAfterFailure
  PROVE  LdeSpec => []EvaluatedOnRequestedCoset
<1>1. LdeInvariant => EvaluatedOnRequestedCoset
  BY DEF LdeInvariant
<1>2. QED
  BY <1>1, LdeInitStep, LdeNextStep, PTL DEF LdeSpec

-----------------------------------------------------------------------------
\* FriLayer: what its layers and loops look like between steps.

\* The folds to come: in this turn of CommitmentPhase, after it, and in all.
ToFold == CASE pc = "layer" -> Step(layer_num) [] pc = "fold" -> Step(layer_num) - fold [] OTHER -> 0
FoldsAfter == StepSum[n_layers] - StepSum[layer_num]
FoldsLeft == FoldsAfter + ToFold

Parameters ==
  /\ params \in [steps : StepLists, bound : Bounds, cosets : Cosets, log_memory : LogMemory,
                 max_non_chunked : NonChunked, n_chunks : ChunkCounts]
  /\ FitConfig(params)

\* A layer in memory is whole and right; one out of memory has its first coset, or
\* the LDE of it.
SoundLayer(L) ==
  /\ L.kind = "memory" => L.chunk = L.size /\ L.evaluation = Span(0, L.size, TRUE)
  /\ L.kind = "out_of_memory" =>
       /\ L.size = L.chunk * params.cosets
       /\ \/ L.evaluation = Span(0, L.chunk, TRUE) /\ L.lde = Gone
          \/ L.evaluation = Gone /\ L.lde = Span(0, L.chunk, TRUE)
SoundLayers == \A i \in DOMAIN layers : SoundLayer(layers[i])

\* Chunks of current_layer divide it, and can be halved as often as this turn is to.
Sizes ==
  /\ current.size = params.bound * params.cosets * Pow2[FoldsLeft]
  /\ \E h, g \in Nat : /\ current.chunk = Pow2[h + ToFold]
                       /\ current.size = Pow2[h + ToFold + g]
  /\ current.kind = "proxy" /\ current.chunk = current.size =>
       current.size <= params.max_non_chunked \/ params.n_chunks = 2

\* Layers and their chunks double from one proxy to the one below.
Doubling ==
  /\ Base \in DOMAIN layers /\ layers[Base].kind # "proxy"
  /\ \A i \in Proxies : layers[i].kind = "proxy"
  /\ \A i \in Proxies : /\ layers[i].size = current.size * Pow2[Len(layers) - i]
                        /\ layers[i].chunk = current.chunk * Pow2[Len(layers) - i]
  /\ layers[Base].size = current.size * Pow2[Len(layers) - Base]
  /\ layers[Base].kind = "out_of_memory" =>
       layers[Base].chunk = current.chunk * Pow2[Len(layers) - Base]

\* Which kinds of layers current_layer and the one below the proxies are.
NoMemoryYet == first_in_memory \/ pc = "store"
Kinds ==
  /\ pc \in {"layer", "fold", "store"} =>
       /\ layers[Base].kind = IF NoMemoryYet THEN "out_of_memory" ELSE "memory"
       /\ layer_num = 1 => NoMemoryYet /\ ~Moved(layers[Base])
       /\ current.kind = "proxy" <=> pc # "layer" /\ fold > 0
       /\ pc # "layer" => fold <= Step(layer_num)
       /\ pc = "store" => fold = Step(layer_num)
  /\ pc = "fill" => \/ current.kind = "proxy" /\ layers[Base].kind = "memory"
                    \/ current.kind = "out_of_memory"
  /\ pc = "commit" => current.kind = IF first_in_memory THEN "out_of_memory" ELSE "memory"
  /\ pc \in {"decommit", "done"} => current.kind = "memory"

\* Until the first layer in memory, chunks are as long as the degree bound.
FirstCosets ==
  /\ NoMemoryYet => current.chunk = params.bound * Pow2[FoldsLeft]
  /\ NoMemoryYet /\ pc \in {"layer", "fold", "store"} =>
       coset_size = params.bound * Pow2[FoldsAfter + Step(layer_num)]
  /\ NoMemoryYet /\ pc = "commit" => coset_size = params.bound * Pow2[FoldsAfter]

\* What was decided for the layer to come, and why the next ones will follow.
Turn == {"fold", "store", "fill", "commit"}
Decided ==
  /\ pc \in {"store", "fill", "commit"} => first_in_memory = ~is_in_memory
  /\ pc = "fill" => is_in_memory
  /\ pc \in Turn /\ layer_num = n_layers => is_in_memory /\ pc # "commit"
  /\ pc \in Turn /\ ~is_in_memory =>
       params.bound * Pow2[FoldsAfter] >= 2 * Pow2[Step(layer_num + 1)]
  /\ pc \in Turn /\ is_in_memory =>
       current.size <= Pow2[params.log_memory] \/ layer_num >= n_layers - 1
  /\ pc = "layer" /\ ~first_in_memory =>
       current.size <= Pow2[params.log_memory] \/ layer_num = n_layers
  /\ pc \in {"decommit", "done"} => layer_num = n_layers

\* What a loop over the chunks of current_layer has done so far.
Looped ==
  IF pc \in {"fill", "commit"}
  THEN /\ chunk_index * current.chunk <= current.size
       /\ gathered = IF chunk_index = 0 THEN Gone ELSE Span(0, chunk_index * current.chunk, TRUE)
       /\ pc = "fill" => \/ precompute = {} /\ chunk_index <= 1
                         \/ precompute = {chunk_index - 1} /\ chunk_index >= 1
                         \/ current.kind = "proxy"
  ELSE chunk_index = 0 /\ precompute = {} /\ gathered = Gone

Tabled ==
  \A k \in DOMAIN tables :
    /\ layers[tables[k].layer].kind # "proxy"
    /\ tables[k].given = Span(0, layers[tables[k].layer].size, TRUE)
    /\ tables[k].answers # "wrong"

IInv ==
  /\ TypeOK /\ pc # "abort"
  /\ Parameters /\ SoundLayers /\ Sizes /\ Doubling /\ Kinds /\ FirstCosets /\ Decided
  /\ Looped /\ Tabled /\ SegmentsHaveTwoRows /\ MemoryLayersStayLast
-----------------------------------------------------------------------------
\* Induction on the naturals.

LEMMA LeastElement ==
  ASSUME NEW T \in SUBSET Nat, T # {}
  PROVE  \E m \in T : \A n \in T : m <= n
<1> DEFINE R == OpToRel(<, Nat)
<1>1. IsWellFoundedOn(R, Nat)
  BY NatLessThanWellFounded
<1>2. \A x, y \in Nat : <<y, x>> \in R <=> y < x
  BY DEF OpToRel
<1> HIDE DEF R
<1>3. PICK x \in T : \A y \in T : ~ (<<y, x>> \in R)
  BY <1>1, WFMin, Zenon
<1>4. ASSUME NEW y \in T PROVE x <= y
  <2>1. x \in Nat /\ y \in Nat /\ <<y, x>> \notin R
    BY <1>3
  <2>2. ~ (y < x)
    BY <1>2, <2>1
  <2>3. QED
    BY <2>1, <2>2
<1>5. QED
  BY <1>4

\* A set that has 0 and the successor of each of its numbers has every number.
LEMMA SetInduction ==
  ASSUME NEW T, 0 \in T, \A n \in Nat : n \in T => n + 1 \in T
  PROVE  \A n \in Nat : n \in T
<1> DEFINE U == Nat \ T
<1>1. SUFFICES ASSUME U # {} PROVE FALSE
  OBVIOUS
<1>2. PICK m \in U : \A n \in U : m <= n
  <2> HIDE DEF U
  <2>1. U \in SUBSET Nat
    BY DEF U
  <2>2. QED
    BY <1>1, <2>1, LeastElement, Zenon
<1>3. m # 0 /\ m \in Nat
  OBVIOUS
<1>4. m - 1 \in Nat /\ m - 1 \notin U
  BY <1>2, <1>3
<1>5. QED
  BY <1>3, <1>4

\* Powers of two.  (The definition by recursion is a choice of a function that
\* satisfies its equation: there is one, the union of its finite parts.)
LEMMA Pow2Defined ==
  Pow2 = [n \in Nat |-> IF n = 0 THEN 1 ELSE 2 * Pow2[n - 1]]
<1> DEFINE Part(n, f) == f \in [0 .. n -> Nat] /\ f[0] = 1 /\ \A i \in 1 .. n : f[i] = 2 * f[i - 1]
           g == [n \in Nat |-> (CHOOSE f : Part(n, f))[n]]
<1>1. \A n \in Nat : \E f : Part(n, f)
  <2> DEFINE T == {n \in Nat : \E f : Part(n, f)}
  <2>1. 0 \in T
    <3>1. Part(0, [i \in 0 .. 0 |-> 1])
      OBVIOUS
    <3>2. QED
      BY <3>1
  <2>2. ASSUME NEW n \in Nat, n \in T PROVE n + 1 \in T
    <3>1. PICK f : Part(n, f)
      BY <2>2
    <3> DEFINE h == [i \in 0 .. n + 1 |-> IF i = n + 1 THEN 2 * f[n] ELSE f[i]]
    <3>2. \A i \in 0 .. n : f[i] \in Nat
      BY <3>1
    <3>3. h \in [0 .. n + 1 -> Nat]
      BY <3>2
    <3>4. h[0] = 1
      BY <3>1
    <3>5. ASSUME NEW i \in 1 .. n + 1 PROVE h[i] = 2 * h[i - 1]
      <4>1. CASE i = n + 1
        BY <4>1
      <4>2. CASE i \in 1 .. n
        BY <3>1, <4>2
      <4>3. QED
        BY <4>1, <4>2
    <3>6. Part(n + 1, h)
      BY <3>3, <3>4, <3>5
    <3> HIDE DEF h, Part
    <3>7. n + 1 \in Nat /\ \E f1 : Part(n + 1, f1)
      BY <3>6
    <3>8. QED
      BY <3>7
  <2>3. \A n \in Nat : n \in T
    <3> HIDE DEF T
    <3>1. QED
      BY <2>1, <2>2, SetInduction
  <2>4. QED
    BY <2>3
<1>2. ASSUME NEW m \in Nat, NEW n \in Nat, NEW f, NEW h, Part(m, f), Part(n, h)
      PROVE  \A i \in Nat : i <= m /\ i <= n => f[i] = h[i]
  <2> DEFINE T == {i \in Nat : i <= m /\ i <= n => f[i] = h[i]}
  <2>1. 0 \in T
    BY <1>2
  <2>2. ASSUME NEW i \in Nat, i \in T PROVE i + 1 \in T
    <3>1. SUFFICES ASSUME i + 1 <= m, i + 1 <= n PROVE f[i + 1] = h[i + 1]
      OBVIOUS
    <3>2. f[i] = h[i]
      BY <2>2, <3>1
    <3>3. i + 1 \in 1 .. m /\ i + 1 \in 1 .. n /\ (i + 1) - 1 = i
      BY <3>1
    <3>4. QED
      BY <1>2, <3>2, <3>3
  <2>3. \A i \in Nat : i \in T
    <3> HIDE DEF T
    <3>1. QED
      BY <2>1, <2>2, SetInduction
  <2>4. QED
    BY <2>3
<1>3. ASSUME NEW n \in Nat PROVE g[n] = IF n = 0 THEN 1 ELSE 2 * g[n - 1]
  <2> DEFINE F(k) == CHOOSE f : Part(k, f)
  <2>1. \A k \in Nat : Part(k, F(k))
    <3> HIDE DEF Part
    <3>1. QED
      BY <1>1
  <2>2. \A k \in Nat : g[k] = F(k)[k]
    OBVIOUS
  <2> HIDE DEF g, F
  <2>3. CASE n = 0
    BY <2>1, <2>2, <2>3
  <2>4. CASE n # 0
    <3>1. n - 1 \in Nat /\ n \in 1 .. n /\ n - 1 <= n - 1 /\ n - 1 <= n
      BY <2>4
    <3>2. F(n)[n] = 2 * F(n)[n - 1]
      BY <2>1, <3>1
    <3>3. F(n)[n - 1] = F(n - 1)[n - 1]
      <4> HIDE DEF Part
      <4>1. Part(n, F(n)) /\ Part(n - 1, F(n - 1))
        BY <2>1, <3>1
      <4>2. QED
        BY <1>2, <3>1, <4>1
    <3>4. QED
      BY <2>2, <2>4, <3>1, <3>2, <3>3
  <2>5. QED
    BY <2>3, <2>4
<1>4. g = [n \in Nat |-> IF n = 0 THEN 1 ELSE 2 * g[n - 1]]
  <2> DEFINE h == [n \in Nat |-> IF n = 0 THEN 1 ELSE 2 * g[n - 1]]
  <2>1. DOMAIN g = Nat /\ DOMAIN h = Nat /\ g = [n \in Nat |-> g[n]]
    OBVIOUS
  <2>2. \A n \in Nat : g[n] = h[n]
    <3>1. \A n \in Nat : h[n] = IF n = 0 THEN 1 ELSE 2 * g[n - 1]
      OBVIOUS
    <3> HIDE DEF g, h
    <3>2. QED
      BY <1>3, <3>1
  <2>3. h = [n \in Nat |-> h[n]]
    OBVIOUS
  <2> HIDE DEF g, h
  <2>4. g = h
    BY <2>1, <2>2, <2>3
  <2>5. QED
    BY <2>4 DEF h
<1> HIDE DEF g
<1>5. QED
  BY <1>4 DEF Pow2

\* The powers of two: Pow2 unfolded, which is defined recursively over Nat.
LEMMA Pow2Values ==
  /\ Pow2[0] = 1 /\ Pow2[1] = 2
  /\ \A n \in Nat : Pow2[n] \in Nat /\ Pow2[n] >= 1 /\ Pow2[n + 1] = 2 * Pow2[n]
<1>1. \A n \in Nat : Pow2[n] = IF n = 0 THEN 1 ELSE 2 * Pow2[n - 1]
  <2> DEFINE P == Pow2
  <2>1. P = [n \in Nat |-> IF n = 0 THEN 1 ELSE 2 * P[n - 1]]
    BY Pow2Defined
  <2> HIDE DEF P
  <2>2. \A n \in Nat : P[n] = IF n = 0 THEN 1 ELSE 2 * P[n - 1]
    BY <2>1
  <2>3. QED
    BY <2>2 DEF P
<1>2. Pow2[0] = 1
  BY <1>1
<1>3. \A n \in Nat : Pow2[n + 1] = 2 * Pow2[n]
  <2> SUFFICES ASSUME NEW n \in Nat PROVE Pow2[n + 1] = 2 * Pow2[n]
    OBVIOUS
  <2>1. n + 1 \in Nat /\ n + 1 # 0 /\ (n + 1) - 1 = n
    OBVIOUS
  <2>2. QED
    BY <1>1, <2>1
<1> DEFINE T == {n \in Nat : Pow2[n] \in Nat /\ Pow2[n] >= 1}
<1>4. \A n \in Nat : n \in T
  <2>1. 0 \in T
    BY <1>2
  <2>2. ASSUME NEW n \in Nat, n \in T PROVE n + 1 \in T
    BY <1>3, <2>2
  <2> HIDE DEF T
  <2>3. QED
    BY <2>1, <2>2, SetInduction
<1>5. Pow2[1] = 2
  <2>1. Pow2[0 + 1] = 2 * Pow2[0]
    BY <1>3
  <2>2. QED
    BY <1>2, <2>1
<1>6. QED
  BY <1>2, <1>3, <1>4, <1>5

\* They grow, and double at the least.
LEMMA Pow2Grows ==
  ASSUME NEW a \in Nat, NEW b \in Nat, a <= b
  PROVE  Pow2[a] <= Pow2[b] /\ (a < b => 2 * Pow2[a] <= Pow2[b])
<1> DEFINE T == {n \in Nat : \A c \in Nat :
                 c <= n => Pow2[c] <= Pow2[n] /\ (c < n => 2 * Pow2[c] <= Pow2[n])}
<1>1. 0 \in T
  BY Pow2Values
<1>2. ASSUME NEW n \in Nat, n \in T PROVE n + 1 \in T
  <2>1. SUFFICES ASSUME NEW c \in Nat, c <= n + 1
                 PROVE  Pow2[c] <= Pow2[n + 1] /\ (c < n + 1 => 2 * Pow2[c] <= Pow2[n + 1])
    BY <1>2
  <2>2. Pow2[n + 1] = 2 * Pow2[n] /\ Pow2[n] \in Nat /\ Pow2[c] \in Nat
    BY Pow2Values
  <2>3. CASE c = n + 1
    BY <2>2, <2>3
  <2>4. CASE c <= n
    <3>1. Pow2[c] <= Pow2[n]
      BY <1>2, <2>4
    <3>2. QED
      BY <2>2, <2>4, <3>1
  <2>5. QED
    BY <2>1, <2>3, <2>4
<1>3. \A n \in Nat : n \in T
  <2> HIDE DEF T
  <2>1. QED
    BY <1>1, <1>2, SetInduction
<1>4. QED
  BY <1>3

\* The product of two powers of two.
LEMMA Pow2Adds ==
  ASSUME NEW a \in Nat, NEW b \in Nat
  PROVE  Pow2[a + b] = Pow2[a] * Pow2[b]
<1> DEFINE T == {c \in Nat : Pow2[a + c] = Pow2[a] * Pow2[c]}
<1>1. 0 \in T
  <2>1. a + 0 = a /\ Pow2[0] = 1 /\ Pow2[a] \in Nat
    BY Pow2Values
  <2>2. QED
    BY <2>1
<1>2. ASSUME NEW c \in Nat, c \in T PROVE c + 1 \in T
  <2>1. a + c \in Nat /\ a + (c + 1) = (a + c) + 1
    OBVIOUS
  <2>2. /\ Pow2[(a + c) + 1] = 2 * Pow2[a + c] /\ Pow2[c + 1] = 2 * Pow2[c]
        /\ Pow2[a] \in Nat /\ Pow2[c] \in Nat
    BY <2>1, Pow2Values
  <2>3. Pow2[a + c] = Pow2[a] * Pow2[c]
    BY <1>2
  <2>4. \A x, y \in Nat : 2 * (x * y) = x * (2 * y)
    OBVIOUS
  <2>5. Pow2[a + (c + 1)] = Pow2[a] * Pow2[c + 1]
    BY <2>1, <2>2, <2>3, <2>4
  <2>6. QED
    BY <2>5
<1>3. \A c \in Nat : c \in T
  <2> HIDE DEF T
  <2>1. QED
    BY <1>1, <1>2, SetInduction
<1>4. QED
  BY <1>3

\* Row and column: the quotient and the remainder of a position.
LEMMA QuotientAndRemainder ==
  ASSUME NEW a \in Nat, NEW p \in Nat, p >= 1, NEW c \in 0 .. p - 1
  PROVE  (a * p + c) \div p = a /\ (a * p + c) % p = c
<1> DEFINE n == a * p + c
           q == n \div p
<1>1. n \in Nat /\ a * p \in Nat
  OBVIOUS
<1>2. q \in Nat /\ q * p <= n /\ n < q * p + p /\ n = q * p + (n % p)
  <2>1. \A x \in Nat : /\ x \div p \in Nat /\ (x \div p) * p <= x /\ x < (x \div p) * p + p
                       /\ x % p \in Int
    OBVIOUS
  <2>2. \A x \in Nat : x % p = x - p * (x \div p)
    OBVIOUS
  <2>3. \A x \in Nat : p * x = x * p /\ x * p \in Nat
    OBVIOUS
  <2> HIDE DEF n
  <2>4. q \in Nat /\ q * p <= n /\ n < q * p + p /\ n % p \in Int
    BY <1>1, <2>1
  <2>5. n % p = n - p * q /\ p * q = q * p /\ q * p \in Nat
    BY <1>1, <2>2, <2>3, <2>4
  <2> HIDE DEF q
  <2>6. n = q * p + (n % p)
    BY <1>1, <2>4, <2>5
  <2>7. QED
    BY <2>4, <2>6
<1>3. \A x, y \in Nat : x < y => x * p + p <= y * p
  OBVIOUS
<1>4. \A x \in Nat : x * p \in Nat
  OBVIOUS
<1> HIDE DEF q
<1>5. ~ (q < a)
  <2>1. q < a => q * p + p <= a * p
    BY <1>2, <1>3
  <2>2. QED
    BY <1>1, <1>2, <1>4, <2>1
<1>6. ~ (a < q)
  <2>1. a < q => a * p + p <= q * p
    BY <1>2, <1>3
  <2>2. QED
    BY <1>1, <1>2, <1>4, <2>1
<1>7. q = a
  BY <1>2, <1>5, <1>6
<1>8. n % p = c
  <2>1. n = a * p + (n % p) /\ n = a * p + c
    BY <1>2, <1>7
  <2>2. n % p \in Int
    BY <1>1
  <2>3. QED
    BY <1>1, <2>1, <2>2
<1>9. QED
  BY <1>7, <1>8 DEF q

\* A quotient is known by the multiples around a number.
LEMMA QuotientUnique ==
  ASSUME NEW v \in Nat, NEW q \in Nat, NEW c \in Nat, c >= 1, q * c <= v, v < q * c + c
  PROVE  v \div c = q
<1>1. q * c \in Nat
  OBVIOUS
<1>2. v - q * c \in 0 .. c - 1 /\ v = q * c + (v - q * c)
  BY <1>1
<1>3. QED
  BY <1>2, QuotientAndRemainder

LEMMA QuotientBounds ==
  ASSUME NEW v \in Nat, NEW c \in Nat, c >= 1
  PROVE  /\ v \div c \in Nat /\ (v \div c) * c <= v /\ v < (v \div c) * c + c
         /\ v % c \in 0 .. c - 1 /\ v = (v \div c) * c + (v % c)
<1>1. v \div c \in Nat /\ (v \div c) * c <= v /\ v < (v \div c) * c + c
  OBVIOUS
<1>2. v % c \in 0 .. c - 1
  OBVIOUS
<1>3. v % c = v - c * (v \div c)
  OBVIOUS
<1>4. \A x \in Nat : c * x = x * c /\ x * c \in Nat
  OBVIOUS
<1>5. QED
  BY <1>1, <1>2, <1>3, <1>4

\* The definition of a function by recursion on an interval has a solution.
LEMMA IntervalRecursion ==
  ASSUME NEW N \in Nat, NEW S, NEW base \in S, NEW F \in [(1 .. N) \X S -> S]
  PROVE  \E f \in [0 .. N -> S] :
           f[0] = base /\ \A n \in 1 .. N : f[n] = F[<<n, f[n - 1]>>]
<1> DEFINE Part(m, f) == f \in [0 .. m -> S] /\ f[0] = base
                           /\ \A n \in 1 .. m : f[n] = F[<<n, f[n - 1]>>]
           T == {m \in Nat : m <= N => \E f : Part(m, f)}
<1>1. 0 \in T
  <2>1. Part(0, [n \in 0 .. 0 |-> base])
    OBVIOUS
  <2> HIDE DEF Part
  <2>2. QED
    BY <2>1
<1>2. ASSUME NEW m \in Nat, m \in T PROVE m + 1 \in T
  <2> SUFFICES ASSUME m + 1 <= N PROVE \E f : Part(m + 1, f)
    OBVIOUS
  <2>1. PICK f : Part(m, f)
    BY <1>2
  <2> DEFINE h == [n \in 0 .. m + 1 |-> IF n = m + 1 THEN F[<<m + 1, f[m]>>] ELSE f[n]]
  <2>2. \A n \in 0 .. m : f[n] \in S
    BY <2>1
  <2>3. m \in 0 .. m /\ m + 1 \in 1 .. N
    OBVIOUS
  <2>4. F[<<m + 1, f[m]>>] \in S
    BY <2>2, <2>3
  <2>5. h \in [0 .. m + 1 -> S]
    BY <2>2, <2>4
  <2>6. h[0] = base
    BY <2>1
  <2>7. ASSUME NEW n \in 1 .. m + 1 PROVE h[n] = F[<<n, h[n - 1]>>]
    <3>1. CASE n = m + 1
      <4>1. h[n] = F[<<m + 1, f[m]>>] /\ n - 1 = m /\ h[n - 1] = f[m]
        BY <3>1
      <4> HIDE DEF h
      <4>2. QED
        BY <3>1, <4>1
    <3>2. CASE n \in 1 .. m
      BY <2>1, <3>2
    <3>3. QED
      BY <3>1, <3>2
  <2>8. Part(m + 1, h)
    BY <2>5, <2>6, <2>7
  <2> HIDE DEF Part, h
  <2>9. QED
    BY <2>8
<1>3. \A m \in Nat : m \in T
  <2> HIDE DEF T
  <2>1. QED
    BY <1>1, <1>2, SetInduction
<1>4. PICK f : Part(N, f)
  <2> HIDE DEF Part
  <2>1. QED
    BY <1>3
<1>5. QED
  BY <1>4

-----------------------------------------------------------------------------
\* Powers of two, compared and divided.

LEMMA Pow2Order ==
  ASSUME NEW a \in Nat, NEW b \in Nat
  PROVE  Pow2[a] <= Pow2[b] <=> a <= b
<1>1. Pow2[a] \in Nat /\ Pow2[a] >= 1 /\ Pow2[b] \in Nat /\ Pow2[b] >= 1
  BY Pow2Values
<1>2. a <= b => Pow2[a] <= Pow2[b]
  BY Pow2Grows
<1>3. b < a => 2 * Pow2[b] <= Pow2[a]
  BY Pow2Grows
<1>4. QED
  BY <1>1, <1>2, <1>3

LEMMA ExactQuotient ==
  ASSUME NEW q \in Nat, NEW p \in Nat, p >= 1
  PROVE  (q * p) \div p = q /\ (q * p) % p = 0
<1>1. q * p \in Nat /\ q * p + 0 = q * p /\ 0 \in 0 .. p - 1
  OBVIOUS
<1>2. (q * p + 0) \div p = q /\ (q * p + 0) % p = 0
  BY <1>1, QuotientAndRemainder
<1>3. QED
  BY <1>1, <1>2

LEMMA Pow2Quotient ==
  ASSUME NEW a \in Nat, NEW b \in Nat, b <= a
  PROVE  Pow2[a] \div Pow2[b] = Pow2[a - b] /\ Pow2[a] % Pow2[b] = 0
<1>1. a - b \in Nat /\ (a - b) + b = a
  OBVIOUS
<1>2. Pow2[a] = Pow2[a - b] * Pow2[b]
  BY <1>1, Pow2Adds
<1>3. Pow2[b] \in Nat /\ Pow2[b] >= 1 /\ Pow2[a - b] \in Nat
  BY <1>1, Pow2Values
<1>4. QED
  BY <1>2, <1>3, ExactQuotient

\* Half of a power of two.
LEMMA Pow2Half ==
  ASSUME NEW a \in Nat, a >= 1
  PROVE  /\ a - 1 \in Nat /\ Pow2[a - 1] \in Nat /\ Pow2[a - 1] >= 1
         /\ Pow2[a] = 2 * Pow2[a - 1] /\ Pow2[a] \div 2 = Pow2[a - 1]
<1>1. a - 1 \in Nat /\ (a - 1) + 1 = a
  OBVIOUS
<1>2. Pow2[a - 1] \in Nat /\ Pow2[a - 1] >= 1 /\ Pow2[(a - 1) + 1] = 2 * Pow2[a - 1]
  BY <1>1, Pow2Values
<1>3. \A x \in Nat : (2 * x) \div 2 = x
  OBVIOUS
<1>4. QED
  BY <1>1, <1>2, <1>3

-----------------------------------------------------------------------------
\* The parameters and the number of folds.

LEMMA StepFacts ==
  ASSUME Parameters
  PROVE  /\ n_layers \in Nat /\ n_layers >= 1 /\ DOMAIN params.steps = 1 .. n_layers
         /\ \A k \in 1 .. n_layers : params.steps[k] \in Nat /\ Step(k) = params.steps[k]
         /\ \A k \in Nat : Step(k) \in Nat
         /\ \A k \in 2 .. n_layers : Step(k) >= 1
         /\ \A k \in Nat : k > n_layers => Step(k) = 0
<1>1. params.steps \in StepLists
  BY DEF Parameters
<1>2. /\ params.steps \in Seq(Nat) /\ params.steps # <<>>
      /\ \A k \in 2 .. Len(params.steps) : params.steps[k] >= 1
  BY <1>1, FriLayerAssumption
<1>3. /\ n_layers \in Nat /\ n_layers >= 1 /\ DOMAIN params.steps = 1 .. n_layers
      /\ \A k \in 1 .. n_layers : params.steps[k] \in Nat
  BY <1>2 DEF n_layers
<1>4. \A k \in 1 .. n_layers : Step(k) = params.steps[k]
  BY DEF Step
<1>5. \A k \in Nat : Step(k) \in Nat
  BY <1>3 DEF Step
<1>6. \A k \in 2 .. n_layers : Step(k) >= 1
  <2> SUFFICES ASSUME NEW k \in 2 .. n_layers PROVE Step(k) >= 1
    OBVIOUS
  <2>1. k \in 1 .. n_layers /\ k \in 2 .. Len(params.steps)
    BY <1>3 DEF n_layers
  <2>2. QED
    BY <1>2, <1>4, <2>1
<1>7. \A k \in Nat : k > n_layers => Step(k) = 0
  BY <1>3 DEF Step
<1>8. QED
  BY <1>3, <1>4, <1>5, <1>6, <1>7

LEMMA NumberFacts ==
  ASSUME Parameters
  PROVE  /\ params.log_memory \in Nat /\ params.bound \in Nat /\ params.cosets \in Nat
         /\ params.cosets >= 2 /\ params.max_non_chunked \in Nat /\ params.n_chunks \in Nat
<1>1. /\ params.bound \in Bounds /\ params.cosets \in Cosets
      /\ params.log_memory \in LogMemory /\ params.max_non_chunked \in NonChunked
      /\ params.n_chunks \in ChunkCounts
  BY DEF Parameters
<1>2. QED
  BY <1>1, FriLayerAssumption

LEMMA PowerFacts ==
  ASSUME Parameters
  PROVE  \E b, c, m, n \in Nat :
           /\ params.bound = Pow2[b] /\ params.cosets = Pow2[c]
           /\ params.max_non_chunked = Pow2[m] /\ params.n_chunks = Pow2[n]
<1>1. /\ params.bound \in Bounds /\ params.cosets \in Cosets
      /\ params.max_non_chunked \in NonChunked /\ params.n_chunks \in ChunkCounts
  BY DEF Parameters
<1>2. /\ IsPow2(params.bound) /\ IsPow2(params.cosets)
      /\ IsPow2(params.max_non_chunked) /\ IsPow2(params.n_chunks)
  BY <1>1, FriLayerAssumption
<1>3. ASSUME NEW x \in Nat, IsPow2(x) PROVE \E e \in Nat : x = Pow2[e]
  BY <1>3 DEF IsPow2
<1> DEFINE Is(x) == \E e \in Nat : x = Pow2[e]
<1>4. /\ Is(params.bound) /\ Is(params.cosets)
      /\ Is(params.max_non_chunked) /\ Is(params.n_chunks)
  <2>1. \A x \in Nat : IsPow2(x) => Is(x)
    BY <1>3
  <2> HIDE DEF Is
  <2>2. QED
    BY <1>2, <2>1, NumberFacts
<1>5. QED
  BY <1>4

\* The exponents of the sizes in the configuration, and what FitConfig says of them.
LEMMA Exponents ==
  ASSUME Parameters
  PROVE  \E b, c, m, n \in Nat :
           /\ params.bound = Pow2[b] /\ params.cosets = Pow2[c] /\ c >= 1
           /\ params.max_non_chunked = Pow2[m] /\ params.n_chunks = Pow2[n]
           /\ 1 <= n /\ n <= m
           /\ n <= b + c + 1 \/ \A k \in 1 .. n_layers : Step(k) <= m + 1
<1>1. PICK b \in Nat, c \in Nat, m \in Nat, n \in Nat :
         /\ params.bound = Pow2[b] /\ params.cosets = Pow2[c]
         /\ params.max_non_chunked = Pow2[m] /\ params.n_chunks = Pow2[n]
  BY PowerFacts
<1>2. Pow2[0] = 1 /\ Pow2[1] = 2
  BY Pow2Values
<1>3. c >= 1
  <2>1. c # 0
    BY <1>1, <1>2, NumberFacts
  <2>2. QED
    BY <2>1
<1>4. 2 <= params.n_chunks /\ params.n_chunks <= params.max_non_chunked
  BY DEF Parameters, FitConfig
<1>5. 1 <= n
  <2>1. Pow2[1] <= Pow2[n]
    BY <1>1, <1>2, <1>4
  <2>2. QED
    BY <2>1, Pow2Order
<1>6. n <= m
  <2>1. Pow2[n] <= Pow2[m]
    BY <1>1, <1>4
  <2>2. QED
    BY <2>1, Pow2Order
<1>7. CASE params.n_chunks <= 2 * params.bound * params.cosets
  <2>1. b + c \in Nat /\ Pow2[b + c] = Pow2[b] * Pow2[c]
    BY Pow2Adds
  <2>2. 2 * params.bound * params.cosets = 2 * (params.bound * params.cosets)
    BY NumberFacts
  <2>3. Pow2[n] <= Pow2[(b + c) + 1]
    <3>1. Pow2[(b + c) + 1] = 2 * Pow2[b + c]
      BY <2>1, Pow2Values
    <3>2. QED
      BY <1>1, <1>7, <2>1, <2>2, <3>1
  <2>4. n <= (b + c) + 1
    BY <2>1, <2>3, Pow2Order
  <2>5. QED
    BY <1>1, <1>3, <1>5, <1>6, <2>4
<1>8. CASE \A k \in DOMAIN params.steps : Pow2[params.steps[k]] <= 2 * params.max_non_chunked
  <2>1. ASSUME NEW k \in 1 .. n_layers PROVE Step(k) <= m + 1
    <3>1. k \in DOMAIN params.steps /\ Step(k) = params.steps[k] /\ Step(k) \in Nat
      BY StepFacts
    <3>2. Pow2[m + 1] = 2 * Pow2[m] /\ m + 1 \in Nat
      BY Pow2Values
    <3>3. Pow2[Step(k)] <= Pow2[m + 1]
      BY <1>1, <1>8, <3>1, <3>2
    <3>4. QED
      BY <3>1, <3>2, <3>3, Pow2Order
  <2>2. QED
    BY <1>1, <1>3, <1>5, <1>6, <2>1
<1>9. QED
  BY <1>7, <1>8 DEF Parameters, FitConfig

\* The folds of the first turns.
LEMMA StepSums ==
  ASSUME Parameters
  PROVE  /\ n_layers \in Nat /\ n_layers >= 1 /\ StepSum[0] = 0
         /\ \A k \in 0 .. n_layers : StepSum[k] \in Nat
         /\ \A k \in 0 .. n_layers - 1 : Step(k + 1) \in Nat /\ StepSum[k + 1] = StepSum[k] + Step(k + 1)
<1> DEFINE N == n_layers
           list == params.steps
           F == [x \in (1 .. N) \X Nat |-> x[2] + list[x[1]]]
<1>1. N \in Nat /\ N >= 1 /\ \A k \in 1 .. N : list[k] \in Nat
  BY StepFacts
<1>2. F \in [(1 .. N) \X Nat -> Nat]
  BY <1>1
<1>3. \A k \in 1 .. N : \A d \in Nat : F[<<k, d>>] = d + list[k]
  OBVIOUS
<1> HIDE DEF F
<1>4. PICK f \in [0 .. N -> Nat] : f[0] = 0 /\ \A k \in 1 .. N : f[k] = F[<<k, f[k - 1]>>]
  <2> HIDE DEF N
  <2>1. 0 \in Nat /\ N \in Nat
    BY <1>1
  <2>2. QED
    <3> DEFINE Solved(S, base, G) ==
          \E f \in [0 .. N -> S] : f[0] = base /\ \A k \in 1 .. N : f[k] = G[<<k, f[k - 1]>>]
    <3>1. \A S : \A base \in S : \A G \in [(1 .. N) \X S -> S] : Solved(S, base, G)
      BY <2>1, IntervalRecursion
    <3> HIDE DEF Solved
    <3>2. Solved(Nat, 0, F)
      BY <1>2, <2>1, <3>1
    <3>3. QED
      BY <3>2 DEF Solved
<1>5. f = [k \in 0 .. N |-> IF k = 0 THEN 0 ELSE f[k - 1] + list[k]]
  <2> DEFINE h == [k \in 0 .. N |-> IF k = 0 THEN 0 ELSE f[k - 1] + list[k]]
  <2>1. \A k \in 0 .. N : f[k] = h[k]
    <3> SUFFICES ASSUME NEW k \in 0 .. N PROVE f[k] = h[k]
      OBVIOUS
    <3>1. CASE k = 0
      BY <1>4, <3>1
    <3>2. CASE k # 0
      <4>1. k \in 1 .. N /\ k - 1 \in 0 .. N
        BY <1>1, <3>2
      <4>2. f[k - 1] \in Nat
        BY <4>1
      <4>3. QED
        BY <1>3, <1>4, <3>2, <4>1, <4>2
    <3>3. QED
      BY <3>1, <3>2
  <2>2. f = [k \in 0 .. N |-> f[k]] /\ h = [k \in 0 .. N |-> h[k]]
    OBVIOUS
  <2> HIDE DEF h
  <2>3. f = h
    BY <2>1, <2>2
  <2>4. QED
    BY <2>3 DEF h
<1>6. StepSum = [k \in 0 .. N |-> IF k = 0 THEN 0 ELSE StepSum[k - 1] + list[k]]
  BY <1>5 DEF StepSum
<1> DEFINE D == StepSum
<1>7. \A k \in 0 .. N : D[k] = IF k = 0 THEN 0 ELSE D[k - 1] + list[k]
  <2>1. D = [k \in 0 .. N |-> IF k = 0 THEN 0 ELSE D[k - 1] + list[k]]
    BY <1>6
  <2> HIDE DEF D, N
  <2>2. QED
    BY <2>1
<1> HIDE DEF D
<1>8. D[0] = 0 /\ \A k \in 0 .. N - 1 : D[k + 1] = D[k] + list[k + 1]
  <2>1. D[0] = 0
    BY <1>1, <1>7
  <2>2. ASSUME NEW k \in 0 .. N - 1 PROVE D[k + 1] = D[k] + list[k + 1]
    <3>1. k + 1 \in 0 .. N /\ k + 1 # 0 /\ (k + 1) - 1 = k
      BY <1>1
    <3>2. QED
      BY <1>7, <3>1
  <2>3. QED
    BY <2>1, <2>2
<1>9. \A k \in Nat : k \in {m \in Nat : m <= N => D[m] \in Nat}
  <2> DEFINE T == {m \in Nat : m <= N => D[m] \in Nat}
  <2>1. 0 \in T
    BY <1>8
  <2>2. ASSUME NEW m \in Nat, m \in T PROVE m + 1 \in T
    <3> SUFFICES ASSUME m + 1 <= N PROVE D[m + 1] \in Nat
      OBVIOUS
    <3>1. D[m] \in Nat /\ m \in 0 .. N - 1 /\ m + 1 \in 1 .. N
      BY <1>1, <2>2
    <3>2. list[m + 1] \in Nat
      BY <1>1, <3>1
    <3>3. QED
      BY <1>8, <3>1, <3>2
  <2> HIDE DEF T
  <2>3. \A k \in Nat : k \in T
    BY <2>1, <2>2, SetInduction
  <2>4. QED
    BY <2>3 DEF T
<1>10. \A k \in 0 .. N : D[k] \in Nat
  BY <1>1, <1>9
<1>11. \A k \in 0 .. N - 1 : Step(k + 1) = list[k + 1] /\ Step(k + 1) \in Nat
  <2> SUFFICES ASSUME NEW k \in 0 .. N - 1
               PROVE  Step(k + 1) = list[k + 1] /\ Step(k + 1) \in Nat
    OBVIOUS
  <2>1. k + 1 \in 1 .. N
    BY <1>1
  <2>2. QED
    BY <1>1, <2>1, StepFacts
<1>12. QED
  BY <1>1, <1>8, <1>10, <1>11 DEF D

\* They do not decrease.
LEMMA StepSumGrows ==
  ASSUME Parameters, NEW k \in 0 .. n_layers, NEW l \in 0 .. n_layers, k <= l
  PROVE  StepSum[k] <= StepSum[l]
<1> DEFINE T == {m \in Nat : k + m <= n_layers => StepSum[k] <= StepSum[k + m]}
<1>1. n_layers \in Nat /\ k \in Nat
  BY StepSums
<1>2. 0 \in T
  <2>1. k + 0 = k /\ StepSum[k] \in Nat
    BY <1>1, StepSums
  <2>2. QED
    BY <2>1
<1>3. ASSUME NEW m \in Nat, m \in T PROVE m + 1 \in T
  <2> SUFFICES ASSUME k + (m + 1) <= n_layers PROVE StepSum[k] <= StepSum[k + (m + 1)]
    OBVIOUS
  <2>1. k + m \in 0 .. n_layers - 1 /\ k + m \in 0 .. n_layers /\ k + (m + 1) = (k + m) + 1
    BY <1>1
  <2>2. StepSum[k] <= StepSum[k + m] /\ StepSum[k] \in Nat /\ StepSum[k + m] \in Nat
    BY <1>1, <1>3, <2>1, StepSums
  <2>3. StepSum[(k + m) + 1] = StepSum[k + m] + Step((k + m) + 1) /\ Step((k + m) + 1) \in Nat
    BY <2>1, StepSums
  <2>4. QED
    BY <2>1, <2>2, <2>3
<1>4. \A m \in Nat : m \in T
  <2> HIDE DEF T
  <2>1. QED
    BY <1>2, <1>3, SetInduction
<1>5. l - k \in Nat /\ k + (l - k) = l
  BY <1>1
<1>6. QED
  BY <1>4, <1>5

\* The folds of this turn and after it.
LEMMA FoldCounts ==
  ASSUME Parameters, layer_num \in 1 .. n_layers
  PROVE  /\ FoldsAfter \in Nat /\ Step(layer_num) \in Nat
         /\ FoldsAfter + Step(layer_num) = StepSum[n_layers] - StepSum[layer_num - 1]
         /\ layer_num = n_layers => FoldsAfter = 0
         /\ layer_num > 1 => Step(layer_num) >= 1
         /\ layer_num < n_layers =>
              /\ StepSum[n_layers] - StepSum[layer_num + 1] \in Nat
              /\ Step(layer_num + 1) \in Nat
              /\ FoldsAfter = Step(layer_num + 1) + (StepSum[n_layers] - StepSum[layer_num + 1])
              /\ layer_num + 1 < n_layers => FoldsAfter > Step(layer_num + 1)
<1> DEFINE l == layer_num
           N == n_layers
           S == StepSum
<1>1. l \in Nat /\ N \in Nat /\ 1 <= l /\ l <= N
  BY StepFacts
<1>2. \A k \in 0 .. N : S[k] \in Nat
  BY StepSums
<1>3. \A k \in 0 .. N - 1 : Step(k + 1) \in Nat /\ S[k + 1] = S[k] + Step(k + 1)
  BY StepSums
<1>4. \A k, j \in 0 .. N : k <= j => S[k] <= S[j]
  BY StepSumGrows
<1>5. \A k \in 2 .. N : Step(k) >= 1
  BY StepFacts
<1> HIDE DEF l, N, S
<1>6. S[N] \in Nat /\ S[l] \in Nat /\ S[l] <= S[N]
  BY <1>1, <1>2, <1>4
<1>7. S[l] = S[l - 1] + Step(l) /\ Step(l) \in Nat /\ S[l - 1] \in Nat
  <2>1. l - 1 \in 0 .. N - 1 /\ (l - 1) + 1 = l /\ l - 1 \in 0 .. N
    BY <1>1
  <2>2. QED
    BY <1>2, <1>3, <2>1
<1>8. S[N] - S[l] \in Nat /\ (S[N] - S[l]) + Step(l) = S[N] - S[l - 1]
  BY <1>6, <1>7
<1>9. l > 1 => Step(l) >= 1
  BY <1>1, <1>5
<1>10. ASSUME l < N
       PROVE  /\ S[N] - S[l + 1] \in Nat /\ Step(l + 1) \in Nat
              /\ S[N] - S[l] = Step(l + 1) + (S[N] - S[l + 1])
              /\ l + 1 < N => S[N] - S[l] > Step(l + 1)
  <2>1. l \in 0 .. N - 1 /\ l + 1 \in 0 .. N /\ N \in 0 .. N
    BY <1>1, <1>10
  <2>2. S[l + 1] = S[l] + Step(l + 1) /\ Step(l + 1) \in Nat /\ S[l + 1] \in Nat
    BY <1>2, <1>3, <2>1
  <2>3. S[l + 1] <= S[N]
    BY <1>1, <1>4, <1>10, <2>1
  <2>4. ASSUME l + 1 < N PROVE S[N] - S[l + 1] >= 1
    <3>1. l + 1 \in 0 .. N - 1 /\ (l + 1) + 1 \in 2 .. N /\ (l + 1) + 1 \in 0 .. N
      BY <1>1, <2>4
    <3>2. S[(l + 1) + 1] = S[l + 1] + Step((l + 1) + 1) /\ Step((l + 1) + 1) \in Nat
      BY <1>3, <3>1
    <3>3. Step((l + 1) + 1) >= 1 /\ S[(l + 1) + 1] <= S[N] /\ S[(l + 1) + 1] \in Nat
      <4>1. (l + 1) + 1 <= N
        BY <3>1
      <4>2. S[(l + 1) + 1] <= S[N]
        BY <1>4, <2>1, <3>1, <4>1
      <4>3. QED
        BY <1>2, <1>5, <3>1, <4>2
    <3>4. QED
      BY <1>6, <2>2, <3>2, <3>3
  <2>5. QED
    BY <1>6, <2>2, <2>3, <2>4
<1>11. QED
  BY <1>6, <1>7, <1>8, <1>9, <1>10 DEF l, N, S, FoldsAfter

-----------------------------------------------------------------------------
\* The chain of layers.

BaseOf(chain) == CHOOSE b \in DOMAIN chain : /\ chain[b].kind # "proxy"
                                             /\ \A i \in b + 1 .. Len(chain) : chain[i].kind = "proxy"

\* The last layer that is not a proxy is one.
LEMMA BaseUnique ==
  ASSUME NEW chain, Len(chain) \in Nat, DOMAIN chain = 1 .. Len(chain),
         NEW b \in 1 .. Len(chain), chain[b].kind # "proxy",
         \A i \in b + 1 .. Len(chain) : chain[i].kind = "proxy"
  PROVE  BaseOf(chain) = b
<1> DEFINE P(x) == /\ chain[x].kind # "proxy"
                   /\ \A i \in x + 1 .. Len(chain) : chain[i].kind = "proxy"
<1>1. P(b) /\ b \in DOMAIN chain
  OBVIOUS
<1>2. ASSUME NEW x \in DOMAIN chain, P(x) PROVE x = b
  <2>1. x \in 1 .. Len(chain)
    OBVIOUS
  <2>2. ~ (x < b)
    <3>1. x < b => b \in x + 1 .. Len(chain)
      BY <2>1
    <3>2. QED
      BY <1>1, <1>2, <3>1
  <2>3. ~ (b < x)
    <3>1. b < x => x \in b + 1 .. Len(chain)
      BY <2>1
    <3>2. QED
      BY <1>1, <1>2, <3>1
  <2>4. QED
    BY <2>1, <2>2, <2>3
<1>3. BaseOf(chain) = CHOOSE x \in DOMAIN chain : P(x)
  BY DEF BaseOf
<1> HIDE DEF P
<1>4. QED
  BY <1>1, <1>2, <1>3

LEMMA LayerTypes ==
  ASSUME TypeOK
  PROVE  /\ layers \in Seq(Layers) /\ Len(layers) \in Nat /\ Len(layers) >= 1
         /\ DOMAIN layers = 1 .. Len(layers) /\ \A i \in 1 .. Len(layers) : layers[i] \in Layers
         /\ current \in Layers
<1>1. layers \in Seq(Layers) /\ Len(layers) > 0
  BY DEF TypeOK
<1>2. QED
  BY <1>1 DEF current

LEMMA LayerFields ==
  ASSUME NEW L \in Layers
  PROVE  /\ L.kind \in {"memory", "out_of_memory", "proxy"} /\ L.size \in Nat /\ L.chunk \in Nat
         /\ L.evaluation \in Spans /\ L.lde \in Spans
         /\ L.evaluation.right \in BOOLEAN /\ L.lde.right \in BOOLEAN
  BY DEF Layers, LayerKinds, Spans

LEMMA SpanFacts ==
  ASSUME NEW from \in Nat, NEW n \in Nat, NEW right \in BOOLEAN
  PROVE  /\ Span(from, n, right) \in Spans /\ Span(from, n, right).from = from
         /\ Span(from, n, right).n = n /\ Span(from, n, right).right = right
         /\ right => Span(from, n, right) # Gone
  BY DEF Span, Spans, Gone

LEMMA WithLength ==
  ASSUME NEW from, NEW n, NEW right, NEW m
  PROVE  [Span(from, n, right) EXCEPT !.n = m] = Span(from, m, right)
<1> DEFINE s == [from |-> from, n |-> n, right |-> right]
           t == [s EXCEPT !.n = m]
           u == [from |-> from, n |-> m, right |-> right]
           D == {"from", "n", "right"}
<1>1. DOMAIN s = D /\ DOMAIN u = D /\ DOMAIN t = DOMAIN s
  OBVIOUS
<1>2. t = [x \in D |-> t[x]] /\ u = [x \in D |-> u[x]]
  OBVIOUS
<1>3. \A x \in D : t[x] = u[x]
  OBVIOUS
<1> HIDE DEF s, t, u, D
<1>4. t = u
  BY <1>2, <1>3
<1>5. QED
  BY <1>4 DEF Span, s, t, u

\* What InitLdeManager does to a sound layer: the LDE is that of the whole layer.
LEMMA LdeIsSound ==
  ASSUME NEW L \in Layers, L.kind = "out_of_memory", SoundLayer(L)
  PROVE  /\ InitLdeManager(L) \in Layers /\ SoundLayer(InitLdeManager(L))
         /\ InitLdeManager(L).kind = "out_of_memory" /\ InitLdeManager(L).size = L.size
         /\ InitLdeManager(L).chunk = L.chunk /\ InitLdeManager(L).lde.right = TRUE
<1>1. L.size \in Nat /\ L.chunk \in Nat /\ Gone \in Spans
  BY LayerFields DEF Gone, Span, Spans
<1>2. L.size = L.chunk * params.cosets
  BY DEF SoundLayer
<1>3. CASE L.lde # Gone
  <2>1. InitLdeManager(L) = L
    BY <1>3 DEF InitLdeManager, Moved
  <2>2. L.lde = Span(0, L.chunk, TRUE)
    BY <1>3 DEF SoundLayer
  <2>3. L.lde.right = TRUE
    BY <2>2 DEF Span
  <2>4. QED
    BY <2>1, <2>3
<1>4. CASE L.lde = Gone
  <2>1. L.evaluation = Span(0, L.chunk, TRUE)
    <3>1. Gone # Span(0, L.chunk, TRUE)
      BY DEF Gone, Span
    <3>2. QED
      BY <1>4, <3>1 DEF SoundLayer
  <2>2. L.evaluation.right = TRUE
    BY <2>1 DEF Span
  <2> DEFINE R == [L EXCEPT !.evaluation = Gone, !.lde = Span(0, L.chunk, TRUE)]
  <2>3. L.chunk * params.cosets >= L.size
    BY <1>1, <1>2
  <2>4. InitLdeManager(L) = R
    BY <1>4, <2>2, <2>3 DEF InitLdeManager, Moved
  <2>5. Span(0, L.chunk, TRUE) \in Spans /\ Span(0, L.chunk, TRUE).right = TRUE
    BY <1>1, SpanFacts
  <2>6. /\ R \in Layers /\ R.kind = "out_of_memory" /\ R.size = L.size /\ R.chunk = L.chunk
        /\ R.evaluation = Gone /\ R.lde = Span(0, L.chunk, TRUE)
    BY <1>1, <2>5 DEF Layers
  <2> HIDE DEF R
  <2>7. SoundLayer(R)
    BY <1>2, <2>6 DEF SoundLayer
  <2>8. QED
    BY <2>4, <2>5, <2>6, <2>7
<1>5. QED
  BY <1>3, <1>4

\* The chunk a sound layer stores for a caller that asks for one of q equal parts.
LEMMA StoredIsRight ==
  ASSUME NEW L \in Layers, L.kind \in {"memory", "out_of_memory"}, SoundLayer(L),
         NEW size \in Nat, size >= 1, NEW q \in Nat, L.size = q * size,
         NEW index \in Nat, index < q,
         L.kind = "out_of_memory" => size = L.chunk
  PROVE  StoredChunk(L, size, index) = Span(index * size, size, TRUE)
<1>1. L.size \in Nat /\ L.chunk \in Nat
  BY LayerFields
<1>2. index * size \in Nat /\ (index + 1) * size = index * size + size
  OBVIOUS
<1>3. (index + 1) * size <= L.size
  <2>1. \A x, y, z \in Nat : x <= y => x * z <= y * z
    OBVIOUS
  <2>2. QED
    BY <2>1
<1>4. CASE L.kind = "memory"
  <2>1. L.evaluation = Span(0, L.size, TRUE)
    BY <1>4 DEF SoundLayer
  <2>2. L.evaluation.right = TRUE
    BY <2>1 DEF Span
  <2>3. CASE size < L.size
    <3>1. StoredChunk(L, size, index) = SubSpan(L, size, index)
      BY <1>4, <2>3 DEF StoredChunk
    <3>2. QED
      BY <1>3, <2>2, <3>1 DEF SubSpan
  <2>4. CASE ~ (size < L.size)
    <3>1. StoredChunk(L, size, index) = Span(0, L.size, TRUE)
      BY <1>4, <2>1, <2>4 DEF StoredChunk
    <3>2. index * size = 0 /\ L.size = size
      BY <1>1, <1>2, <1>3, <2>4
    <3>3. QED
      BY <3>1, <3>2
  <2>5. QED
    BY <2>3, <2>4
<1>5. CASE L.kind = "out_of_memory"
  <2>1. size = L.chunk /\ L.size \div L.chunk = q
    BY <1>5, ExactQuotient
  <2>2. OutOfMemoryAccepts(L, size, index)
    BY <2>1 DEF OutOfMemoryAccepts
  <2>3. L.kind # "memory"
    BY <1>5
  <2>4. CASE ServesEvaluation(L, index)
    <3>1. index = 0 /\ L.lde = Gone
      BY <2>4 DEF ServesEvaluation, Moved
    <3>2. L.evaluation = Span(0, L.chunk, TRUE)
      <4>1. Gone # Span(0, L.chunk, TRUE)
        BY DEF Gone, Span
      <4>2. QED
        BY <1>5, <3>1, <4>1 DEF SoundLayer
    <3>3. StoredChunk(L, size, index) = L.evaluation
      BY <1>5, <2>2, <2>4 DEF StoredChunk
    <3>4. index * size = 0
      BY <3>1
    <3>5. QED
      BY <2>1, <3>2, <3>3, <3>4
  <2>5. CASE ~ServesEvaluation(L, index)
    <3>1. StoredChunk(L, size, index) = [LdeOnCoset(L, index, {index}) EXCEPT !.n = size]
      BY <1>5, <2>2, <2>5 DEF StoredChunk
    <3>2. InitLdeManager(L).lde.right = TRUE
      BY <1>5, LdeIsSound
    <3>3. LdeOnCoset(L, index, {index}) = Span(index * L.chunk, L.chunk, TRUE)
      BY <3>2 DEF LdeOnCoset
    <3> DEFINE start == index * L.chunk
    <3>4. [Span(start, L.chunk, TRUE) EXCEPT !.n = L.chunk] = Span(start, L.chunk, TRUE)
      <4> HIDE DEF start
      <4>1. QED
        BY WithLength
    <3>5. QED
      BY <2>1, <3>1, <3>3, <3>4
  <2>6. QED
    BY <2>4, <2>5
<1>6. QED
  BY <1>4, <1>5

\* The first coset of a layer, as a caller without storage is given it.
LEMMA CopiedIsRight ==
  ASSUME NEW L \in Layers, L.kind = "out_of_memory", SoundLayer(L), L.chunk >= 1,
         NEW q \in Nat, L.size = q * L.chunk, NEW index \in Nat, index < q, NEW twiddles,
         ServesEvaluation(L, index) \/ twiddles = {index}
  PROVE  CopiedChunk(L, L.chunk, index, twiddles) = Span(index * L.chunk, L.chunk, TRUE)
<1>1. L.size \in Nat /\ L.chunk \in Nat
  BY LayerFields
<1>2. L.size \div L.chunk = q
  BY <1>1, ExactQuotient
<1>3. OutOfMemoryAccepts(L, L.chunk, index)
  BY <1>1, <1>2 DEF OutOfMemoryAccepts
<1>4. CASE ServesEvaluation(L, index)
  <2>1. index = 0 /\ L.lde = Gone
    BY <1>4 DEF ServesEvaluation, Moved
  <2>2. L.evaluation = Span(0, L.chunk, TRUE)
    <3>1. Gone # Span(0, L.chunk, TRUE)
      BY DEF Gone, Span
    <3>2. QED
      BY <2>1, <3>1 DEF SoundLayer
  <2>3. CopiedChunk(L, L.chunk, index, twiddles) = [L.evaluation EXCEPT !.n = L.chunk]
    BY <1>3, <1>4 DEF CopiedChunk
  <2>4. index * L.chunk = 0
    BY <1>1, <2>1
  <2>5. [Span(0, L.chunk, TRUE) EXCEPT !.n = L.chunk] = Span(0, L.chunk, TRUE)
    BY WithLength
  <2>6. QED
    BY <2>2, <2>3, <2>4, <2>5
<1>5. CASE ~ServesEvaluation(L, index)
  <2>1. twiddles = {index} /\ twiddles # {}
    BY <1>5
  <2>2. CopiedChunk(L, L.chunk, index, twiddles) = LdeOnCoset(L, index, twiddles)
    BY <1>3, <1>5, <2>1 DEF CopiedChunk
  <2>3. InitLdeManager(L).lde.right = TRUE
    BY LdeIsSound
  <2>4. QED
    BY <2>1, <2>2, <2>3 DEF LdeOnCoset
<1>6. QED
  BY <1>4, <1>5

-----------------------------------------------------------------------------
\* Layers that keep their shapes.

\* A chain with the kinds, sizes and chunks of the layers, sound ones.
SameShape(chain) ==
  /\ chain \in Seq(Layers) /\ Len(chain) = Len(layers)
  /\ \A i \in 1 .. Len(layers) :
       /\ chain[i].kind = layers[i].kind /\ chain[i].size = layers[i].size
       /\ chain[i].chunk = layers[i].chunk /\ SoundLayer(chain[i])

LEMMA BaseFacts ==
  ASSUME TypeOK, Doubling
  PROVE  /\ Base \in 1 .. Len(layers) /\ Base \in Nat /\ layers[Base] \in Layers
         /\ layers[Base].kind \in {"memory", "out_of_memory"}
         /\ \A i \in Base + 1 .. Len(layers) : layers[i].kind = "proxy"
         /\ current.kind = "proxy" <=> Base < Len(layers)
         /\ current.kind # "proxy" => Base = Len(layers) /\ layers[Base] = current
<1> DEFINE B == Base
<1>1. /\ DOMAIN layers = 1 .. Len(layers) /\ Len(layers) \in Nat /\ Len(layers) >= 1
      /\ \A i \in 1 .. Len(layers) : layers[i] \in Layers
  BY LayerTypes
<1>2. /\ B \in DOMAIN layers /\ layers[B].kind # "proxy"
      /\ \A i \in B + 1 .. Len(layers) : layers[i].kind = "proxy"
  BY DEF Doubling, Proxies
<1> HIDE DEF B
<1>3. B \in 1 .. Len(layers) /\ B \in Nat /\ B <= Len(layers) /\ layers[B] \in Layers
  BY <1>1, <1>2
<1>4. layers[B].kind \in {"memory", "out_of_memory"}
  BY <1>2, <1>3, LayerFields
<1>5. B < Len(layers) => current.kind = "proxy"
  <2>1. B < Len(layers) => Len(layers) \in B + 1 .. Len(layers)
    BY <1>1, <1>3
  <2>2. QED
    BY <1>2, <2>1 DEF current
<1>6. ~ (B < Len(layers)) => B = Len(layers) /\ layers[B] = current
  <2>1. ~ (B < Len(layers)) => B = Len(layers)
    <3>1. Len(layers) \in Nat /\ B \in Nat /\ B <= Len(layers)
      BY <1>1, <1>3
    <3>2. QED
      BY <3>1
  <2>2. current = layers[Len(layers)]
    BY DEF current
  <2>3. QED
    BY <2>1, <2>2
<1>7. QED
  BY <1>2, <1>3, <1>4, <1>5, <1>6 DEF B

LEMMA OneLdeMore ==
  ASSUME TypeOK, SoundLayers, NEW k \in 1 .. Len(layers), layers[k].kind = "out_of_memory"
  PROVE  SameShape([layers EXCEPT ![k] = InitLdeManager(@)])
<1> DEFINE A == [layers EXCEPT ![k] = InitLdeManager(@)]
           L == InitLdeManager(layers[k])
<1>1. /\ layers \in Seq(Layers) /\ DOMAIN layers = 1 .. Len(layers) /\ Len(layers) \in Nat
      /\ \A i \in 1 .. Len(layers) : layers[i] \in Layers
  BY LayerTypes
<1>2. \A i \in 1 .. Len(layers) : SoundLayer(layers[i])
  BY <1>1 DEF SoundLayers
<1>3. /\ L \in Layers /\ SoundLayer(L) /\ L.kind = layers[k].kind /\ L.size = layers[k].size
      /\ L.chunk = layers[k].chunk
  BY <1>1, <1>2, LdeIsSound
<1> HIDE DEF L
<1>4. A = [layers EXCEPT ![k] = L]
  BY DEF L
<1>5. A \in Seq(Layers) /\ Len(A) = Len(layers)
  BY <1>1, <1>3, <1>4
<1>6. \A i \in 1 .. Len(layers) : A[i] = IF i = k THEN L ELSE layers[i]
  BY <1>1, <1>4
<1> HIDE DEF A
<1>7. SameShape(A)
  BY <1>2, <1>3, <1>5, <1>6 DEF SameShape
<1>8. QED
  BY <1>7 DEF A

LEMMA AfterChunkShape ==
  ASSUME TypeOK, SoundLayers, Doubling, NEW index
  PROVE  SameShape(AfterChunk(index))
<1>1. CASE layers[Base].kind = "out_of_memory" /\ ~ServesEvaluation(layers[Base], index)
  <2>1. Base \in 1 .. Len(layers)
    BY BaseFacts
  <2> DEFINE B == Base
  <2>2. AfterChunk(index) = [layers EXCEPT ![B] = InitLdeManager(@)]
    BY <1>1 DEF AfterChunk
  <2>3. B \in 1 .. Len(layers) /\ layers[B].kind = "out_of_memory"
    BY <1>1, <2>1
  <2> HIDE DEF B
  <2>4. QED
    BY <2>2, <2>3, OneLdeMore
<1>2. CASE ~ (layers[Base].kind = "out_of_memory" /\ ~ServesEvaluation(layers[Base], index))
  <2>1. AfterChunk(index) = layers
    BY <1>2 DEF AfterChunk
  <2>2. SameShape(layers)
    BY LayerTypes DEF SameShape, SoundLayers
  <2>3. QED
    BY <2>1, <2>2
<1>3. QED
  BY <1>1, <1>2

-----------------------------------------------------------------------------
\* Chunks of current_layer.

LEMMA ToFoldNat ==
  ASSUME TypeOK, Parameters, Kinds
  PROVE  ToFold \in Nat /\ FoldsAfter \in Nat /\ FoldsLeft \in Nat /\ FoldsLeft = FoldsAfter + ToFold
<1>1. layer_num \in 1 .. n_layers /\ fold \in Nat
  BY DEF TypeOK
<1>2. Step(layer_num) \in Nat /\ FoldsAfter \in Nat
  BY <1>1, FoldCounts
<1>3. pc = "fold" => fold <= Step(layer_num)
  BY DEF Kinds
<1>4. pc = "fold" => Step(layer_num) - fold \in Nat
  BY <1>1, <1>2, <1>3
<1>5. ToFold \in Nat
  <2>1. CASE pc = "layer"
    BY <1>2, <2>1 DEF ToFold
  <2>2. CASE pc = "fold"
    BY <1>4, <2>2 DEF ToFold
  <2>3. CASE pc # "layer" /\ pc # "fold"
    BY <2>3 DEF ToFold
  <2>4. QED
    BY <2>1, <2>2, <2>3
<1>6. QED
  BY <1>2, <1>5 DEF FoldsLeft

\* They divide it.
LEMMA ChunkCount ==
  ASSUME TypeOK, Parameters, Kinds, Sizes
  PROVE  /\ current.chunk \in Nat /\ current.chunk >= 1 /\ current.size \in Nat
         /\ \E q \in Nat : /\ q >= 1 /\ current.size = q * current.chunk
                           /\ current.size \div current.chunk = q
<1>1. PICK h \in Nat, g \in Nat : /\ current.chunk = Pow2[h + ToFold]
                                  /\ current.size = Pow2[h + ToFold + g]
  BY DEF Sizes
<1>2. ToFold \in Nat
  BY ToFoldNat
<1> DEFINE e == h + ToFold
<1>3. e \in Nat /\ h + ToFold + g = g + e
  BY <1>2
<1> HIDE DEF e
<1>4. current.chunk = Pow2[e] /\ current.size = Pow2[g + e]
  BY <1>1, <1>3 DEF e
<1>5. Pow2[g + e] = Pow2[g] * Pow2[e] /\ Pow2[g] \in Nat /\ Pow2[g] >= 1
      /\ Pow2[e] \in Nat /\ Pow2[e] >= 1
  BY <1>3, Pow2Adds, Pow2Values
<1>6. (Pow2[g] * Pow2[e]) \div Pow2[e] = Pow2[g]
  BY <1>5, ExactQuotient
<1>7. Pow2[g + e] \in Nat
  BY <1>3, Pow2Values
<1>8. QED
  BY <1>4, <1>5, <1>6, <1>7

\* A proxy folds the right elements of the layers below it.
LEMMA FoldedIsRight ==
  ASSUME TypeOK, Parameters, SoundLayers, Doubling, current.kind = "proxy",
         NEW size \in Nat, size >= 1, size = current.chunk,
         NEW q \in Nat, current.size = q * size, NEW index \in Nat, index < q
  PROVE  FoldedChunk(size, index) = Span(index * size, size, TRUE)
<1> DEFINE top == Len(layers)
           B == Base
           below == size * Pow2[top - B]
           chunk == StoredChunk(layers[B], below, index)
<1>1. /\ B \in 1 .. top /\ top \in Nat /\ B \in Nat /\ layers[B] \in Layers
      /\ layers[B].kind \in {"memory", "out_of_memory"}
  BY BaseFacts, LayerTypes
<1>2. /\ \A i \in B + 1 .. top : /\ layers[i].size = current.size * Pow2[top - i]
                                 /\ layers[i].chunk = current.chunk * Pow2[top - i]
      /\ layers[B].size = current.size * Pow2[top - B]
      /\ layers[B].kind = "out_of_memory" => layers[B].chunk = current.chunk * Pow2[top - B]
  BY DEF Doubling, Proxies
<1>3. SoundLayer(layers[B])
  BY <1>1, LayerTypes DEF SoundLayers
<1>4. ASSUME NEW P \in Nat, P >= 1
      PROVE  /\ size * P \in Nat /\ size * P >= 1 /\ current.size * P = q * (size * P)
             /\ (current.size * P) \div (size * P) = q
  <2>1. size * P \in Nat /\ size * P >= 1
    <3>1. \A x, y \in Nat : x >= 1 /\ y >= 1 => x * y \in Nat /\ x * y >= 1
      OBVIOUS
    <3>2. QED
      BY <1>4, <3>1
  <2>2. \A x, y, z \in Nat : (x * y) * z = x * (y * z)
    OBVIOUS
  <2>3. current.size * P = q * (size * P)
    BY <2>2
  <2>4. (q * (size * P)) \div (size * P) = q
    <3> DEFINE p == size * P
    <3>1. p \in Nat /\ p >= 1
      BY <2>1
    <3> HIDE DEF p
    <3>2. (q * p) \div p = q
      BY <3>1, ExactQuotient
    <3>3. QED
      BY <3>2 DEF p
  <2>5. QED
    BY <2>1, <2>3, <2>4
<1>5. \A i \in 0 .. top : Pow2[top - i] \in Nat /\ Pow2[top - i] >= 1
  <2> SUFFICES ASSUME NEW i \in 0 .. top PROVE Pow2[top - i] \in Nat /\ Pow2[top - i] >= 1
    OBVIOUS
  <2>1. top - i \in Nat
    BY <1>1
  <2>2. QED
    BY <2>1, Pow2Values
<1>6. below \in Nat /\ below >= 1 /\ layers[B].size = q * below
  <2>1. Pow2[top - B] \in Nat /\ Pow2[top - B] >= 1
    BY <1>1, <1>5
  <2>2. QED
    BY <1>2, <1>4, <2>1
<1>7. layers[B].kind = "out_of_memory" => below = layers[B].chunk
  BY <1>2
<1>8. chunk = Span(index * below, below, TRUE)
  <2> DEFINE L == layers[B]
  <2>1. /\ L \in Layers /\ L.kind \in {"memory", "out_of_memory"} /\ SoundLayer(L)
        /\ L.size = q * below /\ (L.kind = "out_of_memory" => below = L.chunk)
    BY <1>1, <1>3, <1>6, <1>7
  <2> HIDE DEF L, below
  <2>2. StoredChunk(L, below, index) = Span(index * below, below, TRUE)
    BY <1>6, <2>1, StoredIsRight
  <2>3. QED
    BY <2>2 DEF L
<1>9. \A i \in B + 1 .. top : /\ layers[i].chunk = size * Pow2[top - i]
                              /\ index < layers[i].size \div layers[i].chunk
  <2> SUFFICES ASSUME NEW i \in B + 1 .. top
               PROVE  /\ layers[i].chunk = size * Pow2[top - i]
                      /\ index < layers[i].size \div layers[i].chunk
    OBVIOUS
  <2>1. i \in 0 .. top
    BY <1>1
  <2>2. layers[i].chunk = size * Pow2[top - i] /\ layers[i].size = current.size * Pow2[top - i]
    BY <1>2
  <2>3. (current.size * Pow2[top - i]) \div (size * Pow2[top - i]) = q
    BY <1>4, <1>5, <2>1
  <2>4. QED
    BY <2>2, <2>3
<1>10. chunk.n = below /\ chunk.from = index * below /\ chunk.right = TRUE
  BY <1>8 DEF Span
<1> HIDE DEF below
<1>11. /\ StoredChunk(layers[Base], size * Pow2[Len(layers) - Base], index) = chunk
       /\ size * Pow2[Len(layers) - Base] = below
  BY DEF below
<1>12. \A i \in Proxies : /\ layers[i].chunk = size * Pow2[Len(layers) - i]
                          /\ index < layers[i].size \div layers[i].chunk
  BY <1>9 DEF Proxies
<1> HIDE DEF chunk, B, top
<1>13. QED
  BY <1>10, <1>11, <1>12 DEF FoldedChunk

-----------------------------------------------------------------------------
\* One fold.

\* The chunk of a new proxy: what CalculateChunkSize divides is divisible, whether it
\* halves the chunk below or cuts a whole layer into pieces.
LEMMA NextChunk ==
  ASSUME TypeOK, Parameters, Kinds, Sizes, SoundLayers,
         pc = "fold", fold < Step(layer_num), NEW chunk, chunk = CalculateChunkSize(current)
  PROVE  /\ chunk \in Nat /\ chunk >= 1 /\ 2 * chunk <= current.size
         /\ current.size \div 2 \in Nat /\ current.size = 2 * (current.size \div 2)
         /\ \E h, g \in Nat : /\ chunk = Pow2[h + (ToFold - 1)]
                              /\ current.size \div 2 = Pow2[h + (ToFold - 1) + g]
         /\ current.kind # "memory" => current.chunk = 2 * chunk
         /\ chunk = current.size \div 2 =>
              current.size \div 2 <= params.max_non_chunked \/ params.n_chunks = 2
<1> DEFINE T == ToFold
           size == current.size
           old == current.chunk
           cap == params.max_non_chunked
           parts == params.n_chunks
<1>1. T \in Nat /\ T >= 1 /\ FoldsLeft >= T /\ FoldsLeft \in Nat /\ T <= Step(layer_num)
  <2>1. ToFold = Step(layer_num) - fold /\ fold \in Nat /\ layer_num \in 1 .. n_layers
    BY DEF ToFold, TypeOK
  <2>2. Step(layer_num) \in Nat
    BY <2>1, FoldCounts
  <2>3. QED
    BY <2>1, <2>2, ToFoldNat
<1>2. PICK h \in Nat, g \in Nat : old = Pow2[h + T] /\ size = Pow2[h + T + g]
  BY DEF Sizes
<1>3. PICK b \in Nat, c \in Nat, m \in Nat, n \in Nat :
        /\ params.bound = Pow2[b] /\ params.cosets = Pow2[c] /\ c >= 1
        /\ cap = Pow2[m] /\ parts = Pow2[n] /\ 1 <= n /\ n <= m
        /\ n <= b + c + 1 \/ \A k \in 1 .. n_layers : Step(k) <= m + 1
  BY Exponents
<1>4. size = (params.bound * params.cosets) * Pow2[FoldsLeft]
  BY DEF Sizes
<1>5. current.kind = "proxy" /\ old = size => size <= cap \/ parts = 2
  BY DEF Sizes
<1>6. current.kind = "out_of_memory" => size = old * params.cosets
  <2>1. SoundLayer(current)
    BY LayerTypes DEF SoundLayers, current
  <2>2. QED
    BY <2>1 DEF SoundLayer
<1>7. size = Pow2[b + c + FoldsLeft]
  <2>1. Pow2[b + c] = Pow2[b] * Pow2[c] /\ b + c \in Nat
    BY Pow2Adds
  <2>2. Pow2[(b + c) + FoldsLeft] = Pow2[b + c] * Pow2[FoldsLeft]
    BY <1>1, <2>1, Pow2Adds
  <2>3. QED
    BY <1>3, <1>4, <2>1, <2>2
<1>8. layer_num \in 1 .. n_layers
  BY DEF TypeOK
<1> DEFINE part == size \div parts
           e == h + T + g
<1>9. chunk = IF old < size \/ size <= cap THEN old \div 2
              ELSE IF size % parts # 0 THEN 0
              ELSE IF part > cap THEN part ELSE cap
  BY DEF CalculateChunkSize
<1>10. current.kind = "out_of_memory" => old < size
  <2>1. old \in Nat /\ old >= 1 /\ params.cosets \in Nat /\ params.cosets >= 2
    BY ChunkCount, NumberFacts
  <2>2. \A x, y \in Nat : x >= 1 /\ y >= 2 => x < x * y
    OBVIOUS
  <2>3. QED
    BY <1>6, <2>1, <2>2
<1>11. current.kind \in {"memory", "out_of_memory", "proxy"}
  BY LayerTypes, LayerFields
<1> HIDE DEF T, size, old, cap, parts, part, e
<1>12. e \in Nat /\ e >= 1 /\ size = Pow2[e] /\ h + T <= e
  BY <1>1, <1>2 DEF e
<1>13. e = b + c + FoldsLeft
  <2>1. b + c + FoldsLeft \in Nat
    BY <1>1
  <2>2. Pow2[e] <= Pow2[b + c + FoldsLeft] /\ Pow2[b + c + FoldsLeft] <= Pow2[e]
    <3>1. Pow2[e] \in Nat
      BY <1>12, Pow2Values
    <3>2. QED
      BY <1>7, <1>12, <3>1
  <2>3. QED
    BY <1>12, <2>1, <2>2, Pow2Order
<1>14. /\ size \div 2 = Pow2[e - 1] /\ size = 2 * Pow2[e - 1]
       /\ Pow2[e - 1] \in Nat /\ Pow2[e - 1] >= 1
  BY <1>12, Pow2Half
<1>15. CASE old < size \/ size <= cap
  <2>1. chunk = old \div 2
    BY <1>9, <1>15
  <2> DEFINE d == h + T
  <2>2. d \in Nat /\ d >= 1 /\ d - 1 = h + (T - 1) /\ h + (T - 1) + g = e - 1
    BY <1>1 DEF e
  <2>3. old = Pow2[d]
    BY <1>2
  <2> HIDE DEF d
  <2>4. chunk = Pow2[d - 1] /\ old = 2 * chunk /\ chunk \in Nat /\ chunk >= 1
    BY <2>1, <2>2, <2>3, Pow2Half
  <2>5. old <= size
    <3>1. Pow2[h + T] <= Pow2[e] /\ h + T \in Nat
      BY <1>1, <1>12, Pow2Order
    <3>2. QED
      BY <1>2, <1>12, <3>1
  <2>6. 2 * chunk <= size
    BY <2>4, <2>5
  <2>7. ASSUME chunk = size \div 2 PROVE size \div 2 <= cap \/ parts = 2
    <3>1. old = size
      BY <1>14, <2>4, <2>7
    <3>2. size <= cap
      BY <1>14, <1>15, <3>1
    <3>3. cap \in Nat
      BY NumberFacts DEF cap
    <3>4. QED
      BY <1>14, <3>2, <3>3
  <2>8. chunk = Pow2[h + (T - 1)] /\ size \div 2 = Pow2[h + (T - 1) + g]
    BY <1>14, <2>2, <2>4
  <2>9. QED
    BY <1>2, <1>14, <2>4, <2>6, <2>7, <2>8 DEF T, size, old, cap, parts
<1>16. CASE ~ (old < size \/ size <= cap)
  <2>1. m < e
    <3>1. ~ (Pow2[e] <= Pow2[m])
      BY <1>3, <1>12, <1>16
    <3>2. QED
      BY <1>12, <3>1, Pow2Order
  <2>2. n <= e /\ part = Pow2[e - n] /\ size % parts = 0 /\ e - n \in Nat
    <3>1. n <= e /\ e - n \in Nat
      BY <1>3, <1>12, <2>1
    <3>2. Pow2[e] \div Pow2[n] = Pow2[e - n] /\ Pow2[e] % Pow2[n] = 0
      BY <1>12, <3>1, Pow2Quotient
    <3>3. QED
      BY <1>3, <1>12, <3>1, <3>2 DEF part
  <2>3. chunk = IF part > cap THEN part ELSE cap
    BY <1>9, <1>16, <2>2
  <2> DEFINE d == IF e - n > m THEN e - n ELSE m
  <2>4. d \in Nat /\ d <= e - 1 /\ d >= T - 1
    <3>1. d \in Nat /\ d <= e - 1
      BY <1>3, <1>12, <2>1, <2>2
    <3>2. n <= b + c + 1 => e - n >= T - 1
      BY <1>1, <1>3, <1>13
    <3>3. (\A k \in 1 .. n_layers : Step(k) <= m + 1) => m >= T - 1
      BY <1>1, <1>8, ToFoldNat, FoldCounts
    <3>4. d >= e - n /\ d >= m
      BY <2>2
    <3>5. QED
      BY <1>1, <1>3, <2>2, <3>1, <3>2, <3>3, <3>4
  <2>5. chunk = Pow2[d]
    <3>1. Pow2[e - n] \in Nat /\ Pow2[m] \in Nat
      BY <2>2, Pow2Values
    <3>2. Pow2[e - n] <= Pow2[m] <=> e - n <= m
      BY <2>2, Pow2Order
    <3>3. QED
      BY <1>3, <2>2, <2>3, <3>1, <3>2
  <2>6. e - n <= d /\ m <= d /\ (d = e - n \/ d = m)
    BY <2>2
  <2> HIDE DEF d
  <2>7. chunk \in Nat /\ chunk >= 1 /\ chunk <= Pow2[e - 1]
    <3>1. e - 1 \in Nat
      BY <1>12
    <3>2. Pow2[d] <= Pow2[e - 1]
      BY <2>4, <3>1, Pow2Order
    <3>3. QED
      BY <2>4, <2>5, <3>2, Pow2Values
  <2>8. 2 * chunk <= size
    BY <1>14, <2>7
  <2> DEFINE x == d - (T - 1)
             y == e - 1 - d
  <2>9. /\ x \in Nat /\ y \in Nat /\ x + (T - 1) = d /\ x + (T - 1) + y = e - 1
    BY <1>1, <1>12, <2>4
  <2>10. chunk = Pow2[x + (T - 1)] /\ size \div 2 = Pow2[x + (T - 1) + y]
    BY <1>14, <2>5, <2>9
  <2> HIDE DEF x, y
  <2>11. ASSUME chunk = size \div 2 PROVE size \div 2 <= cap \/ parts = 2
    <3>1. e - 1 <= d /\ e - 1 \in Nat
      <4>1. e - 1 \in Nat
        BY <1>12
      <4>2. Pow2[e - 1] <= Pow2[d]
        BY <1>14, <2>5, <2>7, <2>11
      <4>3. QED
        BY <2>4, <4>1, <4>2, Pow2Order
    <3>2. CASE d = m
      BY <1>3, <1>14, <2>5, <2>7, <2>11, <3>2
    <3>3. CASE d = e - n
      <4>1. n = 1
        BY <1>3, <1>12, <3>1, <3>3
      <4>2. QED
        BY <1>3, <4>1, Pow2Values
    <3>4. QED
      BY <2>6, <3>2, <3>3
  <2>12. ASSUME current.kind # "memory" PROVE old = 2 * chunk
    <3>1. current.kind = "proxy"
      BY <1>10, <1>11, <1>16, <2>12
    <3>2. old = size
      <4>1. Pow2[h + T] <= Pow2[e] /\ h + T \in Nat
        BY <1>1, <1>12, Pow2Order
      <4>2. Pow2[h + T] \in Nat /\ Pow2[e] \in Nat
        BY <1>12, <4>1, Pow2Values
      <4>3. QED
        BY <1>2, <1>12, <1>16, <4>1, <4>2
    <3>3. parts = 2
      BY <1>5, <1>16, <3>1, <3>2
    <3>4. n = 1
      <4>1. Pow2[n] <= Pow2[1]
        BY <1>3, <3>3, Pow2Values
      <4>2. QED
        BY <1>3, <4>1, Pow2Order
    <3>5. d = e - 1
      BY <1>3, <1>12, <2>4, <2>6, <3>4
    <3>6. QED
      BY <1>14, <2>5, <3>2, <3>5
  <2>13. QED
    BY <1>14, <2>7, <2>8, <2>9, <2>10, <2>11, <2>12 DEF T, size, old, cap, parts
<1>17. QED
  BY <1>15, <1>16

-----------------------------------------------------------------------------
\* The first layer.

\* Of a size and a chunk that the configuration determines, both are powers of two
\* with room for the folds to come.
LEMMA SizePowers ==
  ASSUME Parameters, NEW f \in Nat, NEW t \in Nat, t <= f
  PROVE  /\ \E h, g \in Nat : /\ params.bound * Pow2[f] = Pow2[h + t]
                              /\ params.bound * params.cosets * Pow2[f] = Pow2[h + t + g]
         /\ \E h \in Nat : params.bound * params.cosets * Pow2[f] = Pow2[h + t]
         /\ params.bound * Pow2[f] \in Nat /\ params.bound * Pow2[f] >= 1
         /\ params.bound * params.cosets * Pow2[f] = (params.bound * Pow2[f]) * params.cosets
<1>1. PICK b \in Nat, c \in Nat, m \in Nat, n \in Nat :
         /\ params.bound = Pow2[b] /\ params.cosets = Pow2[c]
         /\ params.max_non_chunked = Pow2[m] /\ params.n_chunks = Pow2[n]
  BY PowerFacts
<1>2. /\ Pow2[b] \in Nat /\ Pow2[c] \in Nat /\ Pow2[f] \in Nat
      /\ b + f \in Nat /\ (b + f) + c \in Nat
  BY Pow2Values
<1>3. Pow2[b + f] = Pow2[b] * Pow2[f] /\ Pow2[(b + f) + c] = Pow2[b + f] * Pow2[c]
  BY <1>2, Pow2Adds
<1>4. \A x, y, z \in Nat : x * y * z = (x * z) * y
  OBVIOUS
<1>5. params.bound * params.cosets * Pow2[f] = (params.bound * Pow2[f]) * params.cosets
  BY <1>1, <1>2, <1>4
<1>6. params.bound * Pow2[f] = Pow2[b + f]
      /\ params.bound * params.cosets * Pow2[f] = Pow2[(b + f) + c]
  BY <1>1, <1>3, <1>5
<1> DEFINE h == b + f - t
           k == h + c
<1>7. h \in Nat /\ h + t = b + f /\ h + t + c = (b + f) + c /\ k \in Nat /\ k + t = (b + f) + c
  OBVIOUS
<1> HIDE DEF h, k
<1>8. params.bound * Pow2[f] = Pow2[h + t]
      /\ params.bound * params.cosets * Pow2[f] = Pow2[h + t + c]
  BY <1>6, <1>7
<1>9. params.bound * params.cosets * Pow2[f] = Pow2[k + t]
  BY <1>6, <1>7
<1>10. Pow2[b + f] \in Nat /\ Pow2[b + f] >= 1
  BY <1>2, Pow2Values
<1>11. QED
  BY <1>5, <1>6, <1>7, <1>8, <1>9, <1>10

LEMMA InitStep == Init => IInv
<1> SUFFICES ASSUME Init PROVE IInv
  OBVIOUS
<1> DEFINE W == params.bound * Pow2[StepSum[n_layers]]
           L == [kind |-> "out_of_memory", size |-> W * params.cosets, chunk |-> W,
                 evaluation |-> Span(0, W, TRUE), lde |-> Gone]
<1>1. Parameters
  BY DEF Init, Parameters
<1>2. /\ layers = <<L>> /\ layer_num = 1 /\ pc = "layer" /\ fold = 0 /\ coset_size = W
      /\ is_in_memory = FALSE /\ first_in_memory = TRUE
      /\ chunk_index = 0 /\ precompute = {} /\ gathered = Gone /\ tables = <<>>
  BY DEF Init, WitnessSize
<1>3. n_layers \in Nat /\ n_layers >= 1 /\ 1 \in 1 .. n_layers /\ Step(1) \in Nat
  BY <1>1, StepFacts
<1>4. StepSum[0] = 0 /\ StepSum[n_layers] \in Nat
  BY <1>1, <1>3, StepSums
<1>5. FoldsAfter \in Nat /\ FoldsAfter + Step(1) = StepSum[n_layers]
  <2>1. layer_num - 1 = 0 /\ layer_num \in 1 .. n_layers
    BY <1>2, <1>3
  <2>2. FoldsAfter \in Nat /\ FoldsAfter + Step(layer_num) = StepSum[n_layers] - StepSum[layer_num - 1]
    BY <1>1, <2>1, FoldCounts
  <2>3. QED
    BY <1>2, <1>4, <2>1, <2>2
<1>6. ToFold = Step(1) /\ FoldsLeft = StepSum[n_layers]
  BY <1>2, <1>5 DEF ToFold, FoldsLeft
<1> DEFINE f == StepSum[n_layers]
<1>7. /\ \E h, g \in Nat : /\ W = Pow2[h + ToFold]
                           /\ params.bound * params.cosets * Pow2[f] = Pow2[h + ToFold + g]
      /\ W \in Nat /\ W >= 1 /\ params.bound * params.cosets * Pow2[f] = W * params.cosets
  <2> DEFINE t == Step(1)
             w == params.bound * Pow2[f]
  <2>1. f \in Nat /\ t \in Nat /\ t <= f
    BY <1>3, <1>4, <1>5
  <2> HIDE DEF f, t
  <2>2. /\ \E h, g \in Nat : /\ w = Pow2[h + t]
                             /\ params.bound * params.cosets * Pow2[f] = Pow2[h + t + g]
        /\ w \in Nat /\ w >= 1 /\ params.bound * params.cosets * Pow2[f] = w * params.cosets
    BY <1>1, <2>1, SizePowers
  <2>3. W = w /\ ToFold = t
    BY <1>6 DEF f, t
  <2> HIDE DEF w
  <2>4. QED
    BY <2>2, <2>3
<1>8. params.cosets \in Nat
  BY <1>1, NumberFacts
<1>9. W * params.cosets \in Nat
  BY <1>7, <1>8
<1> HIDE DEF W
<1>10. Span(0, W, TRUE) \in Spans /\ Gone \in Spans
  BY <1>7, SpanFacts DEF Gone
<1>11. /\ L \in Layers /\ L.kind = "out_of_memory" /\ L.size = W * params.cosets /\ L.chunk = W
       /\ L.evaluation = Span(0, W, TRUE) /\ L.lde = Gone
  BY <1>7, <1>9, <1>10 DEF Layers, LayerKinds
<1> HIDE DEF L
<1>12. /\ layers \in Seq(Layers) /\ Len(layers) = 1 /\ DOMAIN layers = 1 .. 1 /\ layers[1] = L
       /\ current = L
  BY <1>2, <1>11 DEF current
<1>13. Base = 1
  <2>1. BaseOf(layers) = 1
    <3>1. 1 \in 1 .. Len(layers) /\ Len(layers) \in Nat /\ layers[1].kind # "proxy"
      BY <1>11, <1>12
    <3>2. \A i \in 1 + 1 .. Len(layers) : layers[i].kind = "proxy"
      BY <1>12
    <3>3. QED
      BY <1>12, <3>1, <3>2, BaseUnique
  <2>2. QED
    BY <2>1 DEF Base, BaseOf
<1>14. TypeOK
  <2>1. tables \in Seq([layer : 1 .. Len(layers), step : Nat, given : Spans,
                     answers : {"none", "right", "wrong"}])
    BY <1>2
  <2>2. layers \in Seq(Layers) /\ Len(layers) > 0 /\ layer_num \in 1 .. n_layers
    BY <1>2, <1>3, <1>12
  <2>3. /\ fold \in Nat /\ coset_size \in Nat /\ chunk_index \in Nat
        /\ precompute \subseteq Nat /\ gathered \in Spans
    BY <1>2, <1>7, <1>10
  <2>4. QED
    BY <1>2, <2>1, <2>2, <2>3 DEF TypeOK
<1>15. SoundLayers
  <2>1. SoundLayer(L)
    BY <1>11 DEF SoundLayer
  <2>2. QED
    BY <1>12, <2>1 DEF SoundLayers
<1>16. Sizes
  <2>1. current.size = params.bound * params.cosets * Pow2[FoldsLeft]
    BY <1>6, <1>7, <1>11, <1>12
  <2>2. \E h, g \in Nat : current.chunk = Pow2[h + ToFold] /\ current.size = Pow2[h + ToFold + g]
    BY <1>6, <1>7, <1>11, <1>12, <2>1
  <2>3. current.kind # "proxy"
    BY <1>11, <1>12
  <2>4. QED
    BY <2>1, <2>2, <2>3 DEF Sizes
<1>17. Doubling
  <2>1. Pow2[Len(layers) - Base] = 1
    BY <1>12, <1>13, Pow2Values
  <2>2. current.size = current.size * 1 /\ current.chunk = current.chunk * 1
    BY <1>7, <1>9, <1>11, <1>12
  <2>3. Base \in DOMAIN layers /\ layers[Base].kind # "proxy" /\ layers[Base] = current
    BY <1>11, <1>12, <1>13
  <2>4. Base + 1 .. Len(layers) = {}
    BY <1>12, <1>13
  <2>5. QED
    BY <2>1, <2>2, <2>3, <2>4 DEF Doubling, Proxies
<1>18. Kinds
  BY <1>2, <1>11, <1>12, <1>13 DEF Kinds, NoMemoryYet, Moved
<1>19. FirstCosets
  <2>1. W = params.bound * Pow2[FoldsLeft] /\ W = params.bound * Pow2[FoldsAfter + Step(layer_num)]
    BY <1>2, <1>5, <1>6 DEF W
  <2>2. current.chunk = W /\ coset_size = W /\ pc = "layer"
    BY <1>2, <1>11, <1>12
  <2>3. QED
    BY <2>1, <2>2 DEF FirstCosets
<1>20. Decided /\ MemoryLayersStayLast
  BY <1>2 DEF Decided, Turn, MemoryLayersStayLast
<1>21. Looped /\ Tabled /\ SegmentsHaveTwoRows
  BY <1>2 DEF Looped, Tabled, SegmentsHaveTwoRows
<1>22. QED
  BY <1>1, <1>2, <1>14, <1>15, <1>16, <1>17, <1>18, <1>19, <1>20, <1>21 DEF IInv

-----------------------------------------------------------------------------
\* Steps between the loops.

LEMMA ParametersKept ==
  ASSUME Parameters, params' = params
  PROVE  /\ Parameters' /\ n_layers' = n_layers /\ StepSum' = StepSum
         /\ \A k : Step(k)' = Step(k)
<1>1. n_layers' = n_layers
  BY DEF n_layers
<1>2. StepSum' = StepSum
  BY <1>1 DEF StepSum
<1>3. \A k : Step(k)' = Step(k)
  BY <1>1 DEF Step
<1>4. Parameters'
  BY DEF Parameters, FitConfig
<1>5. QED
  BY <1>1, <1>2, <1>3, <1>4

LEMMA LayersKept ==
  ASSUME TypeOK, params' = params, layers' = layers
  PROVE  /\ current' = current /\ Base' = Base /\ Proxies' = Proxies
         /\ SoundLayers => SoundLayers'
         /\ Doubling => Doubling'
<1>1. current' = current /\ Base' = Base
  BY DEF current, Base
<1>2. Proxies' = Proxies
  BY <1>1 DEF Proxies
<1>3. SoundLayers => SoundLayers'
  BY DEF SoundLayers, SoundLayer
<1>4. Doubling => Doubling'
  BY <1>1, <1>2 DEF Doubling
<1>5. QED
  BY <1>1, <1>2, <1>3, <1>4

LEMMA BelowTwo ==
  ASSUME NEW x \in Nat, NEW y \in Nat, NEW z \in Nat, y >= 1, z >= 1
  PROVE  (x * z) \div (y * z) < 2 <=> x < 2 * y
<1>1. y * z \in Nat /\ y * z >= 1 /\ x * z \in Nat
  <2>1. \A u, v \in Nat : u >= 1 /\ v >= 1 => u * v \in Nat /\ u * v >= 1
    OBVIOUS
  <2>2. QED
    BY <2>1
<1>2. ASSUME x < 2 * y PROVE (x * z) \div (y * z) < 2
  <2>1. x + 1 <= 2 * y
    BY <1>2
  <2>2. (x + 1) * z <= (2 * y) * z
    <3>1. \A u, v, w \in Nat : u <= v => u * w <= v * w
      OBVIOUS
    <3>2. x + 1 \in Nat /\ 2 * y \in Nat
      OBVIOUS
    <3>3. QED
      BY <2>1, <3>1, <3>2
  <2>3. (x + 1) * z = x * z + z /\ (2 * y) * z = 2 * (y * z)
    OBVIOUS
  <2>4. x * z < 2 * (y * z)
    BY <1>1, <2>2, <2>3
  <2> DEFINE p == y * z
             n == x * z
  <2>5. n \div p \in Nat /\ (n \div p) * p <= n
    <3>1. n \in Nat /\ p \in Nat /\ p >= 1
      BY <1>1
    <3> HIDE DEF n, p
    <3>2. QED
      BY <3>1, QuotientBounds
  <2>6. n \in Nat /\ p \in Nat /\ n < 2 * p
    BY <1>1, <2>4
  <2> HIDE DEF n, p
  <2>7. n \div p >= 2 => (n \div p) * p >= 2 * p
    <3>1. \A u, v, w \in Nat : u <= v => u * w <= v * w
      OBVIOUS
    <3>2. QED
      BY <2>5, <2>6, <3>1
  <2>8. (n \div p) * p \in Nat
    BY <2>5, <2>6
  <2>9. n \div p < 2
    BY <2>5, <2>6, <2>7, <2>8
  <2>10. QED
    BY <2>9 DEF n, p
<1>3. ASSUME x >= 2 * y PROVE (x * z) \div (y * z) >= 2
  <2>1. 2 * (y * z) <= x * z
    <3>1. \A u, v, w \in Nat : u <= v => u * w <= v * w
      OBVIOUS
    <3>2. (2 * y) * z <= x * z /\ (2 * y) * z = 2 * (y * z)
      BY <1>3, <3>1
    <3>3. QED
      BY <3>2
  <2> DEFINE p == y * z
             n == x * z
  <2>2. n \div p \in Nat /\ n < (n \div p) * p + p
    <3>1. n \in Nat /\ p \in Nat /\ p >= 1
      BY <1>1
    <3> HIDE DEF n, p
    <3>2. QED
      BY <3>1, QuotientBounds
  <2>3. n \in Nat /\ p \in Nat /\ 2 * p <= n
    BY <1>1, <2>1
  <2> HIDE DEF n, p
  <2>4. n \div p <= 1 => (n \div p) * p <= 1 * p
    <3>1. \A u, v, w \in Nat : u <= v => u * w <= v * w
      OBVIOUS
    <3>2. QED
      BY <2>2, <2>3, <3>1
  <2>5. (n \div p) * p \in Nat
    BY <2>2, <2>3
  <2>6. n \div p >= 2
    BY <2>2, <2>3, <2>4, <2>5
  <2>7. QED
    BY <2>6 DEF n, p
<1>4. (x * z) \div (y * z) \in Nat
  BY <1>1, QuotientBounds
<1>5. QED
  BY <1>2, <1>3, <1>4

LEMMA NextLayerStep ==
  ASSUME IInv, NextLayer
  PROVE  IInv'
<1> USE DEF IInv
<1>1. /\ pc = "layer" /\ pc' = "fold" /\ fold' = 0
      /\ is_in_memory' = (current.size <= Pow2[params.log_memory] \/ layer_num = n_layers \/ ChunkTooSmall)
      /\ UNCHANGED <<params, layers, layer_num, coset_size, first_in_memory, loop, tables>>
  BY DEF NextLayer
<1>21. is_in_memory' <=> \/ current.size <= Pow2[params.log_memory] \/ layer_num = n_layers
                         \/ ChunkTooSmall
  BY <1>1, Zenon
<1>2. /\ params' = params /\ layers' = layers /\ layer_num' = layer_num /\ coset_size' = coset_size
      /\ first_in_memory' = first_in_memory /\ tables' = tables
      /\ chunk_index' = chunk_index /\ precompute' = precompute /\ gathered' = gathered
  BY <1>1 DEF loop
<1>3. layer_num \in 1 .. n_layers /\ n_layers \in Nat
  BY StepFacts DEF TypeOK
<1>4. /\ Parameters' /\ n_layers' = n_layers /\ StepSum' = StepSum /\ \A k : Step(k)' = Step(k)
  BY <1>2, ParametersKept
<1>5. current' = current /\ Base' = Base /\ SoundLayers' /\ Doubling'
  BY <1>2, LayersKept
<1>6. FoldsAfter' = FoldsAfter /\ Step(layer_num)' = Step(layer_num)
      /\ Step(layer_num + 1)' = Step(layer_num + 1)
  BY <1>2, <1>4 DEF FoldsAfter, Step
<1>7. Step(layer_num) \in Nat /\ FoldsAfter \in Nat
  BY <1>3, FoldCounts
<1>8. ToFold = Step(layer_num) /\ ToFold' = ToFold /\ FoldsLeft' = FoldsLeft
  <2>1. ToFold = Step(layer_num)
    BY <1>1 DEF ToFold
  <2>2. ToFold' = Step(layer_num)' - fold'
    BY <1>1 DEF ToFold
  <2>3. QED
    BY <1>1, <1>6, <1>7, <2>1, <2>2 DEF FoldsLeft
<1>9. TypeOK'
  <2>1. is_in_memory' \in BOOLEAN
    BY <1>1
  <2>2. QED
    BY <1>1, <1>2, <1>4, <2>1 DEF TypeOK
<1>10. Sizes'
  BY <1>2, <1>5, <1>8 DEF Sizes
<1>11. NoMemoryYet' = NoMemoryYet
  BY <1>1, <1>2 DEF NoMemoryYet
<1>12. Kinds'
  <2>1. current.kind # "proxy"
    BY <1>1 DEF Kinds
  <2>2. /\ layers[Base].kind = IF NoMemoryYet THEN "out_of_memory" ELSE "memory"
        /\ layer_num = 1 => NoMemoryYet /\ ~Moved(layers[Base])
    BY <1>1 DEF Kinds
  <2>3. Moved(layers[Base])' = Moved(layers[Base])
    BY <1>2, <1>5 DEF Moved
  <2>4. QED
    BY <1>1, <1>2, <1>5, <1>6, <1>7, <1>11, <2>1, <2>2, <2>3 DEF Kinds
<1>13. FirstCosets'
  BY <1>1, <1>2, <1>5, <1>6, <1>8, <1>11 DEF FirstCosets
<1>14. ASSUME ~first_in_memory PROVE current.size <= Pow2[params.log_memory] \/ layer_num = n_layers
  BY <1>1, <1>14 DEF Decided
<1>15. ASSUME first_in_memory
       PROVE  /\ ~is_in_memory' => params.bound * Pow2[FoldsAfter] >= 2 * Pow2[Step(layer_num + 1)]
              /\ ChunkTooSmall => layer_num >= n_layers - 1
  <2> DEFINE s == Step(layer_num)
             t == Step(layer_num + 1)
             A == params.bound * Pow2[FoldsAfter]
  <2>1. current.chunk = params.bound * Pow2[FoldsAfter + s]
    BY <1>8, <1>15 DEF FirstCosets, NoMemoryYet, FoldsLeft
  <2>2. t \in Nat /\ s \in Nat /\ FoldsAfter \in Nat /\ params.bound \in Nat /\ params.bound >= 1
    <3>1. layer_num + 1 \in Nat
      BY <1>3
    <3>2. params.bound # 0
      <4>1. PICK b \in Nat : params.bound = Pow2[b]
        BY PowerFacts
      <4>2. QED
        BY <4>1, Pow2Values
    <3>3. params.bound \in Nat
      BY NumberFacts
    <3>4. Step(layer_num + 1) \in Nat
      BY <3>1, StepFacts
    <3>5. QED
      BY <1>7, <3>2, <3>3, <3>4
  <2>3. ChunkTooSmall <=> (params.bound * Pow2[FoldsAfter + s]) \div Pow2[t + s] < 2
    BY <2>1 DEF ChunkTooSmall, RowsLeft
  <2> HIDE DEF s, t
  <2>4. /\ Pow2[FoldsAfter + s] = Pow2[FoldsAfter] * Pow2[s] /\ Pow2[t + s] = Pow2[t] * Pow2[s]
        /\ Pow2[FoldsAfter] \in Nat /\ Pow2[s] \in Nat /\ Pow2[s] >= 1 /\ Pow2[t] \in Nat
        /\ Pow2[t] >= 1
    BY <2>2, Pow2Adds, Pow2Values
  <2>5. \A x, y, z \in Nat : y >= 1 /\ z >= 1 => ((x * z) \div (y * z) < 2 <=> x < 2 * y)
    BY BelowTwo
  <2>6. A \in Nat /\ params.bound * Pow2[FoldsAfter + s] = A * Pow2[s]
    <3>1. \A x, y, z \in Nat : x * (y * z) = (x * y) * z /\ x * y \in Nat
      OBVIOUS
    <3>2. QED
      BY <2>2, <2>4, <3>1
  <2> HIDE DEF A
  <2>7. ChunkTooSmall <=> A < 2 * Pow2[t]
    BY <2>3, <2>4, <2>5, <2>6
  <2>8. ~is_in_memory' => A >= 2 * Pow2[t]
    BY <1>21, <2>4, <2>6, <2>7
  <2>9. ASSUME ChunkTooSmall, layer_num < n_layers - 1 PROVE FALSE
    <3>1. layer_num < n_layers /\ layer_num + 1 < n_layers
      BY <1>3, <2>9
    <3>2. FoldsAfter > t
      BY <1>3, <3>1, FoldCounts DEF t
    <3>3. 2 * Pow2[t] <= Pow2[FoldsAfter]
      BY <2>2, <3>2, Pow2Grows
    <3>4. Pow2[FoldsAfter] <= A
      <4>1. \A x, y \in Nat : x >= 1 => y <= x * y
        OBVIOUS
      <4>2. QED
        BY <2>2, <2>4, <4>1 DEF A
    <3>5. QED
      BY <2>4, <2>6, <2>7, <2>9, <3>3, <3>4
  <2>10. QED
    BY <1>3, <2>8, <2>9 DEF A, t
<1>16. first_in_memory \/ is_in_memory'
  BY <1>21, <1>14
<1>17. Decided'
  <2>1. is_in_memory' => current.size <= Pow2[params.log_memory] \/ layer_num >= n_layers - 1
    BY <1>21, <1>3, <1>14, <1>15
  <2>2. ~is_in_memory' => params.bound * Pow2[FoldsAfter] >= 2 * Pow2[Step(layer_num + 1)]
    BY <1>15, <1>16
  <2>3. layer_num = n_layers => is_in_memory'
    BY <1>21
  <2>4. QED
    BY <1>1, <1>2, <1>4, <1>5, <1>6, <2>1, <2>2, <2>3 DEF Decided, Turn
<1>18. MemoryLayersStayLast'
  BY <1>2, <1>16 DEF MemoryLayersStayLast
<1>19. Looped' /\ Tabled' /\ SegmentsHaveTwoRows'
  BY <1>1, <1>2 DEF Looped, Tabled, SegmentsHaveTwoRows
<1>20. QED
  BY <1>1, <1>4, <1>5, <1>9, <1>10, <1>12, <1>13, <1>17, <1>18, <1>19

-----------------------------------------------------------------------------
\* Steps that add a layer.

LEMMA Appended ==
  ASSUME TypeOK, SoundLayers, Doubling, NEW chain, SameShape(chain), NEW P \in Layers, SoundLayer(P),
         layers' = Append(chain, P), params' = params
  PROVE  /\ layers' \in Seq(Layers) /\ Len(layers') = Len(layers) + 1 /\ current' = P
         /\ DOMAIN layers' = 1 .. Len(layers) + 1 /\ layers'[Len(layers) + 1] = P
         /\ \A i \in 1 .. Len(layers) :
              /\ layers'[i].kind = layers[i].kind /\ layers'[i].size = layers[i].size
              /\ layers'[i].chunk = layers[i].chunk
         /\ SoundLayers'
         /\ P.kind = "proxy" => Base' = Base
         /\ P.kind # "proxy" => Base' = Len(layers) + 1
<1> DEFINE N == Len(layers)
           A == Append(chain, P)
<1>1. N \in Nat /\ N >= 1
  BY LayerTypes
<1>2. /\ chain \in Seq(Layers) /\ Len(chain) = N
      /\ \A i \in 1 .. N : /\ chain[i].kind = layers[i].kind /\ chain[i].size = layers[i].size
                           /\ chain[i].chunk = layers[i].chunk /\ SoundLayer(chain[i])
  BY DEF SameShape
<1> HIDE DEF N
<1>3. /\ A \in Seq(Layers) /\ Len(A) = N + 1 /\ DOMAIN A = 1 .. N + 1 /\ A[N + 1] = P
      /\ \A i \in 1 .. N : A[i] = chain[i]
  BY <1>1, <1>2
<1> HIDE DEF A
<1>4. layers' = A
  BY DEF A
<1>5. current' = P
  BY <1>3, <1>4 DEF current
<1>6. \A i \in 1 .. N : /\ A[i].kind = layers[i].kind /\ A[i].size = layers[i].size
                        /\ A[i].chunk = layers[i].chunk
  BY <1>2, <1>3
<1>7. SoundLayers'
  <2>1. \A i \in 1 .. N + 1 : SoundLayer(A[i])
    <3> SUFFICES ASSUME NEW i \in 1 .. N + 1 PROVE SoundLayer(A[i])
      OBVIOUS
    <3>1. CASE i = N + 1
      BY <1>3, <3>1
    <3>2. CASE i \in 1 .. N
      BY <1>2, <1>3, <3>2
    <3>3. QED
      BY <1>1, <3>1, <3>2
  <2>2. \A L : SoundLayer(L)' <=> SoundLayer(L)
    BY DEF SoundLayer
  <2>3. \A i \in DOMAIN layers' : SoundLayer(layers'[i])
    BY <1>3, <1>4, <2>1
  <2>4. QED
    BY <2>3 DEF SoundLayers, SoundLayer
<1>8. ASSUME P.kind = "proxy" PROVE Base' = Base
  <2> DEFINE b == Base
  <2>1. b \in 1 .. N /\ layers[b].kind # "proxy" /\ \A i \in b + 1 .. N : layers[i].kind = "proxy"
    BY BaseFacts DEF N
  <2>2. Base' = BaseOf(A)
    BY <1>4 DEF Base, BaseOf
  <2> HIDE DEF b
  <2>3. b \in 1 .. Len(A) /\ A[b].kind # "proxy"
    BY <1>1, <1>3, <1>6, <2>1
  <2>4. \A i \in b + 1 .. Len(A) : A[i].kind = "proxy"
    <3> SUFFICES ASSUME NEW i \in b + 1 .. N + 1 PROVE A[i].kind = "proxy"
      BY <1>3
    <3>1. CASE i = N + 1
      BY <1>3, <1>8, <3>1
    <3>2. CASE i \in b + 1 .. N
      <4>1. i \in 1 .. N
        BY <1>1, <2>1, <3>2
      <4>2. QED
        BY <1>6, <2>1, <3>2, <4>1
    <3>3. i = N + 1 \/ i \in b + 1 .. N
      BY <1>1, <2>1
    <3>4. QED
      BY <3>1, <3>2, <3>3
  <2>5. Len(A) \in Nat /\ DOMAIN A = 1 .. Len(A)
    BY <1>1, <1>3
  <2>6. BaseOf(A) = b
    BY <2>3, <2>4, <2>5, BaseUnique
  <2>7. QED
    BY <2>2, <2>6 DEF b
<1>9. ASSUME P.kind # "proxy" PROVE Base' = N + 1
  <2>1. Base' = BaseOf(A)
    BY <1>4 DEF Base, BaseOf
  <2>2. /\ N + 1 \in 1 .. Len(A) /\ Len(A) \in Nat /\ DOMAIN A = 1 .. Len(A)
        /\ A[N + 1].kind # "proxy" /\ \A i \in (N + 1) + 1 .. Len(A) : A[i].kind = "proxy"
    BY <1>1, <1>3, <1>9
  <2>3. BaseOf(A) = N + 1
    BY <2>2, BaseUnique
  <2>4. QED
    BY <2>1, <2>3
<1>10. QED
  BY <1>3, <1>4, <1>5, <1>6, <1>7, <1>8, <1>9 DEF N

LEMMA ShapeOfLayers ==
  ASSUME TypeOK, SoundLayers
  PROVE  SameShape(layers)
  BY LayerTypes DEF SameShape, SoundLayers

\* The tables' layers stay what they are.
LEMMA TablesKept ==
  ASSUME TypeOK, Tabled, SegmentsHaveTwoRows, tables' = tables,
         Len(layers') \in Nat, Len(layers') >= Len(layers),
         \A i \in 1 .. Len(layers) :
           /\ layers'[i].kind = layers[i].kind /\ layers'[i].size = layers[i].size
           /\ layers'[i].chunk = layers[i].chunk
  PROVE  /\ Tabled' /\ SegmentsHaveTwoRows'
         /\ tables' \in Seq([layer : 1 .. Len(layers'), step : Nat, given : Spans,
                             answers : {"none", "right", "wrong"}])
<1> DEFINE R(n) == [layer : 1 .. n, step : Nat, given : Spans,
                    answers : {"none", "right", "wrong"}]
           N == Len(layers)
           M == Len(layers')
<1>1. tables \in Seq(R(N))
  BY DEF TypeOK
<1>2. N \in Nat /\ M \in Nat /\ N <= M
  BY LayerTypes
<1>3. R(N) \subseteq R(M)
  <2> HIDE DEF N, M
  <2>1. 1 .. N \subseteq 1 .. M
    BY <1>2
  <2>2. QED
    BY <2>1
<1>4. \A k \in DOMAIN tables : tables[k].layer \in 1 .. N
  <2> HIDE DEF N
  <2>1. \A k \in DOMAIN tables : tables[k] \in R(N)
    <3> HIDE DEF R
    <3>1. QED
      BY <1>1
  <2>2. \A r \in R(N) : r.layer \in 1 .. N
    OBVIOUS
  <2> HIDE DEF R
  <2>3. QED
    BY <2>1, <2>2
<1>5. tables \in Seq(R(M))
  <2> HIDE DEF R, N, M
  <2>1. QED
    BY <1>1, <1>3
<1>6. Tabled'
  <2> SUFFICES ASSUME NEW k \in DOMAIN tables
               PROVE  /\ layers'[tables[k].layer].kind # "proxy"
                      /\ tables[k].given = Span(0, layers'[tables[k].layer].size, TRUE)
                      /\ tables[k].answers # "wrong"
    BY DEF Tabled
  <2>1. tables[k].layer \in 1 .. Len(layers)
    BY <1>4
  <2>2. QED
    BY <2>1 DEF Tabled
<1>7. SegmentsHaveTwoRows'
  <2> SUFFICES ASSUME NEW k \in DOMAIN tables
               PROVE  layers'[tables[k].layer].chunk >= 2 * Pow2[tables[k].step]
    BY DEF SegmentsHaveTwoRows
  <2>1. tables[k].layer \in 1 .. Len(layers)
    BY <1>4
  <2>2. QED
    BY <2>1 DEF SegmentsHaveTwoRows
<1>8. QED
  BY <1>5, <1>6, <1>7

LEMMA FoldOnceStep ==
  ASSUME IInv, FoldOnce
  PROVE  IInv'
<1> USE DEF IInv
<1> DEFINE chunk == CalculateChunkSize(current)
           half == current.size \div 2
           P == [kind |-> "proxy", size |-> half, chunk |-> chunk, evaluation |-> Gone, lde |-> Gone]
           T == ToFold
           N == Len(layers)
<1>1. pc = "fold" /\ fold < Step(layer_num)
  BY DEF FoldOnce
<1>2. /\ chunk \in Nat /\ chunk >= 1 /\ 2 * chunk <= current.size
      /\ half \in Nat /\ current.size = 2 * half
      /\ \E h, g \in Nat : chunk = Pow2[h + (T - 1)] /\ half = Pow2[h + (T - 1) + g]
      /\ current.kind # "memory" => current.chunk = 2 * chunk
      /\ chunk = half => half <= params.max_non_chunked \/ params.n_chunks = 2
  <2> HIDE DEF chunk
  <2>1. chunk = CalculateChunkSize(current)
    BY DEF chunk
  <2>2. QED
    BY <1>1, <2>1, NextChunk
<1>3. ~ (chunk = 0 \/ 2 * chunk > current.size)
  <2> HIDE DEF chunk, half
  <2>1. current.size \in Nat
    BY ChunkCount
  <2>2. QED
    BY <1>2, <2>1
<1>4. /\ layers' = Append(layers, P) /\ fold' = fold + 1
      /\ UNCHANGED <<params, layer_num, pc, choice, loop, tables>>
  BY <1>3 DEF FoldOnce
<1>5. /\ params' = params /\ layer_num' = layer_num /\ pc' = pc /\ tables' = tables
      /\ coset_size' = coset_size /\ is_in_memory' = is_in_memory
      /\ first_in_memory' = first_in_memory
      /\ chunk_index' = chunk_index /\ precompute' = precompute /\ gathered' = gathered
  BY <1>4 DEF choice, loop
<1> HIDE DEF chunk, half
<1>6. /\ P \in Layers /\ P.kind = "proxy" /\ P.size = half /\ P.chunk = chunk
      /\ SoundLayer(P)
  BY <1>2 DEF Layers, LayerKinds, Spans, Gone, Span, SoundLayer
<1> HIDE DEF P
<1>7. /\ layers' \in Seq(Layers) /\ Len(layers') = N + 1 /\ current' = P
      /\ DOMAIN layers' = 1 .. N + 1 /\ layers'[N + 1] = P
      /\ \A i \in 1 .. N : /\ layers'[i].kind = layers[i].kind /\ layers'[i].size = layers[i].size
                           /\ layers'[i].chunk = layers[i].chunk
      /\ SoundLayers' /\ Base' = Base
  BY <1>4, <1>5, <1>6, ShapeOfLayers, Appended
<1>8. N \in Nat /\ N >= 1 /\ layer_num \in 1 .. n_layers /\ fold \in Nat
  BY LayerTypes DEF TypeOK
<1>9. Tabled' /\ SegmentsHaveTwoRows'
      /\ tables' \in Seq([layer : 1 .. Len(layers'), step : Nat, given : Spans,
                          answers : {"none", "right", "wrong"}])
  <2>1. Len(layers') \in Nat /\ Len(layers') >= Len(layers)
    BY <1>7, <1>8
  <2>2. QED
    BY <1>5, <1>7, <2>1, TablesKept
<1>10. /\ Parameters' /\ n_layers' = n_layers /\ StepSum' = StepSum /\ \A k : Step(k)' = Step(k)
  BY <1>5, ParametersKept
<1>11. FoldsAfter' = FoldsAfter /\ Step(layer_num)' = Step(layer_num)
       /\ Step(layer_num + 1)' = Step(layer_num + 1)
  BY <1>5, <1>10 DEF FoldsAfter, Step
<1>12. Step(layer_num) \in Nat /\ FoldsAfter \in Nat
  BY <1>8, FoldCounts
<1>13. T = Step(layer_num) - fold /\ ToFold' = T - 1 /\ FoldsLeft' = FoldsLeft - 1
       /\ FoldsLeft \in Nat /\ FoldsLeft >= 1 /\ FoldsLeft = FoldsAfter + T /\ T \in Nat /\ T >= 1
  <2> DEFINE s == Step(layer_num)
             a == FoldsAfter
  <2>1. T = s - fold /\ FoldsLeft = a + T
    BY <1>1 DEF ToFold, FoldsLeft
  <2>2. ToFold' = s' - fold' /\ FoldsLeft' = a' + ToFold'
    BY <1>1, <1>5 DEF ToFold, FoldsLeft
  <2>3. s' = s /\ a' = a /\ fold' = fold + 1
    BY <1>4, <1>11
  <2>4. s \in Nat /\ a \in Nat /\ fold \in Nat /\ fold < s
    BY <1>1, <1>8, <1>12
  <2>5. ToFold' = s - (fold + 1) /\ FoldsLeft' = a + ToFold'
    BY <2>2, <2>3
  <2> HIDE DEF s, a, T
  <2>6. T \in Nat /\ T >= 1 /\ s - (fold + 1) = T - 1 /\ FoldsLeft \in Nat /\ FoldsLeft >= 1
        /\ a + (T - 1) = (a + T) - 1
    BY <2>1, <2>4
  <2>7. ToFold' = T - 1 /\ FoldsLeft' = FoldsLeft - 1
    BY <2>1, <2>5, <2>6
  <2>8. QED
    BY <2>1, <2>6, <2>7 DEF s, a
<1>14. TypeOK'
  <2>1. fold' \in Nat
    BY <1>4, <1>8
  <2>2. Len(layers') > 0
    BY <1>7, <1>8
  <2>3. QED
    BY <1>5, <1>7, <1>9, <1>10, <2>1, <2>2 DEF TypeOK
<1>15. half = params.bound * params.cosets * Pow2[FoldsLeft - 1]
  <2> DEFINE W == params.bound * params.cosets
             p == Pow2[FoldsLeft - 1]
  <2>1. current.size = W * Pow2[FoldsLeft]
    BY DEF Sizes
  <2>2. Pow2[FoldsLeft] = 2 * p /\ p \in Nat
    BY <1>13, Pow2Half
  <2>3. W \in Nat
    BY NumberFacts
  <2>4. \A x, y, z \in Nat : 2 * x = y * (2 * z) => x = y * z
    <3>1. \A y, z \in Nat : y * (2 * z) = 2 * (y * z) /\ y * z \in Nat
      OBVIOUS
    <3>2. QED
      BY <3>1
  <2> HIDE DEF W, p
  <2>5. half = W * p
    BY <1>2, <2>1, <2>2, <2>3, <2>4
  <2>6. QED
    BY <2>5 DEF W, p
<1>16. Sizes'
  <2>1. P.size = params.bound * params.cosets * Pow2[FoldsLeft']
    BY <1>6, <1>13, <1>15
  <2>2. \E h, g \in Nat : P.chunk = Pow2[h + ToFold'] /\ P.size = Pow2[h + ToFold' + g]
    BY <1>2, <1>6, <1>13
  <2>3. P.chunk = P.size => P.size <= params.max_non_chunked \/ params.n_chunks = 2
    BY <1>2, <1>6
  <2>4. QED
    BY <1>5, <1>7, <2>1, <2>2, <2>3 DEF Sizes
<1>17. Doubling'
  <2> DEFINE B == Base
  <2>1. B \in 1 .. N /\ layers[B].kind # "proxy" /\ \A i \in B + 1 .. N : layers[i].kind = "proxy"
    BY BaseFacts
  <2>2. /\ \A i \in B + 1 .. N : /\ layers[i].size = current.size * Pow2[N - i]
                                 /\ layers[i].chunk = current.chunk * Pow2[N - i]
        /\ layers[B].size = current.size * Pow2[N - B]
        /\ layers[B].kind = "out_of_memory" => layers[B].chunk = current.chunk * Pow2[N - B]
    BY DEF Doubling, Proxies
  <2>3. B < N => current.chunk = 2 * chunk
    <3>1. B < N => current.kind = "proxy"
      BY BaseFacts
    <3>2. QED
      BY <1>2, <3>1
  <2>4. layers[B].kind = "out_of_memory" => current.chunk = 2 * chunk
    <3>1. current.kind = "proxy" \/ layers[B] = current
      BY BaseFacts
    <3>2. QED
      BY <1>2, <3>1
  <2> HIDE DEF B, N
  <2>5. \A i \in 0 .. N : /\ N - i \in Nat /\ (N + 1) - i = (N - i) + 1
                          /\ Pow2[(N + 1) - i] = 2 * Pow2[N - i] /\ Pow2[N - i] \in Nat
    <3> SUFFICES ASSUME NEW i \in 0 .. N
                 PROVE  /\ N - i \in Nat /\ (N + 1) - i = (N - i) + 1
                        /\ Pow2[(N + 1) - i] = 2 * Pow2[N - i] /\ Pow2[N - i] \in Nat
      OBVIOUS
    <3>1. N - i \in Nat /\ (N + 1) - i = (N - i) + 1
      BY <1>8 DEF N
    <3>2. QED
      BY <3>1, Pow2Values
  <2>6. \A x, y \in Nat : (2 * x) * y = x * (2 * y)
    OBVIOUS
  <2>7. \A i \in 0 .. N : /\ current.size * Pow2[N - i] = half * Pow2[(N + 1) - i]
                          /\ (2 * chunk) * Pow2[N - i] = chunk * Pow2[(N + 1) - i]
    BY <1>2, <2>5, <2>6
  <2>8. Pow2[(N + 1) - (N + 1)] = 1 /\ half * 1 = half /\ chunk * 1 = chunk
    <3>1. (N + 1) - (N + 1) = 0
      BY <1>8 DEF N
    <3>2. QED
      BY <1>2, <3>1, Pow2Values
  <2>9. N \in Nat /\ B \in Nat /\ B \in 0 .. N /\ B \in 1 .. N + 1
    BY <1>8, <2>1 DEF N
  <2>10. layers'[B].kind = layers[B].kind /\ layers'[B].size = layers[B].size
         /\ layers'[B].chunk = layers[B].chunk
    BY <1>7, <2>1 DEF N
  <2>11. ASSUME NEW i \in B + 1 .. N + 1
         PROVE  /\ layers'[i].kind = "proxy" /\ layers'[i].size = half * Pow2[(N + 1) - i]
                /\ layers'[i].chunk = chunk * Pow2[(N + 1) - i]
    <3>1. CASE i = N + 1
      BY <1>6, <1>7, <2>8, <3>1 DEF N
    <3>2. CASE i # N + 1
      <4>1. i \in B + 1 .. N /\ i \in 0 .. N /\ i \in 1 .. N /\ B < N
        BY <2>9, <3>2
      <4>2. layers'[i].kind = layers[i].kind /\ layers'[i].size = layers[i].size
            /\ layers'[i].chunk = layers[i].chunk
        BY <1>7, <4>1 DEF N
      <4>3. QED
        BY <2>1, <2>2, <2>3, <2>7, <4>1, <4>2
    <3>3. QED
      BY <3>1, <3>2
  <2>12. layers'[B].size = half * Pow2[(N + 1) - B]
         /\ (layers'[B].kind = "out_of_memory" => layers'[B].chunk = chunk * Pow2[(N + 1) - B])
    BY <2>2, <2>4, <2>7, <2>9, <2>10
  <2>13. Base' = B /\ Len(layers') = N + 1 /\ DOMAIN layers' = 1 .. N + 1
         /\ current' = P /\ P.size = half /\ P.chunk = chunk /\ layers'[B].kind # "proxy"
    BY <1>6, <1>7, <2>1, <2>10 DEF B, N
  <2>14. Proxies' = B + 1 .. N + 1
    BY <2>13 DEF Proxies
  <2>15. QED
    BY <2>9, <2>11, <2>12, <2>13, <2>14 DEF Doubling
<1>18. NoMemoryYet' = NoMemoryYet
  BY <1>5 DEF NoMemoryYet
<1>19. Base \in 1 .. N
  BY BaseFacts
<1>20. Kinds'
  <2> DEFINE B == Base
  <2>1. /\ layers[B].kind = IF NoMemoryYet THEN "out_of_memory" ELSE "memory"
        /\ layer_num = 1 => NoMemoryYet /\ ~Moved(layers[B])
    BY <1>1 DEF Kinds
  <2>2. layers'[B] = layers[B]
    <3>1. B \in 1 .. N
      BY <1>19
    <3> HIDE DEF B
    <3>2. layers \in Seq(Layers)
      BY LayerTypes
    <3>3. Append(layers, P)[B] = layers[B]
      BY <3>1, <3>2
    <3>4. QED
      BY <1>4, <3>3
  <2>3. Moved(layers[B])' = Moved(layers[B])
    BY <1>7, <2>2 DEF Moved
  <2>4. fold' > 0 /\ fold' <= Step(layer_num)
    BY <1>1, <1>4, <1>8, <1>12
  <2>5. current'.kind = "proxy" /\ Base' = B
    BY <1>6, <1>7
  <2> HIDE DEF B
  <2>6. /\ layers'[Base'].kind = IF NoMemoryYet' THEN "out_of_memory" ELSE "memory"
        /\ layer_num' = 1 => NoMemoryYet' /\ ~Moved(layers[Base])'
    BY <1>5, <1>18, <2>1, <2>2, <2>3, <2>5 DEF B
  <2>7. QED
    BY <1>1, <1>5, <1>11, <2>4, <2>5, <2>6 DEF Kinds
<1>21. FirstCosets'
  <2>1. ASSUME NoMemoryYet PROVE chunk = params.bound * Pow2[FoldsLeft - 1]
    <3>1. current.chunk = params.bound * Pow2[FoldsLeft]
      BY <2>1 DEF FirstCosets
    <3>2. Pow2[FoldsLeft] = 2 * Pow2[FoldsLeft - 1] /\ Pow2[FoldsLeft - 1] \in Nat
      BY <1>13, Pow2Half
    <3>3. layers[Base].kind = "out_of_memory"
      BY <1>1, <2>1 DEF Kinds
    <3>4. current.kind # "memory"
      <4>1. current.kind = "proxy" \/ layers[Base] = current
        BY BaseFacts
      <4>2. QED
        BY <3>3, <4>1
    <3>5. 2 * chunk = params.bound * (2 * Pow2[FoldsLeft - 1]) /\ params.bound \in Nat
      BY <1>2, <3>1, <3>2, <3>4, NumberFacts
    <3>6. \A x, y, z \in Nat : 2 * x = y * (2 * z) => x = y * z
      <4>1. \A y, z \in Nat : y * (2 * z) = 2 * (y * z) /\ y * z \in Nat
        OBVIOUS
      <4>2. QED
        BY <4>1
    <3>7. QED
      BY <1>2, <3>2, <3>5, <3>6
  <2>2. NoMemoryYet => coset_size = params.bound * Pow2[FoldsAfter + Step(layer_num)]
    BY <1>1 DEF FirstCosets
  <2>3. NoMemoryYet' => current'.chunk = params.bound * Pow2[FoldsLeft']
    BY <1>6, <1>7, <1>13, <1>18, <2>1
  <2>4. NoMemoryYet' => coset_size' = params'.bound * Pow2[FoldsAfter' + Step(layer_num)']
    BY <1>5, <1>11, <1>18, <2>2
  <2>5. QED
    BY <1>1, <1>5, <2>3, <2>4 DEF FirstCosets
<1>22. Decided'
  <2>1. current.size <= Pow2[params.log_memory] => half <= Pow2[params.log_memory]
    <3>1. half <= current.size /\ current.size \in Nat
      BY <1>2, ChunkCount
    <3>2. Pow2[params.log_memory] \in Nat
      BY NumberFacts, Pow2Values
    <3>3. QED
      BY <1>2, <3>1, <3>2
  <2>2. /\ layer_num = n_layers => is_in_memory
        /\ ~is_in_memory => params.bound * Pow2[FoldsAfter] >= 2 * Pow2[Step(layer_num + 1)]
        /\ is_in_memory => current.size <= Pow2[params.log_memory] \/ layer_num >= n_layers - 1
    BY <1>1 DEF Decided, Turn
  <2>3. current'.size = half
    BY <1>6, <1>7
  <2>4. QED
    BY <1>1, <1>5, <1>10, <1>11, <2>1, <2>2, <2>3 DEF Decided, Turn
<1>23. MemoryLayersStayLast'
  BY <1>5 DEF MemoryLayersStayLast
<1>24. Looped'
  BY <1>1, <1>5 DEF Looped
<1>25. QED
  BY <1>1, <1>5, <1>7, <1>9, <1>10, <1>14, <1>16, <1>17, <1>20, <1>21, <1>22, <1>23, <1>24


LEMMA FoldsDoneStep ==
  ASSUME IInv, FoldsDone
  PROVE  IInv'
<1> USE DEF IInv
<1>1. /\ pc = "fold" /\ fold = Step(layer_num)
      /\ pc' = IF ~is_in_memory \/ (first_in_memory /\ Step(layer_num) # 0) THEN "store" ELSE "fill"
      /\ UNCHANGED <<params, layers, layer_num, fold, coset_size, is_in_memory, loop, tables>>
  BY DEF FoldsDone
<1>2. first_in_memory' <=> first_in_memory /\ ~is_in_memory
  BY Zenon DEF FoldsDone
<1>3. /\ params' = params /\ layers' = layers /\ layer_num' = layer_num /\ fold' = fold
      /\ coset_size' = coset_size /\ (is_in_memory' <=> is_in_memory) /\ tables' = tables
      /\ chunk_index' = chunk_index /\ precompute' = precompute /\ gathered' = gathered
  BY <1>1 DEF loop
<1>4. layer_num \in 1 .. n_layers /\ n_layers \in Nat /\ fold \in Nat
  BY StepFacts DEF TypeOK
<1>5. /\ Parameters' /\ n_layers' = n_layers /\ StepSum' = StepSum /\ \A k : Step(k)' = Step(k)
  BY <1>3, ParametersKept
<1>6. current' = current /\ Base' = Base /\ SoundLayers' /\ Doubling'
  BY <1>3, LayersKept
<1>7. FoldsAfter' = FoldsAfter /\ Step(layer_num)' = Step(layer_num)
      /\ Step(layer_num + 1)' = Step(layer_num + 1)
  BY <1>3, <1>5 DEF FoldsAfter, Step
<1>8. Step(layer_num) \in Nat /\ FoldsAfter \in Nat /\ (layer_num > 1 => Step(layer_num) >= 1)
  BY <1>4, FoldCounts
<1>9. ToFold = 0 /\ ToFold' = 0 /\ FoldsLeft' = FoldsLeft
  <2>1. ToFold = 0
    BY <1>1, <1>8 DEF ToFold
  <2>2. ToFold' = 0
    BY <1>1 DEF ToFold
  <2>3. QED
    BY <1>7, <2>1, <2>2 DEF FoldsLeft
<1>10. pc' \in {"store", "fill"}
  BY <1>1
<1>11. pc' = "store" => first_in_memory
  BY <1>1 DEF MemoryLayersStayLast
<1>12. pc' = "fill" => is_in_memory /\ ~first_in_memory'
  BY <1>1, <1>2
<1>13. TypeOK'
  <2>1. first_in_memory' \in BOOLEAN /\ is_in_memory' \in BOOLEAN
    BY <1>1 DEF TypeOK, FoldsDone
  <2>2. QED
    BY <1>3, <1>5, <1>10, <2>1 DEF TypeOK
<1>14. Sizes'
  BY <1>3, <1>6, <1>9 DEF Sizes
<1>15. (pc' = "store" => NoMemoryYet' /\ NoMemoryYet) /\ (pc' = "fill" => ~NoMemoryYet')
  BY <1>1, <1>11, <1>12 DEF NoMemoryYet
<1>16. Kinds'
  <2>1. /\ layers[Base].kind = IF NoMemoryYet THEN "out_of_memory" ELSE "memory"
        /\ layer_num = 1 => NoMemoryYet /\ ~Moved(layers[Base])
        /\ current.kind = "proxy" <=> fold > 0
    BY <1>1 DEF Kinds
  <2>2. Moved(layers[Base])' = Moved(layers[Base])
    BY <1>3, <1>6 DEF Moved
  <2>3. CASE pc' = "store"
    BY <1>1, <1>3, <1>6, <1>7, <1>8, <1>15, <2>1, <2>2, <2>3 DEF Kinds
  <2>4. CASE pc' = "fill"
    <3>1. CASE first_in_memory
      <4>1. Step(layer_num) = 0 /\ fold = 0
        BY <1>1, <2>4, <3>1
      <4>2. current.kind = "out_of_memory"
        <5>1. current = layers[Base]
          BY <2>1, <4>1, BaseFacts
        <5>2. QED
          BY <2>1, <3>1, <5>1 DEF NoMemoryYet
      <4>3. QED
        BY <1>6, <2>4, <4>2 DEF Kinds
    <3>2. CASE ~first_in_memory
      <4>1. layers[Base].kind = "memory" /\ layer_num # 1
        BY <1>1, <2>1, <3>2 DEF NoMemoryYet
      <4>2. fold > 0
        BY <1>1, <1>4, <1>8, <4>1
      <4>3. current.kind = "proxy"
        BY <2>1, <4>2
      <4>4. QED
        BY <1>3, <1>6, <2>4, <4>1, <4>3 DEF Kinds
    <3>3. QED
      BY <3>1, <3>2
  <2>5. QED
    BY <1>10, <2>3, <2>4
<1>17. FirstCosets'
  <2>1. NoMemoryYet' => NoMemoryYet
    BY <1>10, <1>15
  <2>2. NoMemoryYet => /\ current.chunk = params.bound * Pow2[FoldsLeft]
                       /\ coset_size = params.bound * Pow2[FoldsAfter + Step(layer_num)]
    BY <1>1 DEF FirstCosets
  <2>3. QED
    BY <1>3, <1>6, <1>7, <1>9, <1>10, <2>1, <2>2 DEF FirstCosets
<1>18. Decided'
  <2>1. first_in_memory' = ~is_in_memory'
    <3>1. first_in_memory' <=> ~is_in_memory
      BY <1>2 DEF MemoryLayersStayLast
    <3>2. QED
      BY <1>3, <1>13, <3>1 DEF TypeOK
  <2>2. /\ layer_num = n_layers => is_in_memory
        /\ ~is_in_memory => params.bound * Pow2[FoldsAfter] >= 2 * Pow2[Step(layer_num + 1)]
        /\ is_in_memory => current.size <= Pow2[params.log_memory] \/ layer_num >= n_layers - 1
    BY <1>1 DEF Decided, Turn
  <2>3. QED
    BY <1>3, <1>5, <1>6, <1>7, <1>10, <1>12, <2>1, <2>2 DEF Decided, Turn
<1>19. MemoryLayersStayLast'
  BY <1>2, <1>3 DEF MemoryLayersStayLast
<1>20. Looped'
  <2>1. chunk_index' = 0 /\ precompute' = {} /\ gathered' = Gone
    BY <1>1, <1>3 DEF Looped
  <2>2. current'.chunk \in Nat /\ current'.size \in Nat
    BY <1>6, ChunkCount
  <2>3. 0 * current'.chunk <= current'.size
    BY <2>2
  <2>4. QED
    BY <1>10, <2>1, <2>3 DEF Looped
<1>21. Tabled' /\ SegmentsHaveTwoRows'
  BY <1>3 DEF Tabled, SegmentsHaveTwoRows
<1>22. QED
  BY <1>5, <1>6, <1>10, <1>13, <1>14, <1>16, <1>17, <1>18, <1>19, <1>20, <1>21

\* Above a new layer that is no proxy there are none.
LEMMA NewBase ==
  ASSUME NEW N \in Nat, NEW P \in Layers, P.kind # "proxy", current' = P,
         Len(layers') = N + 1, DOMAIN layers' = 1 .. N + 1, layers'[N + 1] = P, Base' = N + 1
  PROVE  Doubling'
<1>1. P.size \in Nat /\ P.chunk \in Nat
  BY LayerFields
<1>2. Len(layers') - Base' = 0 /\ Base' \in DOMAIN layers'
  BY SMT
<1>3. Pow2[Len(layers') - Base'] = 1
  BY <1>2, Pow2Values
<1>4. P.size * 1 = P.size /\ P.chunk * 1 = P.chunk
  BY <1>1
<1>5. Base' + 1 .. Len(layers') = {}
  BY SMT
<1>6. Proxies' = {}
  BY <1>5 DEF Proxies
<1>7. layers'[Base'] = P
  OBVIOUS
<1>8. QED
  BY <1>2, <1>3, <1>4, <1>6, <1>7 DEF Doubling

\* The first coset of the layer to be stored is its chunk.
LEMMA FirstCosetIsTheChunk ==
  ASSUME IInv, pc = "store"
  PROVE  /\ NextCosetSize = current.chunk /\ current.chunk = params.bound * Pow2[FoldsAfter]
         /\ current.size = current.chunk * params.cosets /\ FoldsLeft = FoldsAfter /\ ToFold = 0
<1> USE DEF IInv
<1>1. layer_num \in 1 .. n_layers
  BY DEF TypeOK
<1>2. Step(layer_num) \in Nat /\ FoldsAfter \in Nat
  BY <1>1, FoldCounts
<1>3. ToFold = 0 /\ FoldsLeft = FoldsAfter
  BY <1>2 DEF ToFold, FoldsLeft
<1>4. NoMemoryYet
  BY DEF NoMemoryYet
<1> DEFINE s == Step(layer_num)
           f == FoldsAfter
           A == params.bound * Pow2[f]
<1>5. current.chunk = A /\ coset_size = params.bound * Pow2[f + s]
  BY <1>3, <1>4 DEF FirstCosets
<1>6. current.size = params.bound * params.cosets * Pow2[f]
  BY <1>3 DEF Sizes
<1>7. NextCosetSize = coset_size \div Pow2[s]
  BY DEF NextCosetSize
<1>8. s \in Nat /\ f \in Nat
  BY <1>2
<1> HIDE DEF s, f
<1>9. A \in Nat /\ params.bound * params.cosets * Pow2[f] = A * params.cosets
  <2>1. f <= f
    BY <1>8
  <2>2. QED
    BY <1>8, <2>1, SizePowers
<1>10. Pow2[f + s] = Pow2[f] * Pow2[s] /\ Pow2[f] \in Nat /\ Pow2[s] \in Nat /\ Pow2[s] >= 1
  BY <1>8, Pow2Adds, Pow2Values
<1>11. params.bound * Pow2[f + s] = A * Pow2[s]
  <2>1. \A x, y, z \in Nat : x * (y * z) = (x * y) * z
    OBVIOUS
  <2>2. params.bound \in Nat
    BY NumberFacts
  <2>3. QED
    BY <1>10, <2>1, <2>2
<1> DEFINE a == A
           p == Pow2[s]
<1>12. (a * p) \div p = a
  <2>1. a \in Nat /\ p \in Nat /\ p >= 1
    BY <1>9, <1>10
  <2> HIDE DEF a, p
  <2>2. QED
    BY <2>1, ExactQuotient
<1>13. NextCosetSize = A
  BY <1>5, <1>7, <1>11, <1>12
<1>14. QED
  BY <1>3, <1>5, <1>6, <1>9, <1>13 DEF f

\* That chunk is served right although no storage is passed on for it.
LEMMA FirstCosetIsRight ==
  ASSUME IInv, pc = "store"
  PROVE  GetChunk(current.chunk, 0, {}) = Span(0, current.chunk, TRUE)
<1> USE DEF IInv
<1> DEFINE size == current.chunk
<1>1. PICK q \in Nat : /\ size \in Nat /\ size >= 1 /\ q >= 1 /\ current.size = q * size
  BY ChunkCount
<1>2. layers[Base].kind = "out_of_memory" /\ (layer_num = 1 => ~Moved(layers[Base]))
      /\ (current.kind = "proxy" <=> fold > 0) /\ fold = Step(layer_num)
  BY DEF Kinds, NoMemoryYet
<1>3. 0 \in Nat /\ 0 < q /\ 0 * size = 0
  BY <1>1
<1>4. CASE current.kind = "proxy"
  <2>1. FoldedChunk(size, 0) = Span(0 * size, size, TRUE)
    <3> DEFINE n == current.chunk
    <3>1. n \in Nat /\ n >= 1 /\ n = current.chunk /\ current.size = q * n
      BY <1>1
    <3> HIDE DEF n
    <3>2. FoldedChunk(n, 0) = Span(0 * n, n, TRUE)
      BY <1>3, <1>4, <3>1, FoldedIsRight
    <3>3. QED
      BY <3>2 DEF n
  <2>2. QED
    BY <1>3, <1>4, <2>1 DEF GetChunk
<1>5. CASE current.kind # "proxy"
  <2>1. layer_num \in 1 .. n_layers /\ n_layers \in Nat /\ fold \in Nat
    BY StepFacts DEF TypeOK
  <2>2. layer_num > 1 => Step(layer_num) >= 1
    BY <2>1, FoldCounts
  <2>3. layer_num = 1
    BY <1>2, <1>5, <2>1, <2>2
  <2>4. current = layers[Base] /\ current \in Layers
    BY <1>5, BaseFacts
  <2>5. current.kind = "out_of_memory" /\ ServesEvaluation(current, 0)
    BY <1>2, <2>3, <2>4 DEF ServesEvaluation
  <2>6. SoundLayer(current)
    BY LayerTypes DEF SoundLayers, current
  <2>7. CopiedChunk(current, current.chunk, 0, {}) = Span(0 * current.chunk, current.chunk, TRUE)
    <3> DEFINE L == current
    <3>1. /\ L \in Layers /\ L.kind = "out_of_memory" /\ SoundLayer(L) /\ L.chunk >= 1
          /\ L.size = q * L.chunk /\ ServesEvaluation(L, 0)
      BY <1>1, <2>4, <2>5, <2>6
    <3> HIDE DEF L
    <3>2. CopiedChunk(L, L.chunk, 0, {}) = Span(0 * L.chunk, L.chunk, TRUE)
      BY <1>3, <3>1, CopiedIsRight
    <3>3. QED
      BY <3>2 DEF L
  <2>8. QED
    BY <1>3, <1>5, <2>7 DEF GetChunk
<1>6. QED
  BY <1>4, <1>5

LEMMA StoreFirstCosetStep ==
  ASSUME IInv, StoreFirstCoset
  PROVE  IInv'
<1> USE DEF IInv
<1> DEFINE coset == current.chunk
           P == [kind |-> "out_of_memory", size |-> current.size, chunk |-> coset,
                 evaluation |-> Span(0, coset, TRUE), lde |-> Gone]
           N == Len(layers)
<1>1. pc = "store"
  BY DEF StoreFirstCoset
<1>2. /\ NextCosetSize = coset /\ coset = params.bound * Pow2[FoldsAfter]
      /\ current.size = coset * params.cosets /\ FoldsLeft = FoldsAfter /\ ToFold = 0
  BY <1>1, FirstCosetIsTheChunk
<1>3. GetChunk(coset, 0, {}) = Span(0, coset, TRUE)
  BY <1>1, FirstCosetIsRight
<1>4. coset \in Nat /\ coset >= 1 /\ coset <= current.size /\ current.size \in Nat
  <2>1. PICK q \in Nat : q >= 1 /\ current.size = q * coset
    BY ChunkCount
  <2>2. coset \in Nat /\ coset >= 1 /\ current.size \in Nat
    BY ChunkCount
  <2>3. \A x, y \in Nat : x >= 1 => y <= x * y
    OBVIOUS
  <2> HIDE DEF coset
  <2>4. QED
    BY <2>1, <2>2, <2>3
<1>5. ~ (coset = 0 \/ coset > current.size \/ Span(0, coset, TRUE) = Gone)
  <2>1. Span(0, coset, TRUE) # Gone
    BY DEF Span, Gone
  <2>2. coset # 0 /\ ~ (coset > current.size)
    <3> HIDE DEF coset
    <3>1. QED
      BY <1>4
  <2>3. QED
    BY <2>1, <2>2, Zenon
<1>6. /\ layers' = Append(AfterChunk(0), P) /\ coset_size' = coset
      /\ pc' = IF is_in_memory THEN "fill" ELSE "commit"
      /\ UNCHANGED <<params, layer_num, fold, is_in_memory, first_in_memory, loop, tables>>
  <2> HIDE DEF coset
  <2>1. QED
    BY <1>2, <1>3, <1>5 DEF StoreFirstCoset
<1>7. /\ params' = params /\ layer_num' = layer_num /\ fold' = fold /\ tables' = tables
      /\ is_in_memory' = is_in_memory /\ first_in_memory' = first_in_memory
      /\ chunk_index' = chunk_index /\ precompute' = precompute /\ gathered' = gathered
  BY <1>6 DEF loop
<1> HIDE DEF coset
<1>8. /\ P \in Layers /\ P.kind = "out_of_memory" /\ P.size = current.size /\ P.chunk = coset
      /\ SoundLayer(P)
  <2>1. Span(0, coset, TRUE) \in Spans /\ Gone \in Spans
    BY <1>4, SpanFacts DEF Gone
  <2>2. P \in Layers /\ P.kind = "out_of_memory" /\ P.size = current.size /\ P.chunk = coset
        /\ P.evaluation = Span(0, coset, TRUE) /\ P.lde = Gone
    BY <1>4, <2>1 DEF Layers, LayerKinds
  <2> HIDE DEF P
  <2>3. SoundLayer(P)
    BY <1>2, <2>2 DEF SoundLayer
  <2>4. QED
    BY <2>2, <2>3
<1> HIDE DEF P
<1>9. /\ layers' \in Seq(Layers) /\ Len(layers') = N + 1 /\ current' = P
      /\ DOMAIN layers' = 1 .. N + 1 /\ layers'[N + 1] = P
      /\ \A i \in 1 .. N : /\ layers'[i].kind = layers[i].kind /\ layers'[i].size = layers[i].size
                           /\ layers'[i].chunk = layers[i].chunk
      /\ SoundLayers' /\ Base' = N + 1
  <2> DEFINE chain == AfterChunk(0)
  <2>1. SameShape(chain) /\ layers' = Append(chain, P)
    BY <1>6, AfterChunkShape
  <2> HIDE DEF chain
  <2>2. QED
    BY <1>7, <1>8, <2>1, Appended
<1>10. N \in Nat /\ N >= 1 /\ layer_num \in 1 .. n_layers /\ fold \in Nat
  BY LayerTypes DEF TypeOK
<1>11. Doubling'
  <2> HIDE DEF N
  <2>1. P.kind # "proxy"
    BY <1>8
  <2>2. QED
    BY <1>8, <1>9, <1>10, <2>1, NewBase
<1>12. Tabled' /\ SegmentsHaveTwoRows'
      /\ tables' \in Seq([layer : 1 .. Len(layers'), step : Nat, given : Spans,
                          answers : {"none", "right", "wrong"}])
  <2>1. Len(layers') \in Nat /\ Len(layers') >= Len(layers)
    BY <1>9, <1>10
  <2>2. QED
    BY <1>7, <1>9, <2>1, TablesKept
<1>13. /\ Parameters' /\ n_layers' = n_layers /\ StepSum' = StepSum /\ \A k : Step(k)' = Step(k)
  BY <1>7, ParametersKept
<1>14. FoldsAfter' = FoldsAfter /\ Step(layer_num + 1)' = Step(layer_num + 1)
  BY <1>7, <1>13 DEF FoldsAfter, Step
<1>15. pc' \in {"fill", "commit"}
  BY <1>6
<1>16. ToFold' = 0 /\ FoldsLeft' = FoldsLeft
  <2>1. ToFold' = 0
    BY <1>15 DEF ToFold
  <2>2. QED
    BY <1>2, <1>14, <2>1 DEF FoldsLeft
<1>17. TypeOK'
  <2>1. Len(layers') > 0
    BY <1>9, <1>10
  <2>2. coset_size' \in Nat
    BY <1>4, <1>6
  <2>3. QED
    BY <1>7, <1>9, <1>12, <1>13, <1>15, <2>1, <2>2 DEF TypeOK
<1>18. Sizes'
  <2>1. /\ current.size = params.bound * params.cosets * Pow2[FoldsLeft]
        /\ \E h, g \in Nat : current.chunk = Pow2[h + ToFold] /\ current.size = Pow2[h + ToFold + g]
    BY DEF Sizes
  <2>2. current'.size = current.size /\ current'.chunk = current.chunk /\ current'.kind # "proxy"
    BY <1>8, <1>9 DEF coset
  <2>3. ToFold' = ToFold
    BY <1>2, <1>16
  <2>4. QED
    BY <1>7, <1>16, <2>1, <2>2, <2>3 DEF Sizes
<1>19. first_in_memory = ~is_in_memory
  BY <1>1 DEF Decided
<1>20. Kinds'
  <2>1. pc' = "commit" => first_in_memory'
    BY <1>6, <1>7, <1>19
  <2>2. current'.kind = "out_of_memory"
    BY <1>8, <1>9
  <2>3. QED
    BY <1>15, <2>1, <2>2 DEF Kinds
<1>21. FirstCosets'
  <2>1. current'.chunk = coset /\ coset = params'.bound * Pow2[FoldsLeft']
        /\ coset_size' = params'.bound * Pow2[FoldsAfter']
    BY <1>2, <1>6, <1>7, <1>8, <1>9, <1>14, <1>16
  <2>2. QED
    BY <1>15, <2>1 DEF FirstCosets
<1>22. Decided'
  <2>1. /\ layer_num = n_layers => is_in_memory
        /\ ~is_in_memory => params.bound * Pow2[FoldsAfter] >= 2 * Pow2[Step(layer_num + 1)]
        /\ is_in_memory => current.size <= Pow2[params.log_memory] \/ layer_num >= n_layers - 1
    BY <1>1 DEF Decided, Turn
  <2>2. current'.size = current.size
    BY <1>8, <1>9
  <2>3. QED
    BY <1>6, <1>7, <1>13, <1>14, <1>15, <1>19, <2>1, <2>2 DEF Decided, Turn
<1>23. MemoryLayersStayLast'
  BY <1>7 DEF MemoryLayersStayLast
<1>24. Looped'
  <2>1. chunk_index' = 0 /\ precompute' = {} /\ gathered' = Gone
    BY <1>1, <1>7 DEF Looped
  <2>2. current'.chunk \in Nat /\ current'.size \in Nat
    BY <1>4, <1>8, <1>9
  <2>3. 0 * current'.chunk <= current'.size
    BY <2>2
  <2>4. QED
    BY <1>15, <2>1, <2>3 DEF Looped
<1>25. QED
  BY <1>9, <1>11, <1>12, <1>13, <1>15, <1>17, <1>18, <1>20, <1>21, <1>22, <1>23, <1>24

-----------------------------------------------------------------------------
\* The loops.

\* What does not depend on which layers have been extended already.
LEMMA ShapeKept ==
  ASSUME IInv, NEW chain, SameShape(chain), layers' = chain, pc \in {"fill", "commit", "decommit"},
         params' = params, layer_num' = layer_num, pc' = pc, fold' = fold, coset_size' = coset_size,
         is_in_memory' = is_in_memory, first_in_memory' = first_in_memory
  PROVE  /\ layers' \in Seq(Layers) /\ Len(layers') = Len(layers)
         /\ \A i \in 1 .. Len(layers) :
              /\ layers'[i].kind = layers[i].kind /\ layers'[i].size = layers[i].size
              /\ layers'[i].chunk = layers[i].chunk
         /\ current'.kind = current.kind /\ current'.size = current.size
         /\ current'.chunk = current.chunk
         /\ n_layers' = n_layers
         /\ Parameters' /\ SoundLayers' /\ Sizes' /\ Doubling' /\ Kinds' /\ FirstCosets' /\ Decided'
         /\ MemoryLayersStayLast'
<1> USE DEF IInv
<1> DEFINE N == Len(layers)
<1>1. N \in Nat /\ N >= 1 /\ DOMAIN layers = 1 .. N
  BY LayerTypes
<1>2. /\ chain \in Seq(Layers) /\ Len(chain) = N
      /\ \A i \in 1 .. N : /\ chain[i].kind = layers[i].kind /\ chain[i].size = layers[i].size
                           /\ chain[i].chunk = layers[i].chunk /\ SoundLayer(chain[i])
  BY DEF SameShape
<1>3. DOMAIN chain = 1 .. N
  <2> HIDE DEF N
  <2>1. QED
    BY <1>1, <1>2
<1>4. /\ Parameters' /\ n_layers' = n_layers /\ StepSum' = StepSum /\ \A k : Step(k)' = Step(k)
  BY ParametersKept
<1>5. current'.kind = current.kind /\ current'.size = current.size /\ current'.chunk = current.chunk
  <2>1. current' = chain[N] /\ current = layers[N]
    <3>1. current' = chain[Len(chain)]
      BY DEF current
    <3>2. QED
      BY <1>2, <3>1 DEF current
  <2>2. N \in 1 .. N
    BY <1>1
  <2>3. QED
    BY <1>2, <2>1, <2>2
<1>6. SoundLayers'
  <2>1. \A L : SoundLayer(L)' <=> SoundLayer(L)
    BY DEF SoundLayer
  <2>2. \A i \in DOMAIN layers' : SoundLayer(layers'[i])
    BY <1>2, <1>3
  <2>3. QED
    BY <2>2 DEF SoundLayers, SoundLayer
<1> DEFINE B == Base
<1>7. B \in 1 .. N /\ layers[B].kind # "proxy" /\ \A i \in B + 1 .. N : layers[i].kind = "proxy"
  BY BaseFacts
<1>8. Base' = B
  <2>1. Base' = BaseOf(chain)
    BY DEF Base, BaseOf
  <2> HIDE DEF B, N
  <2>2. \A i \in B + 1 .. N : i \in 1 .. N
    BY <1>1, <1>7
  <2>3. /\ B \in 1 .. Len(chain) /\ Len(chain) \in Nat /\ DOMAIN chain = 1 .. Len(chain)
        /\ chain[B].kind # "proxy" /\ \A i \in B + 1 .. Len(chain) : chain[i].kind = "proxy"
    BY <1>1, <1>2, <1>3, <1>7, <2>2
  <2>4. BaseOf(chain) = B
    BY <2>3, BaseUnique
  <2>5. QED
    BY <2>1, <2>4
<1>9. FoldsAfter' = FoldsAfter /\ Step(layer_num)' = Step(layer_num)
      /\ Step(layer_num + 1)' = Step(layer_num + 1)
  BY <1>4 DEF FoldsAfter, Step
<1>10. ToFold' = ToFold /\ FoldsLeft' = FoldsLeft
  <2>1. ToFold' = ToFold
    BY DEF ToFold
  <2>2. QED
    BY <1>9, <2>1 DEF FoldsLeft
<1>11. Sizes'
  BY <1>5, <1>10 DEF Sizes
<1>12. Doubling'
  <2>1. /\ \A i \in B + 1 .. N : /\ layers[i].size = current.size * Pow2[N - i]
                                 /\ layers[i].chunk = current.chunk * Pow2[N - i]
        /\ layers[B].size = current.size * Pow2[N - B]
        /\ layers[B].kind = "out_of_memory" => layers[B].chunk = current.chunk * Pow2[N - B]
    BY DEF Doubling, Proxies
  <2>2. Len(layers') = N /\ Base' \in DOMAIN layers' /\ Proxies' = B + 1 .. N
    BY <1>2, <1>3, <1>7, <1>8 DEF Proxies
  <2> HIDE DEF B, N
  <2>3. \A i \in B + 1 .. N : i \in 1 .. N
    BY <1>1, <1>7
  <2>4. QED
    BY <1>2, <1>5, <1>7, <1>8, <2>1, <2>2, <2>3 DEF Doubling
<1>13. NoMemoryYet' = NoMemoryYet
  BY DEF NoMemoryYet
<1>14. Kinds'
  <2>1. layers'[Base'].kind = layers[Base].kind
    BY <1>2, <1>7, <1>8
  <2>2. QED
    BY <1>5, <2>1 DEF Kinds
<1>15. FirstCosets'
  BY <1>5, <1>9, <1>10, <1>13 DEF FirstCosets
<1>16. Decided'
  BY <1>4, <1>5, <1>9 DEF Decided, Turn
<1>17. MemoryLayersStayLast'
  BY DEF MemoryLayersStayLast
<1>18. QED
  BY <1>2, <1>4, <1>5, <1>6, <1>11, <1>12, <1>14, <1>15, <1>16, <1>17

\* A turn of a loop that was given the right chunk goes on with the whole so far.
LEMMA GatherNext ==
  ASSUME NEW c \in Nat, c >= 1, NEW i \in Nat, chunk_index = i,
         gathered = IF i = 0 THEN Gone ELSE Span(0, i * c, TRUE)
  PROVE  Gather(Span(i * c, c, TRUE)) = Span(0, (i + 1) * c, TRUE)
<1> DEFINE s == Span(i * c, c, TRUE)
<1>1. i * c \in Nat /\ (i + 1) * c = i * c + c
  OBVIOUS
<1>2. s.from = i * c /\ s.n = c /\ s.right = TRUE
  BY DEF Span
<1>3. gathered.n = i * c /\ (i > 0 => gathered.right = TRUE)
  <2>1. CASE i = 0
    BY <2>1 DEF Gone, Span
  <2>2. CASE i # 0
    BY <2>2 DEF Span
  <2>3. QED
    BY <2>1, <2>2
<1> DEFINE r == s.right /\ s.from = gathered.n /\ (chunk_index > 0 => gathered.right)
<1>4. r = TRUE
  BY <1>2, <1>3
<1>5. Gather(s) = Span(0, gathered.n + s.n, r)
  BY DEF Gather
<1> HIDE DEF s, r
<1>6. Gather(s) = Span(0, (i + 1) * c, TRUE)
  BY <1>1, <1>2, <1>3, <1>4, <1>5
<1>7. QED
  BY <1>6 DEF s

\* The twiddle factors that the storage of the loop holds are shifted to its coset.
LEMMA TwiddlesFollow ==
  ASSUME IInv, pc = "fill", current.kind = "out_of_memory"
  PROVE  \/ ServesEvaluation(current, chunk_index) /\ GetPrecomputedFft(chunk_index) = {} /\ chunk_index = 0
         \/ GetPrecomputedFft(chunk_index) = {chunk_index}
<1> USE DEF IInv
<1> DEFINE i == chunk_index
<1>1. i \in Nat /\ current.kind # "proxy"
  BY DEF TypeOK
<1>2. \/ precompute = {} /\ i <= 1
      \/ precompute = {i - 1} /\ i >= 1
  <2>1. pc = "fill" => \/ precompute = {} /\ i <= 1
                       \/ precompute = {i - 1} /\ i >= 1
                       \/ current.kind = "proxy"
    BY DEF Looped
  <2>2. QED
    BY <1>1, <2>1
<1>3. CASE ServesEvaluation(current, i)
  <2>1. GetPrecomputedFft(i) = precompute /\ i = 0
    BY <1>3 DEF GetPrecomputedFft, ServesEvaluation
  <2>2. QED
    BY <1>2, <1>3, <2>1
<1>4. CASE ~ServesEvaluation(current, i)
  <2> DEFINE held == IF precompute = {} THEN {0} ELSE precompute
  <2>1. GetPrecomputedFft(i) = IF i > 0 THEN {Shift(p, i) : p \in held} ELSE held
    BY <1>4 DEF GetPrecomputedFft
  <2>2. i > 0 => held = {i - 1}
    BY <1>1, <1>2
  <2>3. i = 0 => held = {0}
    BY <1>1, <1>2
  <2> HIDE DEF held
  <2>4. CASE i = 0
    BY <2>1, <2>3, <2>4
  <2>5. CASE i > 0
    <3>1. Shift(i - 1, i) = i
      BY <1>1, <2>5 DEF Shift
    <3>2. GetPrecomputedFft(i) = {Shift(i - 1, i)}
      BY <2>1, <2>2, <2>5
    <3>3. QED
      BY <3>1, <3>2
  <2>6. QED
    BY <1>1, <2>4, <2>5
<1>5. QED
  BY <1>3, <1>4

\* GetAllEvaluation is served the right chunk, by a proxy or by a layer whose LDE
\* uses those factors.
LEMMA FilledIsRight ==
  ASSUME IInv, pc = "fill", ChunksLeft
  PROVE  GetChunk(current.chunk, chunk_index, GetPrecomputedFft(chunk_index))
           = Span(chunk_index * current.chunk, current.chunk, TRUE)
<1> USE DEF IInv
<1> DEFINE c == current.chunk
           i == chunk_index
           twiddles == GetPrecomputedFft(i)
<1>1. PICK q \in Nat : q >= 1 /\ current.size = q * c /\ current.size \div c = q
  BY ChunkCount
<1>2. c \in Nat /\ c >= 1
  BY ChunkCount
<1>3. i \in Nat
  BY DEF TypeOK
<1>4. i < q
  BY <1>1 DEF ChunksLeft
<1>5. CASE current.kind = "proxy"
  <2>1. FoldedChunk(c, i) = Span(i * c, c, TRUE)
    <3>1. c = current.chunk
      OBVIOUS
    <3> HIDE DEF c, i
    <3>2. QED
      BY <1>1, <1>2, <1>3, <1>4, <1>5, <3>1, FoldedIsRight
  <2>2. QED
    BY <1>5, <2>1 DEF GetChunk
<1>6. CASE current.kind # "proxy"
  <2>1. current.kind = "out_of_memory"
    BY <1>6 DEF Kinds
  <2>2. current \in Layers
    BY LayerTypes
  <2>3. SoundLayer(current)
    BY LayerTypes DEF SoundLayers, current
  <2>4. ServesEvaluation(current, i) \/ twiddles = {i}
    BY <2>1, TwiddlesFollow
  <2>5. CopiedChunk(current, c, i, twiddles) = Span(i * c, c, TRUE)
    <3> DEFINE L == current
    <3>1. /\ L \in Layers /\ L.kind = "out_of_memory" /\ SoundLayer(L) /\ c >= 1 /\ c = L.chunk
          /\ L.size = q * c /\ (ServesEvaluation(L, i) \/ twiddles = {i})
      BY <1>1, <1>2, <2>1, <2>2, <2>3, <2>4
    <3> HIDE DEF L, c, i, twiddles
    <3>2. CopiedChunk(L, L.chunk, i, twiddles) = Span(i * L.chunk, L.chunk, TRUE)
      BY <1>3, <1>4, <3>1, CopiedIsRight
    <3>3. QED
      BY <3>1, <3>2 DEF L
  <2>6. QED
    BY <1>6, <2>5 DEF GetChunk
<1>7. QED
  BY <1>5, <1>6

LEMMA FillChunkStep ==
  ASSUME IInv, FillChunk
  PROVE  IInv'
<1> USE DEF IInv
<1> DEFINE c == current.chunk
           i == chunk_index
           twiddles == GetPrecomputedFft(i)
           chunk == Span(i * c, c, TRUE)
<1>1. pc = "fill" /\ ChunksLeft
  BY DEF FillChunk
<1>2. GetChunk(c, i, twiddles) = chunk
  BY <1>1, FilledIsRight
<1>3. PICK q \in Nat : q >= 1 /\ current.size = q * c /\ current.size \div c = q
  BY ChunkCount
<1>4. c \in Nat /\ c >= 1 /\ i \in Nat
  BY ChunkCount DEF TypeOK
<1>5. i < q
  BY <1>1, <1>3 DEF ChunksLeft
<1>6. chunk # Gone
  BY DEF Span, Gone
<1>7. /\ gathered' = Gather(chunk) /\ layers' = AfterChunk(i)
      /\ precompute' = twiddles /\ chunk_index' = i + 1
      /\ UNCHANGED <<params, layer_num, pc, fold, choice, tables>>
  <2> HIDE DEF chunk
  <2>1. QED
    BY <1>2, <1>6 DEF FillChunk
<1>8. /\ params' = params /\ layer_num' = layer_num /\ pc' = pc /\ fold' = fold /\ tables' = tables
      /\ is_in_memory' = is_in_memory /\ first_in_memory' = first_in_memory
      /\ coset_size' = coset_size
  BY <1>7 DEF choice
<1>9. gathered = IF i = 0 THEN Gone ELSE Span(0, i * c, TRUE)
  BY <1>1 DEF Looped
<1>10. Gather(chunk) = Span(0, (i + 1) * c, TRUE)
  <2>1. chunk_index = i
    OBVIOUS
  <2> HIDE DEF c, i
  <2>2. Gather(Span(i * c, c, TRUE)) = Span(0, (i + 1) * c, TRUE)
    BY <1>4, <1>9, <2>1, GatherNext
  <2>3. QED
    BY <2>2 DEF c, i
<1>11. /\ layers' \in Seq(Layers) /\ Len(layers') = Len(layers)
       /\ \A j \in 1 .. Len(layers) :
            /\ layers'[j].kind = layers[j].kind /\ layers'[j].size = layers[j].size
            /\ layers'[j].chunk = layers[j].chunk
       /\ current'.kind = current.kind /\ current'.size = current.size
       /\ current'.chunk = current.chunk /\ n_layers' = n_layers
       /\ Parameters' /\ SoundLayers' /\ Sizes' /\ Doubling' /\ Kinds' /\ FirstCosets' /\ Decided'
       /\ MemoryLayersStayLast'
  <2> DEFINE chain == AfterChunk(i)
  <2>1. SameShape(chain) /\ layers' = chain
    BY <1>7, AfterChunkShape
  <2> HIDE DEF chain
  <2>2. QED
    BY <1>1, <1>8, <2>1, ShapeKept
<1>12. Len(layers) \in Nat /\ Len(layers) >= 1
  BY LayerTypes
<1>13. Tabled' /\ SegmentsHaveTwoRows'
       /\ tables' \in Seq([layer : 1 .. Len(layers'), step : Nat, given : Spans,
                           answers : {"none", "right", "wrong"}])
  BY <1>8, <1>11, <1>12, TablesKept
<1> DEFINE n == (i + 1) * c
<1>14. n \in Nat /\ n <= current.size /\ i + 1 \in Nat /\ i + 1 # 0
  <2>1. \A x, y, z \in Nat : x <= y => x * z <= y * z /\ x * z \in Nat
    OBVIOUS
  <2>2. i + 1 <= q /\ i + 1 \in Nat
    BY <1>4, <1>5
  <2>3. n <= q * c /\ n \in Nat
    <3> HIDE DEF c, i
    <3>1. (i + 1) * c <= q * c /\ (i + 1) * c \in Nat
      BY <1>4, <2>1, <2>2
    <3>2. QED
      BY <3>1
  <2>4. i + 1 # 0
    BY <1>4
  <2> HIDE DEF n
  <2>5. QED
    BY <1>3, <2>2, <2>3, <2>4
<1>15. gathered' = Span(0, n, TRUE)
  BY <1>7, <1>10
<1> DEFINE Followed == \/ precompute' = {} /\ chunk_index' <= 1
                       \/ precompute' = {chunk_index' - 1} /\ chunk_index' >= 1
                       \/ current'.kind = "proxy"
<1>16. Followed /\ precompute' \subseteq Nat
  <2>1. CASE current.kind = "proxy"
    <3>1. GetPrecomputedFft(i) = precompute
      BY <2>1 DEF GetPrecomputedFft
    <3>2. precompute \subseteq Nat
      BY DEF TypeOK
    <3>3. QED
      BY <1>7, <1>11, <2>1, <3>1, <3>2
  <2>2. CASE current.kind # "proxy"
    <3>1. current.kind = "out_of_memory"
      BY <1>1, <2>2 DEF Kinds
    <3>2. \/ twiddles = {} /\ i = 0
          \/ twiddles = {i}
      BY <1>1, <3>1, TwiddlesFollow
    <3> HIDE DEF twiddles
    <3>3. CASE twiddles = {} /\ i = 0
      BY <1>7, <3>3
    <3>4. CASE twiddles = {i}
      <4>1. (i + 1) - 1 = i /\ i + 1 >= 1
        BY <1>4
      <4>2. QED
        BY <1>4, <1>7, <3>4, <4>1
    <3>5. QED
      BY <3>2, <3>3, <3>4
  <2>3. QED
    BY <2>1, <2>2
<1>17. TypeOK'
  <2>1. Span(0, n, TRUE) \in Spans
    <3> HIDE DEF n
    <3>1. QED
      BY <1>14, SpanFacts
  <2>2. Len(layers') > 0 /\ chunk_index' \in Nat /\ gathered' \in Spans
    <3>1. Len(layers') > 0
      BY <1>11, <1>12
    <3>2. chunk_index' \in Nat
      BY <1>7, <1>14
    <3> HIDE DEF n
    <3>3. QED
      BY <1>15, <2>1, <3>1, <3>2
  <2> HIDE DEF Followed
  <2>3. QED
    BY <1>8, <1>11, <1>13, <1>16, <2>2 DEF TypeOK
<1>18. Looped'
  <2>1. chunk_index' # 0 /\ chunk_index' * current'.chunk = n /\ current'.size = current.size
    BY <1>7, <1>11, <1>14
  <2> HIDE DEF n
  <2>2. chunk_index' * current'.chunk <= current'.size
    BY <1>14, <2>1
  <2>3. gathered' = IF chunk_index' = 0 THEN Gone ELSE Span(0, chunk_index' * current'.chunk, TRUE)
    BY <1>15, <2>1
  <2>4. Followed
    BY <1>16
  <2> HIDE DEF Followed
  <2>5. pc' = "fill"
    BY <1>1, <1>8
  <2>6. QED
    BY <2>2, <2>3, <2>4, <2>5 DEF Looped, Followed
<1>19. pc' # "abort"
  BY <1>1, <1>8
<1>20. QED
  BY <1>11, <1>13, <1>17, <1>18, <1>19

\* When a loop over the chunks ends, what it has gathered is the layer.
LEMMA LoopEnded ==
  ASSUME IInv, pc \in {"fill", "commit"}, ~ChunksLeft
  PROVE  gathered = Span(0, current.size, TRUE)
<1> USE DEF IInv
<1> DEFINE c == current.chunk
           i == chunk_index
<1>1. PICK q \in Nat : q >= 1 /\ current.size = q * c /\ current.size \div c = q
  BY ChunkCount
<1>2. c \in Nat /\ c >= 1 /\ i \in Nat
  BY ChunkCount DEF TypeOK
<1>3. ~ (i < q)
  BY <1>1 DEF ChunksLeft
<1>4. i * c <= current.size /\ gathered = IF i = 0 THEN Gone ELSE Span(0, i * c, TRUE)
  BY DEF Looped
<1> HIDE DEF c, i
<1>5. ~ (i > q)
  <2>1. \A x, y, z \in Nat : x + 1 <= y => (x + 1) * z <= y * z /\ (x + 1) * z = x * z + z
    OBVIOUS
  <2>2. \A x, z \in Nat : x * z \in Nat
    OBVIOUS
  <2>3. i > q => q + 1 <= i
    BY <1>2
  <2>4. q * c \in Nat /\ i * c \in Nat
    BY <1>2, <2>2
  <2>5. i > q => q * c + c <= i * c
    BY <1>2, <2>1, <2>3
  <2>6. QED
    BY <1>1, <1>2, <1>4, <2>4, <2>5
<1>6. i = q /\ i # 0
  BY <1>1, <1>2, <1>3, <1>5
<1>7. QED
  BY <1>1, <1>4, <1>6

LEMMA FillEndsStep ==
  ASSUME IInv, FillEnds
  PROVE  IInv'
<1> USE DEF IInv
<1> DEFINE size == current.size
           P == [kind |-> "memory", size |-> size, chunk |-> size,
                 evaluation |-> gathered, lde |-> Gone]
           N == Len(layers)
<1>1. /\ pc = "fill" /\ ~ChunksLeft
      /\ layers' = Append(layers, P)
      /\ chunk_index' = 0 /\ precompute' = {} /\ gathered' = Gone
      /\ pc' = IF layer_num = n_layers THEN "decommit" ELSE "commit"
      /\ UNCHANGED <<params, layer_num, fold, choice, tables>>
  BY DEF FillEnds, LoopEnds
<1>2. /\ params' = params /\ layer_num' = layer_num /\ fold' = fold /\ tables' = tables
      /\ is_in_memory' = is_in_memory /\ first_in_memory' = first_in_memory
      /\ coset_size' = coset_size
  BY <1>1 DEF choice
<1>3. gathered = Span(0, size, TRUE)
  BY <1>1, LoopEnded
<1>4. size \in Nat
  BY ChunkCount
<1> HIDE DEF size
<1>5. /\ P \in Layers /\ P.kind = "memory" /\ P.size = size /\ P.chunk = size /\ SoundLayer(P)
  <2>1. Span(0, size, TRUE) \in Spans /\ Gone \in Spans
    BY <1>4, SpanFacts DEF Gone
  <2>2. P \in Layers /\ P.kind = "memory" /\ P.size = size /\ P.chunk = size
        /\ P.evaluation = Span(0, size, TRUE)
    BY <1>3, <1>4, <2>1 DEF Layers, LayerKinds
  <2> HIDE DEF P
  <2>3. SoundLayer(P)
    BY <2>2 DEF SoundLayer
  <2>4. QED
    BY <2>2, <2>3
<1> HIDE DEF P
<1>6. /\ layers' \in Seq(Layers) /\ Len(layers') = N + 1 /\ current' = P
      /\ DOMAIN layers' = 1 .. N + 1 /\ layers'[N + 1] = P
      /\ \A i \in 1 .. N : /\ layers'[i].kind = layers[i].kind /\ layers'[i].size = layers[i].size
                           /\ layers'[i].chunk = layers[i].chunk
      /\ SoundLayers' /\ Base' = N + 1
  <2>1. SameShape(layers)
    BY ShapeOfLayers
  <2>2. QED
    BY <1>1, <1>2, <1>5, <2>1, Appended
<1>7. N \in Nat /\ N >= 1 /\ layer_num \in 1 .. n_layers
  BY LayerTypes DEF TypeOK
<1>8. Doubling'
  <2> HIDE DEF N
  <2>1. P.kind # "proxy"
    BY <1>5
  <2>2. QED
    BY <1>5, <1>6, <1>7, <2>1, NewBase
<1>9. Tabled' /\ SegmentsHaveTwoRows'
      /\ tables' \in Seq([layer : 1 .. Len(layers'), step : Nat, given : Spans,
                          answers : {"none", "right", "wrong"}])
  <2>1. Len(layers') \in Nat /\ Len(layers') >= Len(layers)
    BY <1>6, <1>7
  <2>2. QED
    BY <1>2, <1>6, <2>1, TablesKept
<1>10. /\ Parameters' /\ n_layers' = n_layers /\ StepSum' = StepSum /\ \A k : Step(k)' = Step(k)
  BY <1>2, ParametersKept
<1>11. FoldsAfter' = FoldsAfter
  BY <1>2, <1>10 DEF FoldsAfter
<1>12. pc' \in {"decommit", "commit"}
  BY <1>1
<1>13. ToFold = 0 /\ ToFold' = 0 /\ FoldsLeft' = FoldsLeft
  <2>1. ToFold = 0 /\ ToFold' = 0
    BY <1>1, <1>12 DEF ToFold
  <2>2. QED
    BY <1>11, <2>1 DEF FoldsLeft
<1>14. TypeOK'
  <2>1. Len(layers') > 0
    BY <1>6, <1>7
  <2>2. Gone \in Spans
    BY DEF Gone, Span, Spans
  <2>3. QED
    BY <1>1, <1>2, <1>6, <1>9, <1>10, <1>12, <2>1, <2>2 DEF TypeOK
<1>15. Sizes'
  <2>1. PICK h \in Nat, g \in Nat : size = Pow2[h + ToFold + g]
    BY DEF Sizes, size
  <2>2. (h + g) + ToFold' = h + ToFold + g /\ (h + g) + ToFold' + 0 = h + ToFold + g
        /\ h + g \in Nat
    BY <1>13
  <2>3. \E x, y \in Nat : size = Pow2[x + ToFold'] /\ size = Pow2[x + ToFold' + y]
    BY <2>1, <2>2
  <2>4. size = params.bound * params.cosets * Pow2[FoldsLeft]
    BY DEF Sizes, size
  <2>5. current'.size = size /\ current'.chunk = size /\ current'.kind = "memory"
    BY <1>5, <1>6
  <2>6. current'.size = params'.bound * params'.cosets * Pow2[FoldsLeft']
    BY <1>2, <1>13, <2>4, <2>5
  <2>7. \E x, y \in Nat : current'.chunk = Pow2[x + ToFold'] /\ current'.size = Pow2[x + ToFold' + y]
    BY <2>3, <2>5
  <2>8. QED
    BY <2>5, <2>6, <2>7 DEF Sizes
<1>16. is_in_memory /\ ~first_in_memory
  BY <1>1 DEF Decided
<1>17. Kinds'
  BY <1>2, <1>5, <1>6, <1>12, <1>16 DEF Kinds
<1>18. FirstCosets'
  BY <1>2, <1>12, <1>16 DEF FirstCosets, NoMemoryYet
<1>19. Decided'
  <2>1. /\ current.size <= Pow2[params.log_memory] \/ layer_num >= n_layers - 1
        /\ first_in_memory = ~is_in_memory
    BY <1>1, <1>16 DEF Decided, Turn
  <2>2. current'.size = current.size
    BY <1>5, <1>6 DEF size
  <2>3. QED
    BY <1>1, <1>2, <1>10, <1>12, <1>16, <2>1, <2>2 DEF Decided, Turn
<1>20. MemoryLayersStayLast'
  BY <1>2 DEF MemoryLayersStayLast
<1>21. Looped'
  <2>1. 0 * current'.chunk <= current'.size
    BY <1>4, <1>5, <1>6
  <2>2. QED
    BY <1>1, <1>12, <2>1 DEF Looped
<1>22. QED
  BY <1>6, <1>8, <1>9, <1>10, <1>12, <1>14, <1>15, <1>17, <1>18, <1>19, <1>20, <1>21

LEMMA CommitChunkStep ==
  ASSUME IInv, CommitChunk
  PROVE  IInv'
<1> USE DEF IInv
<1> DEFINE c == current.chunk
           i == chunk_index
           chunk == Span(i * c, c, TRUE)
<1>1. pc = "commit" /\ ChunksLeft
  BY DEF CommitChunk
<1>2. PICK q \in Nat : q >= 1 /\ current.size = q * c /\ current.size \div c = q
  BY ChunkCount
<1>3. c \in Nat /\ c >= 1 /\ i \in Nat
  BY ChunkCount DEF TypeOK
<1>4. i < q
  BY <1>1, <1>2 DEF ChunksLeft
<1>5. StoredChunk(current, c, i) = chunk
  <2>1. current \in Layers /\ current.kind \in {"memory", "out_of_memory"}
    BY <1>1, LayerTypes DEF Kinds
  <2>2. SoundLayer(current)
    BY LayerTypes DEF SoundLayers, current
  <2> DEFINE L == current
  <2>3. c = L.chunk /\ L \in Layers /\ L.kind \in {"memory", "out_of_memory"} /\ SoundLayer(L)
        /\ L.size = q * c
    BY <1>2, <2>1, <2>2
  <2> HIDE DEF L, c, i
  <2>4. StoredChunk(L, c, i) = Span(i * c, c, TRUE)
    BY <1>3, <1>4, <2>3, StoredIsRight
  <2>5. QED
    BY <2>4 DEF L, c, i
<1>6. chunk # Gone
  BY DEF Span, Gone
<1>7. /\ gathered' = Gather(chunk) /\ layers' = AfterChunk(i) /\ chunk_index' = i + 1
      /\ UNCHANGED <<params, layer_num, pc, fold, choice, precompute, tables>>
  <2> HIDE DEF chunk
  <2>1. QED
    BY <1>5, <1>6 DEF CommitChunk
<1>8. /\ params' = params /\ layer_num' = layer_num /\ pc' = pc /\ fold' = fold /\ tables' = tables
      /\ is_in_memory' = is_in_memory /\ first_in_memory' = first_in_memory
      /\ coset_size' = coset_size /\ precompute' = precompute
  BY <1>7 DEF choice
<1>9. gathered = IF i = 0 THEN Gone ELSE Span(0, i * c, TRUE)
  BY <1>1 DEF Looped
<1>10. Gather(chunk) = Span(0, (i + 1) * c, TRUE)
  <2>1. chunk_index = i
    OBVIOUS
  <2> HIDE DEF c, i
  <2>2. Gather(Span(i * c, c, TRUE)) = Span(0, (i + 1) * c, TRUE)
    BY <1>3, <1>9, <2>1, GatherNext
  <2>3. QED
    BY <2>2 DEF c, i
<1>11. /\ layers' \in Seq(Layers) /\ Len(layers') = Len(layers)
       /\ \A j \in 1 .. Len(layers) :
            /\ layers'[j].kind = layers[j].kind /\ layers'[j].size = layers[j].size
            /\ layers'[j].chunk = layers[j].chunk
       /\ current'.kind = current.kind /\ current'.size = current.size
       /\ current'.chunk = current.chunk /\ n_layers' = n_layers
       /\ Parameters' /\ SoundLayers' /\ Sizes' /\ Doubling' /\ Kinds' /\ FirstCosets' /\ Decided'
       /\ MemoryLayersStayLast'
  <2> DEFINE chain == AfterChunk(i)
  <2>1. SameShape(chain) /\ layers' = chain
    BY <1>7, AfterChunkShape
  <2> HIDE DEF chain
  <2>2. QED
    BY <1>1, <1>8, <2>1, ShapeKept
<1>12. Len(layers) \in Nat /\ Len(layers) >= 1
  BY LayerTypes
<1>13. Tabled' /\ SegmentsHaveTwoRows'
       /\ tables' \in Seq([layer : 1 .. Len(layers'), step : Nat, given : Spans,
                           answers : {"none", "right", "wrong"}])
  BY <1>8, <1>11, <1>12, TablesKept
<1> DEFINE n == (i + 1) * c
<1>14. n \in Nat /\ n <= current.size /\ i + 1 \in Nat /\ i + 1 # 0
  <2>1. \A x, y, z \in Nat : x <= y => x * z <= y * z /\ x * z \in Nat
    OBVIOUS
  <2>2. i + 1 <= q /\ i + 1 \in Nat
    BY <1>3, <1>4
  <2>3. n <= q * c /\ n \in Nat
    <3> HIDE DEF c, i
    <3>1. (i + 1) * c <= q * c /\ (i + 1) * c \in Nat
      BY <1>3, <2>1, <2>2
    <3>2. QED
      BY <3>1
  <2>4. i + 1 # 0
    BY <1>3
  <2> HIDE DEF n
  <2>5. QED
    BY <1>2, <2>2, <2>3, <2>4
<1>15. gathered' = Span(0, n, TRUE)
  BY <1>7, <1>10
<1>16. TypeOK'
  <2>1. Span(0, n, TRUE) \in Spans
    <3> HIDE DEF n
    <3>1. QED
      BY <1>14, SpanFacts
  <2>2. Len(layers') > 0 /\ chunk_index' \in Nat /\ gathered' \in Spans
    <3>1. Len(layers') > 0
      BY <1>11, <1>12
    <3>2. chunk_index' \in Nat
      BY <1>7, <1>14
    <3> HIDE DEF n
    <3>3. QED
      BY <1>15, <2>1, <3>1, <3>2
  <2>3. QED
    BY <1>8, <1>11, <1>13, <2>2 DEF TypeOK
<1>17. Looped'
  <2>1. chunk_index' # 0 /\ chunk_index' * current'.chunk = n /\ current'.size = current.size
    BY <1>7, <1>11, <1>14
  <2> HIDE DEF n
  <2>2. chunk_index' * current'.chunk <= current'.size
    BY <1>14, <2>1
  <2>3. gathered' = IF chunk_index' = 0 THEN Gone ELSE Span(0, chunk_index' * current'.chunk, TRUE)
    BY <1>15, <2>1
  <2>4. pc' = "commit"
    BY <1>1, <1>8
  <2>5. QED
    BY <2>2, <2>3, <2>4 DEF Looped
<1>18. pc' # "abort"
  BY <1>1, <1>8
<1>19. QED
  BY <1>11, <1>13, <1>16, <1>17, <1>18

LEMMA CommitEndsStep ==
  ASSUME IInv, CommitEnds
  PROVE  IInv'
<1> USE DEF IInv
<1> DEFINE N == Len(layers)
           t == Step(layer_num + 1)
           entry == [layer |-> N, step |-> t, given |-> gathered, answers |-> "none"]
<1>1. /\ pc = "commit" /\ ~ChunksLeft /\ tables' = Append(tables, entry)
      /\ chunk_index' = 0 /\ precompute' = {} /\ gathered' = Gone
      /\ layer_num' = layer_num + 1 /\ pc' = "layer"
      /\ UNCHANGED <<params, layers, fold, choice>>
  BY DEF CommitEnds, LoopEnds
<1>2. /\ params' = params /\ layers' = layers /\ fold' = fold /\ coset_size' = coset_size
      /\ is_in_memory' = is_in_memory /\ first_in_memory' = first_in_memory
  BY <1>1 DEF choice
<1>3. gathered = Span(0, current.size, TRUE)
  BY <1>1, LoopEnded
<1>4. layer_num \in 1 .. n_layers /\ n_layers \in Nat /\ layer_num # n_layers
      /\ (first_in_memory <=> ~is_in_memory)
  <2>1. first_in_memory = ~is_in_memory /\ layer_num # n_layers
    BY <1>1 DEF Decided, Turn
  <2>2. layer_num \in 1 .. n_layers /\ n_layers \in Nat
    BY StepFacts DEF TypeOK
  <2>3. QED
    BY <2>1, <2>2
<1>5. layer_num + 1 \in 1 .. n_layers /\ layer_num < n_layers /\ layer_num + 1 # 1
  BY <1>4
<1>6. /\ Parameters' /\ n_layers' = n_layers /\ StepSum' = StepSum /\ \A k : Step(k)' = Step(k)
  BY <1>2, ParametersKept
<1>7. /\ FoldsAfter \in Nat /\ StepSum[n_layers] - StepSum[layer_num + 1] \in Nat /\ t \in Nat
      /\ FoldsAfter = t + (StepSum[n_layers] - StepSum[layer_num + 1])
  BY <1>4, <1>5, FoldCounts
<1>8. FoldsAfter' = StepSum[n_layers] - StepSum[layer_num + 1] /\ Step(layer_num)' = t
  BY <1>1, <1>2, <1>6 DEF FoldsAfter, Step
<1>9. ToFold = 0 /\ FoldsLeft = FoldsAfter /\ ToFold' = t /\ FoldsLeft' = FoldsLeft
      /\ FoldsAfter' + t = FoldsAfter /\ t <= FoldsLeft /\ FoldsLeft \in Nat
  <2> DEFINE a == FoldsAfter
             b == StepSum[n_layers] - StepSum[layer_num + 1]
  <2>1. ToFold = 0 /\ FoldsLeft = a + ToFold
    BY <1>1 DEF ToFold, FoldsLeft
  <2>2. ToFold' = t /\ FoldsLeft' = b + t /\ FoldsAfter' = b
    <3>1. ToFold' = Step(layer_num)'
      BY <1>1 DEF ToFold
    <3>2. FoldsLeft' = FoldsAfter' + ToFold'
      BY DEF FoldsLeft
    <3>3. QED
      BY <1>8, <3>1, <3>2
  <2>3. a \in Nat /\ b \in Nat /\ t \in Nat /\ a = t + b
    BY <1>7
  <2> HIDE DEF a, b, t
  <2>4. FoldsLeft = a /\ FoldsLeft' = a /\ FoldsAfter' + t = a /\ t <= a
    BY <2>1, <2>2, <2>3
  <2>5. QED
    BY <2>1, <2>2, <2>3, <2>4 DEF a
<1>10. current' = current /\ Base' = Base /\ SoundLayers' /\ Doubling'
  BY <1>2, LayersKept
<1>11. N \in Nat /\ N >= 1 /\ current \in Layers
  BY LayerTypes
<1>12. current.kind = IF first_in_memory THEN "out_of_memory" ELSE "memory"
  BY <1>1 DEF Kinds
<1>13. first_in_memory => current.chunk = params.bound * Pow2[FoldsLeft]
                          /\ coset_size = params.bound * Pow2[FoldsLeft]
  BY <1>1, <1>9 DEF FirstCosets, NoMemoryYet
<1>14. ~first_in_memory => current.chunk = current.size
  <2>1. SoundLayer(current)
    BY LayerTypes DEF SoundLayers, current
  <2>2. QED
    BY <1>12, <2>1 DEF SoundLayer
<1> DEFINE f == FoldsLeft
<1>15. /\ \E h, g \in Nat : /\ params.bound * Pow2[f] = Pow2[h + t]
                            /\ params.bound * params.cosets * Pow2[f] = Pow2[h + t + g]
       /\ \E h \in Nat : params.bound * params.cosets * Pow2[f] = Pow2[h + t]
       /\ params.bound * Pow2[f] \in Nat /\ params.bound * Pow2[f] >= 1
       /\ params.bound * params.cosets * Pow2[f] = (params.bound * Pow2[f]) * params.cosets
  <2>1. f \in Nat /\ t \in Nat /\ t <= f
    BY <1>7, <1>9
  <2> HIDE DEF f, t
  <2>2. QED
    BY <2>1, SizePowers
<1>16. current.size = params.bound * params.cosets * Pow2[f]
  BY DEF Sizes
<1>17. \E h, g \in Nat : current.chunk = Pow2[h + t] /\ current.size = Pow2[h + t + g]
  <2>1. CASE first_in_memory
    <3>1. current.chunk = params.bound * Pow2[f]
      BY <1>13, <2>1
    <3> HIDE DEF f, t
    <3>2. QED
      BY <1>15, <1>16, <3>1
  <2>2. CASE ~first_in_memory
    <3> HIDE DEF f, t
    <3>1. PICK h \in Nat : params.bound * params.cosets * Pow2[f] = Pow2[h + t]
      BY <1>15
    <3>2. h + t = h + t + 0
      BY <1>7 DEF t
    <3>3. current.chunk = Pow2[h + t] /\ current.size = Pow2[h + t + 0]
      BY <1>14, <1>16, <2>2, <3>1, <3>2
    <3>4. QED
      BY <3>3
  <2>3. QED
    BY <2>1, <2>2
<1>18. current.chunk >= 2 * Pow2[t]
  <2>1. CASE first_in_memory
    <3>1. params.bound * Pow2[FoldsAfter] >= 2 * Pow2[Step(layer_num + 1)]
      BY <1>1, <1>4, <2>1 DEF Decided, Turn
    <3>2. QED
      BY <1>9, <1>13, <2>1, <3>1
  <2>2. CASE ~first_in_memory
    <3> DEFINE A == params.bound * Pow2[f]
    <3>1. current.chunk = A * params.cosets /\ A \in Nat
      BY <1>14, <1>15, <1>16, <2>2
    <3>2. params.cosets \in Nat /\ params.cosets >= 2
      BY NumberFacts
    <3>3. Pow2[t] <= Pow2[f] /\ Pow2[t] \in Nat /\ Pow2[f] \in Nat /\ Pow2[f] >= 1
      <4>1. f \in Nat /\ t \in Nat /\ t <= f
        BY <1>7, <1>9
      <4> HIDE DEF f, t
      <4>2. QED
        BY <4>1, Pow2Values, Pow2Order
    <3>4. params.bound \in Nat /\ params.bound >= 1
      <4>1. PICK b \in Nat : params.bound = Pow2[b]
        BY PowerFacts
      <4>2. QED
        BY <4>1, Pow2Values
    <3>5. \A x, y \in Nat : x >= 1 => y <= x * y
      OBVIOUS
    <3>6. Pow2[f] <= A
      BY <3>3, <3>4, <3>5
    <3> HIDE DEF A, f, t
    <3>7. \A x, y \in Nat : y >= 2 => 2 * x <= x * y
      OBVIOUS
    <3>8. 2 * A <= A * params.cosets
      BY <3>1, <3>2, <3>7
    <3>9. A * params.cosets \in Nat
      BY <3>1, <3>2
    <3>10. QED
      BY <3>1, <3>3, <3>6, <3>8, <3>9
  <2>3. QED
    BY <2>1, <2>2
<1> HIDE DEF f
<1> DEFINE R == [layer : 1 .. N, step : Nat, given : Spans, answers : {"none", "right", "wrong"}]
<1>19. /\ tables \in Seq(R) /\ entry \in R
       /\ entry.layer = N /\ entry.step = t /\ entry.given = gathered /\ entry.answers = "none"
  <2>1. tables \in Seq(R) /\ gathered \in Spans
    BY DEF TypeOK
  <2> HIDE DEF t
  <2>2. N \in 1 .. N /\ t \in Nat
    BY <1>7, <1>11 DEF t
  <2> HIDE DEF N
  <2>3. QED
    BY <2>1, <2>2
<1> HIDE DEF R, entry
<1>20. /\ tables' \in Seq(R) /\ Len(tables') = Len(tables) + 1 /\ Len(tables) \in Nat
       /\ DOMAIN tables' = 1 .. Len(tables) + 1 /\ DOMAIN tables = 1 .. Len(tables)
       /\ tables'[Len(tables) + 1] = entry
       /\ \A k \in 1 .. Len(tables) : tables'[k] = tables[k]
  BY <1>1, <1>19
<1>21. TypeOK'
  <2>1. Gone \in Spans
    BY DEF Gone, Span, Spans
  <2>2. tables' \in Seq([layer : 1 .. Len(layers'), step : Nat, given : Spans,
                         answers : {"none", "right", "wrong"}])
    BY <1>2, <1>20 DEF R
  <2>3. layers' \in Seq(Layers) /\ Len(layers') > 0
    BY <1>2, LayerTypes
  <2>4. layer_num' \in 1 .. n_layers'
    BY <1>1, <1>5, <1>6
  <2>5. fold' \in Nat /\ coset_size' \in Nat /\ is_in_memory' \in BOOLEAN /\ first_in_memory' \in BOOLEAN
    BY <1>2 DEF TypeOK
  <2>6. QED
    BY <1>1, <2>1, <2>2, <2>3, <2>4, <2>5 DEF TypeOK
<1>22. Tabled'
  <2> SUFFICES ASSUME NEW k \in DOMAIN tables'
               PROVE  /\ layers'[tables'[k].layer].kind # "proxy"
                      /\ tables'[k].given = Span(0, layers'[tables'[k].layer].size, TRUE)
                      /\ tables'[k].answers # "wrong"
    BY DEF Tabled
  <2>1. CASE k \in 1 .. Len(tables)
    <3>1. tables'[k] = tables[k] /\ k \in DOMAIN tables
      BY <1>20, <2>1
    <3>2. QED
      BY <1>2, <3>1 DEF Tabled
  <2>2. CASE k = Len(tables) + 1
    <3>1. tables'[k] = entry
      BY <1>20, <2>2
    <3>2. layers'[N] = current
      BY <1>2 DEF current
    <3>3. QED
      BY <1>3, <1>12, <1>19, <3>1, <3>2
  <2>3. k \in 1 .. Len(tables) \/ k = Len(tables) + 1
    BY <1>20
  <2>4. QED
    BY <2>1, <2>2, <2>3
<1>23. SegmentsHaveTwoRows'
  <2> SUFFICES ASSUME NEW k \in DOMAIN tables'
               PROVE  layers'[tables'[k].layer].chunk >= 2 * Pow2[tables'[k].step]
    BY DEF SegmentsHaveTwoRows
  <2>1. CASE k \in 1 .. Len(tables)
    <3>1. tables'[k] = tables[k] /\ k \in DOMAIN tables
      BY <1>20, <2>1
    <3>2. QED
      BY <1>2, <3>1 DEF SegmentsHaveTwoRows
  <2>2. CASE k = Len(tables) + 1
    <3>1. tables'[k] = entry
      BY <1>20, <2>2
    <3>2. layers'[N] = current
      BY <1>2 DEF current
    <3>3. QED
      BY <1>18, <1>19, <3>1, <3>2
  <2>3. k \in 1 .. Len(tables) \/ k = Len(tables) + 1
    BY <1>20
  <2>4. QED
    BY <2>1, <2>2, <2>3
<1>24. Sizes'
  <2>1. current'.size = params'.bound * params'.cosets * Pow2[FoldsLeft']
    BY <1>2, <1>9, <1>10, <1>16 DEF f
  <2>2. \E h, g \in Nat : current'.chunk = Pow2[h + ToFold'] /\ current'.size = Pow2[h + ToFold' + g]
    BY <1>9, <1>10, <1>17
  <2>3. current'.kind # "proxy"
    BY <1>10, <1>12
  <2>4. QED
    BY <2>1, <2>2, <2>3 DEF Sizes
<1>25. NoMemoryYet' <=> first_in_memory
  BY <1>1, <1>2 DEF NoMemoryYet
<1>26. Kinds'
  <2>1. current = layers[Base]
    BY <1>12, BaseFacts
  <2>2. layers'[Base'].kind = IF first_in_memory THEN "out_of_memory" ELSE "memory"
    BY <1>2, <1>10, <1>12, <2>1
  <2>3. layer_num' # 1 /\ current'.kind # "proxy"
    BY <1>1, <1>5, <1>10, <1>12
  <2>4. QED
    BY <1>1, <1>25, <2>2, <2>3 DEF Kinds
<1>27. FirstCosets'
  <2>1. FoldsAfter' + Step(layer_num)' = FoldsLeft
    BY <1>8, <1>9
  <2>2. first_in_memory => /\ current'.chunk = params'.bound * Pow2[FoldsLeft']
                           /\ coset_size' = params'.bound * Pow2[FoldsAfter' + Step(layer_num)']
    BY <1>2, <1>9, <1>10, <1>13, <2>1
  <2>3. QED
    BY <1>1, <1>25, <2>2 DEF FirstCosets
<1>28. Decided'
  <2>1. ~first_in_memory => current.size <= Pow2[params.log_memory] \/ layer_num >= n_layers - 1
    BY <1>1, <1>4 DEF Decided, Turn
  <2>2. layer_num >= n_layers - 1 => layer_num + 1 = n_layers
    BY <1>4, <1>5
  <2>3. ~first_in_memory' => current'.size <= Pow2[params'.log_memory] \/ layer_num' = n_layers'
    BY <1>1, <1>2, <1>6, <1>10, <2>1, <2>2
  <2>4. QED
    BY <1>1, <2>3 DEF Decided, Turn
<1>29. MemoryLayersStayLast' /\ Looped'
  BY <1>1, <1>2 DEF MemoryLayersStayLast, Looped
<1>30. QED
  BY <1>1, <1>6, <1>10, <1>21, <1>22, <1>23, <1>24, <1>26, <1>27, <1>28, <1>29

-----------------------------------------------------------------------------
\* The query phase.

LEMMA DecommitStep ==
  ASSUME IInv, Decommit
  PROVE  IInv'
<1> USE DEF IInv
<1> DEFINE N == Len(layers)
           R == [layer : 1 .. N, step : Nat, given : Spans, answers : {"none", "right", "wrong"}]
<1>1. PICK k \in DOMAIN tables :
        LET L == layers[tables[k].layer]
            asked == IF L.kind = "out_of_memory" THEN InitLdeManager(L) ELSE L
        IN /\ pc = "decommit"
           /\ IF L.kind = "proxy" THEN Abort
              ELSE /\ layers' = [layers EXCEPT ![tables[k].layer] = asked]
                   /\ tables' = [tables EXCEPT ![k].answers =
                                   IF IF L.kind = "memory" THEN L.evaluation.right ELSE asked.lde.right
                                   THEN "right" ELSE "wrong"]
                   /\ UNCHANGED <<params, layer_num, pc, fold, choice, loop>>
  BY DEF Decommit
<1> DEFINE j == tables[k].layer
           L == layers[j]
           asked == IF L.kind = "out_of_memory" THEN InitLdeManager(L) ELSE L
<1>2. pc = "decommit" /\ L.kind # "proxy"
  BY <1>1 DEF Tabled
<1>3. tables \in Seq(R)
  BY DEF TypeOK
<1>4. j \in 1 .. N /\ N \in Nat /\ L \in Layers
  <2>1. tables[k] \in R
    <3> HIDE DEF R
    <3>1. QED
      BY <1>3
  <2> HIDE DEF N
  <2>2. j \in 1 .. N
    BY <2>1
  <2>3. QED
    BY <2>2, LayerTypes DEF N
<1>5. SoundLayer(L)
  BY <1>4, LayerTypes DEF SoundLayers
<1>6. (IF L.kind = "memory" THEN L.evaluation.right ELSE asked.lde.right) = TRUE
  <2>1. CASE L.kind = "memory"
    <3>1. L.evaluation = Span(0, L.size, TRUE)
      BY <1>5, <2>1 DEF SoundLayer
    <3>2. QED
      BY <2>1, <3>1 DEF Span
  <2>2. CASE L.kind # "memory"
    <3>1. L.kind = "out_of_memory"
      BY <1>2, <1>4, <2>2, LayerFields
    <3>2. InitLdeManager(L).lde.right = TRUE
      <4> HIDE DEF L
      <4>1. QED
        BY <1>4, <1>5, <3>1, LdeIsSound
    <3>3. QED
      BY <3>1, <3>2
  <2>3. QED
    BY <2>1, <2>2
<1>7. /\ layers' = [layers EXCEPT ![j] = asked]
      /\ tables' = [tables EXCEPT ![k].answers = "right"]
      /\ UNCHANGED <<params, layer_num, pc, fold, choice, loop>>
  <2>1. /\ layers' = [layers EXCEPT ![j] = asked]
        /\ tables' = [tables EXCEPT ![k].answers =
                        IF IF L.kind = "memory" THEN L.evaluation.right ELSE asked.lde.right
                        THEN "right" ELSE "wrong"]
        /\ UNCHANGED <<params, layer_num, pc, fold, choice, loop>>
    BY <1>1, <1>2
  <2> HIDE DEF j, L, asked
  <2>2. QED
    BY <1>6, <2>1
<1>8. /\ params' = params /\ layer_num' = layer_num /\ pc' = pc /\ fold' = fold
      /\ is_in_memory' = is_in_memory /\ first_in_memory' = first_in_memory
      /\ coset_size' = coset_size /\ chunk_index' = chunk_index /\ precompute' = precompute
      /\ gathered' = gathered
  BY <1>7 DEF choice, loop
<1> DEFINE chain == [layers EXCEPT ![j] = asked]
<1>9. SameShape(chain)
  <2>1. CASE L.kind = "out_of_memory"
    <3>1. chain = [layers EXCEPT ![j] = InitLdeManager(@)]
      BY <2>1
    <3>2. j \in 1 .. Len(layers) /\ layers[j].kind = "out_of_memory"
      BY <1>4, <2>1
    <3> HIDE DEF j, chain
    <3>3. QED
      BY <3>1, <3>2, OneLdeMore
  <2>2. CASE L.kind # "out_of_memory"
    <3>1. chain = layers
      <4>1. asked = layers[j]
        BY <2>2
      <4>2. DOMAIN layers = 1 .. N /\ layers \in Seq(Layers)
        BY LayerTypes
      <4> HIDE DEF j, asked, N
      <4>3. layers = [i \in DOMAIN layers |-> layers[i]]
        BY <4>2
      <4>4. QED
        BY <4>1, <4>3
    <3>2. QED
      BY <3>1, ShapeOfLayers
  <2>3. QED
    BY <2>1, <2>2
<1>10. /\ layers' \in Seq(Layers) /\ Len(layers') = Len(layers)
       /\ \A i \in 1 .. Len(layers) :
            /\ layers'[i].kind = layers[i].kind /\ layers'[i].size = layers[i].size
            /\ layers'[i].chunk = layers[i].chunk
       /\ current'.kind = current.kind /\ current'.size = current.size
       /\ current'.chunk = current.chunk /\ n_layers' = n_layers
       /\ Parameters' /\ SoundLayers' /\ Sizes' /\ Doubling' /\ Kinds' /\ FirstCosets' /\ Decided'
       /\ MemoryLayersStayLast'
  <2>1. layers' = chain
    BY <1>7
  <2> HIDE DEF chain
  <2>2. QED
    BY <1>2, <1>8, <1>9, <2>1, ShapeKept
<1> HIDE DEF chain, asked, L, j, N
<1>11. /\ tables' \in Seq(R) /\ DOMAIN tables' = DOMAIN tables
       /\ \A x \in DOMAIN tables : /\ tables'[x].layer = tables[x].layer
                                   /\ tables'[x].step = tables[x].step
                                   /\ tables'[x].given = tables[x].given
                                   /\ tables'[x].answers \in {tables[x].answers, "right"}
       /\ \A x \in DOMAIN tables : tables[x].layer \in 1 .. N
  <2> DEFINE r == [tables[k] EXCEPT !.answers = "right"]
  <2>1. tables[k] \in R /\ \A x \in DOMAIN tables : tables[x] \in R
    <3> HIDE DEF R
    <3>1. QED
      BY <1>3
  <2>2. r \in R /\ r.layer = tables[k].layer /\ r.step = tables[k].step /\ r.given = tables[k].given
        /\ r.answers = "right"
    BY <2>1
  <2>3. \A x \in R : x.layer \in 1 .. N
    OBVIOUS
  <2>4. tables' = [tables EXCEPT ![k] = r]
    BY <1>7
  <2> HIDE DEF r, R
  <2>5. tables' \in Seq(R) /\ DOMAIN tables' = DOMAIN tables
    BY <1>3, <2>2, <2>4
  <2>6. \A x \in DOMAIN tables : tables'[x] = IF x = k THEN r ELSE tables[x]
    BY <2>4
  <2>7. QED
    BY <2>1, <2>2, <2>3, <2>5, <2>6
<1>12. TypeOK'
  <2>1. tables' \in Seq([layer : 1 .. Len(layers'), step : Nat, given : Spans,
                         answers : {"none", "right", "wrong"}])
    BY <1>10, <1>11 DEF R, N
  <2>2. Len(layers') > 0
    BY <1>10, LayerTypes
  <2>3. QED
    BY <1>8, <1>10, <2>1, <2>2 DEF TypeOK
<1>13. Tabled'
  <2> SUFFICES ASSUME NEW x \in DOMAIN tables
               PROVE  /\ layers'[tables'[x].layer].kind # "proxy"
                      /\ tables'[x].given = Span(0, layers'[tables'[x].layer].size, TRUE)
                      /\ tables'[x].answers # "wrong"
    BY <1>11 DEF Tabled
  <2>1. tables[x].layer \in 1 .. Len(layers)
    BY <1>11 DEF N
  <2>2. layers'[tables'[x].layer].kind # "proxy"
        /\ tables'[x].given = Span(0, layers'[tables'[x].layer].size, TRUE)
    <3> DEFINE y == tables[x].layer
    <3>1. layers[y].kind # "proxy" /\ tables[x].given = Span(0, layers[y].size, TRUE)
      BY DEF Tabled
    <3>2. y \in 1 .. Len(layers) /\ tables'[x].layer = y /\ tables'[x].given = tables[x].given
      BY <1>11, <2>1
    <3> HIDE DEF y
    <3>3. layers'[y].kind = layers[y].kind /\ layers'[y].size = layers[y].size
      BY <1>10, <3>2
    <3>4. QED
      BY <3>1, <3>2, <3>3
  <2>3. tables'[x].answers \in {tables[x].answers, "right"} /\ tables[x].answers # "wrong"
    BY <1>11 DEF Tabled
  <2>4. QED
    BY <2>2, <2>3
<1>14. SegmentsHaveTwoRows'
  <2> SUFFICES ASSUME NEW x \in DOMAIN tables
               PROVE  layers'[tables'[x].layer].chunk >= 2 * Pow2[tables'[x].step]
    BY <1>11 DEF SegmentsHaveTwoRows
  <2>1. tables[x].layer \in 1 .. Len(layers)
    BY <1>11 DEF N
  <2>2. QED
    BY <1>10, <1>11, <2>1 DEF SegmentsHaveTwoRows
<1>15. Looped'
  BY <1>2, <1>8 DEF Looped
<1>16. QED
  BY <1>2, <1>8, <1>10, <1>12, <1>13, <1>14, <1>15

LEMMA DecommitEndsStep ==
  ASSUME IInv, DecommitEnds
  PROVE  IInv'
<1> USE DEF IInv
<1>1. /\ pc = "decommit" /\ pc' = "done"
      /\ UNCHANGED <<params, layers, layer_num, fold, choice, loop, tables>>
  BY DEF DecommitEnds
<1>2. /\ params' = params /\ layers' = layers /\ layer_num' = layer_num /\ fold' = fold
      /\ coset_size' = coset_size /\ is_in_memory' = is_in_memory
      /\ first_in_memory' = first_in_memory /\ tables' = tables
      /\ chunk_index' = chunk_index /\ precompute' = precompute /\ gathered' = gathered
  BY <1>1 DEF choice, loop
<1>3. /\ Parameters' /\ n_layers' = n_layers /\ StepSum' = StepSum /\ \A k : Step(k)' = Step(k)
  BY <1>2, ParametersKept
<1>4. current' = current /\ Base' = Base /\ SoundLayers' /\ Doubling'
  BY <1>2, LayersKept
<1>5. FoldsAfter' = FoldsAfter
  BY <1>2, <1>3 DEF FoldsAfter
<1>6. ToFold' = ToFold /\ FoldsLeft' = FoldsLeft
  <2>1. ToFold' = ToFold
    BY <1>1 DEF ToFold
  <2>2. QED
    BY <1>5, <2>1 DEF FoldsLeft
<1>7. TypeOK'
  BY <1>1, <1>2, <1>3 DEF TypeOK
<1>8. Sizes'
  BY <1>2, <1>4, <1>6 DEF Sizes
<1>9. NoMemoryYet' = NoMemoryYet
  BY <1>1, <1>2 DEF NoMemoryYet
<1>10. Kinds'
  BY <1>1, <1>4 DEF Kinds
<1>11. FirstCosets'
  BY <1>1, <1>2, <1>4, <1>6, <1>9 DEF FirstCosets
<1>12. Decided'
  BY <1>1, <1>2, <1>3 DEF Decided, Turn
<1>13. Looped' /\ Tabled' /\ SegmentsHaveTwoRows' /\ MemoryLayersStayLast'
  BY <1>1, <1>2 DEF Looped, Tabled, SegmentsHaveTwoRows, MemoryLayersStayLast
<1>14. QED
  BY <1>1, <1>3, <1>4, <1>7, <1>8, <1>10, <1>11, <1>12, <1>13

-----------------------------------------------------------------------------
\* Theorems.

LEMMA StutterStep ==
  ASSUME IInv, UNCHANGED vars
  PROVE  IInv'
<1> USE DEF IInv
<1>1. /\ params' = params /\ layers' = layers /\ layer_num' = layer_num /\ fold' = fold /\ pc' = pc
      /\ coset_size' = coset_size /\ is_in_memory' = is_in_memory
      /\ first_in_memory' = first_in_memory /\ tables' = tables
      /\ chunk_index' = chunk_index /\ precompute' = precompute /\ gathered' = gathered
  BY DEF vars, choice, loop
<1>2. /\ Parameters' /\ n_layers' = n_layers /\ StepSum' = StepSum /\ \A k : Step(k)' = Step(k)
  BY <1>1, ParametersKept
<1>3. current' = current /\ Base' = Base /\ SoundLayers' /\ Doubling'
  BY <1>1, LayersKept
<1>4. FoldsAfter' = FoldsAfter /\ Step(layer_num)' = Step(layer_num)
      /\ Step(layer_num + 1)' = Step(layer_num + 1)
  BY <1>1, <1>2 DEF FoldsAfter, Step
<1>5. ToFold' = ToFold /\ FoldsLeft' = FoldsLeft
  <2>1. ToFold' = ToFold
    BY <1>1, <1>4 DEF ToFold
  <2>2. QED
    BY <1>4, <2>1 DEF FoldsLeft
<1>6. TypeOK'
  BY <1>1, <1>2 DEF TypeOK
<1>7. Sizes'
  BY <1>1, <1>3, <1>5 DEF Sizes
<1>8. NoMemoryYet' = NoMemoryYet
  BY <1>1 DEF NoMemoryYet
<1>9. Kinds'
  BY <1>1, <1>3, <1>4, <1>8 DEF Kinds, Moved
<1>10. FirstCosets'
  BY <1>1, <1>3, <1>4, <1>5, <1>8 DEF FirstCosets
<1>11. Decided'
  BY <1>1, <1>2, <1>3, <1>4 DEF Decided, Turn
<1>12. Looped' /\ Tabled' /\ SegmentsHaveTwoRows' /\ MemoryLayersStayLast'
  BY <1>1, <1>3 DEF Looped, Tabled, SegmentsHaveTwoRows, MemoryLayersStayLast
<1>13. QED
  BY <1>1, <1>2, <1>3, <1>6, <1>7, <1>9, <1>10, <1>11, <1>12

\* The prover's layers are as IInv says in every reachable state: right wherever
\* anything reads them, of sizes that fit one another, and the decisions that
\* CommitmentPhase takes layer by layer agree with one another.
THEOREM FriInvariantTheorem == Spec => []IInv
<1>1. IInv /\ [Next]_vars => IInv'
  <2> SUFFICES ASSUME IInv, [Next]_vars PROVE IInv'
    OBVIOUS
  <2>1. CASE NextLayer
    BY <2>1, NextLayerStep
  <2>2. CASE FoldOnce
    BY <2>2, FoldOnceStep
  <2>3. CASE FoldsDone
    BY <2>3, FoldsDoneStep
  <2>4. CASE StoreFirstCoset
    BY <2>4, StoreFirstCosetStep
  <2>5. CASE FillChunk
    BY <2>5, FillChunkStep
  <2>6. CASE FillEnds
    BY <2>6, FillEndsStep
  <2>7. CASE CommitChunk
    BY <2>7, CommitChunkStep
  <2>8. CASE CommitEnds
    BY <2>8, CommitEndsStep
  <2>9. CASE Decommit
    BY <2>9, DecommitStep
  <2>10. CASE DecommitEnds
    BY <2>10, DecommitEndsStep
  <2>11. CASE Done
    BY <2>11, StutterStep DEF Done
  <2>12. CASE UNCHANGED vars
    BY <2>12, StutterStep
  <2>13. QED
    BY <2>1, <2>2, <2>3, <2>4, <2>5, <2>6, <2>7, <2>8, <2>9, <2>10, <2>11, <2>12 DEF Next
<1>2. QED
  BY <1>1, InitStep, PTL DEF Spec

\* Whatever the step list, the bound, the number of cosets and the prover's
\* configuration, no assertion of the layers, of the conversions between them or of
\* the table provers fails.
THEOREM NoAssertionFailsTheorem == Spec => []NoAssertionFails
<1>1. IInv => NoAssertionFails
  BY DEF IInv, NoAssertionFails
<1>2. QED
  BY <1>1, FriInvariantTheorem, PTL

\* Every table prover is given the whole of its layer, in order and right, and the
\* last layer is the whole evaluation that SendLastLayer interpolates.
THEOREM TablesHoldTheirLayersTheorem == Spec => []TablesHoldTheirLayers
<1>1. ASSUME IInv PROVE TablesHoldTheirLayers
  <2> USE <1>1 DEF IInv
  <2>1. \A k \in DOMAIN tables : tables[k].given = Span(0, layers[tables[k].layer].size, TRUE)
    BY DEF Tabled
  <2>2. ASSUME pc \in {"decommit", "done"}
        PROVE  current.evaluation = Span(0, params.bound * params.cosets, TRUE)
    <3>1. current.kind = "memory" /\ layer_num = n_layers
      BY <2>2 DEF Kinds, Decided
    <3>2. SoundLayer(current)
      BY LayerTypes DEF SoundLayers, current
    <3>3. current.evaluation = Span(0, current.size, TRUE)
      BY <3>1, <3>2 DEF SoundLayer
    <3>4. FoldsAfter = 0
      <4>1. layer_num \in 1 .. n_layers
        BY DEF TypeOK
      <4>2. QED
        BY <3>1, <4>1, FoldCounts
    <3>5. FoldsLeft = 0
      BY <2>2, <3>4 DEF FoldsLeft, ToFold
    <3>6. current.size = params.bound * params.cosets * Pow2[FoldsLeft]
      BY DEF Sizes
    <3>7. params.bound * params.cosets * 1 = params.bound * params.cosets
      BY NumberFacts
    <3>8. current.size = params.bound * params.cosets
      BY <3>5, <3>6, <3>7, Pow2Values
    <3>9. QED
      BY <3>3, <3>8
  <2>3. QED
    BY <2>1, <2>2 DEF TablesHoldTheirLayers
<1>2. QED
  BY <1>1, FriInvariantTheorem, PTL

\* What the query phase reveals of a layer is what was committed of it.
THEOREM AnswersAreTheCommittedTheorem == Spec => []AnswersAreTheCommitted
<1>1. IInv => AnswersAreTheCommitted
  BY DEF IInv, Tabled, AnswersAreTheCommitted
<1>2. QED
  BY <1>1, FriInvariantTheorem, PTL
===============================================================================
