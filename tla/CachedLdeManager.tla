--------------------------- MODULE CachedLdeManager ---------------------------
(***************************************************************************)
(* starkware/algebra/lde/cached_lde_manager.{h,cc}: evaluates the columns  *)
(* of a trace on cosets, caching every coset (store_full_lde) or none, and *)
(* drops the polynomials once no new coset will be asked for.              *)
(*                                                                         *)
(* The object is sequential; what is checked is every order of its calls.  *)
(* A coset offset is written additively (offset number c is c), so that    *)
(* ShiftTwiddleFactors(new, old), which multiplies the twiddle factors by  *)
(* powers of new/old, adds new - old to the offset they stand for.  An     *)
(* evaluation is the offset of the coset it was really computed on.        *)
(***************************************************************************)
EXTENDS Integers

CONSTANTS
  NCosets,             \* coset_offsets_->Size()
  MaxColumns,          \* bound on AddEvaluation calls
  RetryAfterFailure,   \* does the caller go on using the object after an
                       \* assertion threw?  (the prover's main does not)
  Uninitialized, None

ASSUME LdeAssumption ==
  /\ NCosets \in Nat \ {0} /\ MaxColumns \in Nat
  /\ RetryAfterFailure \in BOOLEAN
  /\ Uninitialized \notin Int /\ None \notin Int

Coset == 0 .. NCosets - 1
Offset == Int
Evaluation == Offset \cup {Uninitialized}

VARIABLES
  store_full_lde, use_fft_for_eval,  \* config_
  done_adding_, n_columns_,
  lde_manager_,                \* lde_manager_.HasValue()
  cache_,                      \* an evaluation per coset, or None
  fft_precompute_,             \* the offset the twiddle factors stand for
  previous_coset_offset_,
  storage,                     \* the caller's AllocateStorage() entry, or None
  reply                        \* what the last call returned

config == <<store_full_lde, use_fft_for_eval>>
lde_vars == <<config, done_adding_, n_columns_, lde_manager_, cache_,
              fft_precompute_, previous_coset_offset_, storage, reply>>

\* Replies: an assertion failure, nothing, or evaluations and the coset each
\* was asked for.
Failure == [kind |-> "assert", values |-> {}]
NoValue == [kind |-> "done", values |-> {}]
Values(v) == [kind |-> "values", values |-> v]

LdeTypeOK ==
  /\ store_full_lde \in BOOLEAN /\ use_fft_for_eval \in BOOLEAN
  /\ done_adding_ \in BOOLEAN /\ lde_manager_ \in BOOLEAN
  /\ n_columns_ \in 0 .. MaxColumns
  /\ cache_ \in [Coset -> Evaluation \cup {None}]
  /\ fft_precompute_ \in Offset \cup {None}
  /\ previous_coset_offset_ \in Coset
  /\ storage \in Evaluation \cup {None}
  /\ reply.kind \in {"assert", "done", "values"}
  /\ reply.values \subseteq Coset \X Evaluation

LdeInit ==
  /\ store_full_lde \in BOOLEAN /\ use_fft_for_eval \in BOOLEAN
  /\ done_adding_ = FALSE /\ n_columns_ = 0
  /\ lde_manager_ = TRUE
  /\ cache_ = [c \in Coset |-> None]
  /\ fft_precompute_ = None
  /\ previous_coset_offset_ = 0
  /\ storage = None
  /\ reply = NoValue

-----------------------------------------------------------------------------
\* The caller makes another call.
MayCall == reply.kind # "assert" \/ RetryAfterFailure

Fail == reply' = Failure

AddEvaluation ==
  /\ MayCall
  /\ IF done_adding_ THEN Fail /\ UNCHANGED n_columns_
     ELSE /\ n_columns_ < MaxColumns
          /\ n_columns_' = n_columns_ + 1
          /\ reply' = NoValue
  /\ UNCHANGED <<config, done_adding_, lde_manager_, cache_, fft_precompute_,
                 previous_coset_offset_, storage>>

FinalizeAdding ==
  /\ MayCall
  /\ IF done_adding_ THEN Fail /\ UNCHANGED <<done_adding_, fft_precompute_>>
     ELSE /\ done_adding_' = TRUE
          /\ fft_precompute_' = 0
          /\ reply' = NoValue
  /\ UNCHANGED <<config, n_columns_, lde_manager_, cache_,
                 previous_coset_offset_, storage>>

\* Callers allocate the entry once all columns are added: one with fewer columns
\* than the evaluation is no valid argument of EvalOnCoset.
AllocateStorage ==
  /\ MayCall /\ done_adding_
  /\ storage' = IF store_full_lde THEN None ELSE Uninitialized
  /\ reply' = NoValue
  /\ UNCHANGED <<config, done_adding_, n_columns_, lde_manager_, cache_,
                 fft_precompute_, previous_coset_offset_>>

\* Slips: the previous offset is not recorded; it is recorded only once the
\* evaluation has succeeded.
ShiftUnrecorded(c) ==
  /\ fft_precompute_' = fft_precompute_ + (c - previous_coset_offset_)
  /\ UNCHANGED previous_coset_offset_
ShiftRecordedLate(c) ==
  /\ fft_precompute_' = fft_precompute_ + (c - previous_coset_offset_)
  /\ previous_coset_offset_' = IF lde_manager_ THEN c ELSE previous_coset_offset_

\* ShiftTwiddleFactors and previous_coset_offset_, for an evaluation on c.
ShiftTo(c) ==
  /\ fft_precompute_' = fft_precompute_ + (c - previous_coset_offset_)
  /\ previous_coset_offset_' = c

EvalOnCoset(c) ==
  /\ MayCall
  /\ \/ /\ ~done_adding_
        /\ Fail
        /\ UNCHANGED <<cache_, fft_precompute_, previous_coset_offset_, storage>>
     \/ /\ done_adding_ /\ cache_[c] # None
        /\ reply' = Values({<<c, cache_[c]>>})
        /\ UNCHANGED <<cache_, fft_precompute_, previous_coset_offset_, storage>>
     \/ /\ done_adding_ /\ cache_[c] = None /\ store_full_lde
        /\ ShiftTo(c)
        \* The entry is in the cache before the assertion on lde_manager_.
        /\ IF lde_manager_
           THEN /\ cache_' = [cache_ EXCEPT ![c] = fft_precompute_']
                /\ reply' = Values({<<c, fft_precompute_'>>})
           ELSE /\ cache_' = [cache_ EXCEPT ![c] = Uninitialized]
                /\ Fail
        /\ UNCHANGED storage
     \/ /\ done_adding_ /\ cache_[c] = None /\ ~store_full_lde
        /\ ShiftTo(c)
        /\ IF storage # None /\ lde_manager_
           THEN /\ storage' = fft_precompute_'
                /\ reply' = Values({<<c, fft_precompute_'>>})
           ELSE Fail /\ UNCHANGED storage
        /\ UNCHANGED cache_
  /\ UNCHANGED <<config, done_adding_, n_columns_, lde_manager_>>

\* EvalAtPoints on points of the cosets cs.  Without a cache and with
\* use_fft_for_eval, the cosets are evaluated one after the other, in
\* increasing order, so that the twiddle factors end on the last one.
IsLast(c, cs) == \A d \in cs : d <= c

EvalAtPoints(cs) ==
  /\ MayCall
  /\ \/ /\ \/ ~done_adding_
           \/ done_adding_ /\ store_full_lde /\ \E c \in cs : cache_[c] = None
           \/ done_adding_ /\ ~store_full_lde /\ ~lde_manager_
        /\ Fail
        /\ UNCHANGED <<fft_precompute_, previous_coset_offset_>>
     \/ /\ done_adding_ /\ store_full_lde /\ \A c \in cs : cache_[c] # None
        /\ reply' = Values({<<c, cache_[c]>> : c \in cs})
        /\ UNCHANGED <<fft_precompute_, previous_coset_offset_>>
     \/ /\ done_adding_ /\ ~store_full_lde /\ lde_manager_ /\ use_fft_for_eval
        /\ \E last \in cs : IsLast(last, cs) /\ ShiftTo(last)
        /\ reply' = Values({<<c, fft_precompute_ + (c - previous_coset_offset_)>> : c \in cs})
     \/ /\ done_adding_ /\ ~store_full_lde /\ lde_manager_ /\ ~use_fft_for_eval
        /\ reply' = Values({<<c, c>> : c \in cs})
        /\ UNCHANGED <<fft_precompute_, previous_coset_offset_>>
  /\ UNCHANGED <<config, done_adding_, n_columns_, lde_manager_, cache_,
                 storage>>

\* Points are given as field elements: no coset, no twiddle factors.
EvalAtPointsNotCached ==
  /\ MayCall
  /\ reply' = IF lde_manager_ THEN NoValue ELSE Failure
  /\ UNCHANGED <<config, done_adding_, n_columns_, lde_manager_, cache_,
                 fft_precompute_, previous_coset_offset_, storage>>

FinalizeEvaluations ==
  /\ MayCall
  /\ IF ~done_adding_ THEN Fail /\ UNCHANGED lde_manager_
     ELSE /\ lde_manager_' = (lde_manager_ /\ ~store_full_lde)
          /\ reply' = NoValue
  /\ UNCHANGED <<config, done_adding_, n_columns_, cache_, fft_precompute_,
                 previous_coset_offset_, storage>>

NumColumns ==
  /\ MayCall
  /\ reply' = IF done_adding_ THEN NoValue ELSE Failure
  /\ UNCHANGED <<config, done_adding_, n_columns_, lde_manager_, cache_,
                 fft_precompute_, previous_coset_offset_, storage>>

\* The caller was unwound by an assertion.
Aborted == ~MayCall /\ UNCHANGED lde_vars

LdeNext ==
  \/ AddEvaluation \/ FinalizeAdding \/ AllocateStorage
  \/ \E c \in Coset : EvalOnCoset(c)
  \/ \E cs \in (SUBSET Coset) \ {{}} : EvalAtPoints(cs)
  \/ EvalAtPointsNotCached
  \/ NumColumns \/ FinalizeEvaluations
  \/ Aborted

LdeSpec == LdeInit /\ [][LdeNext]_lde_vars

-----------------------------------------------------------------------------
\* Whatever was evaluated before, on whichever cosets and in whichever order,
\* a caller gets the evaluation on the coset it asked for.
EvaluatedOnRequestedCoset ==
  \A v \in reply.values : v[2] = v[1]

\* The twiddle factors stand for previous_coset_offset_: the next shift starts
\* from where the last one ended, even if an assertion threw in between.
TwiddlesMatchPreviousOffset ==
  done_adding_ => fft_precompute_ = previous_coset_offset_

\* cached_lde_manager.cc:50: "Cannot evaluate new values after
\* FinalizeEvaluations() was called".  Once a call has failed with that, a
\* later one that returns an evaluation returns one made before.
NoUninitializedEvaluation ==
  \A v \in reply.values : v[2] # Uninitialized
=============================================================================
