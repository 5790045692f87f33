----------------------------- MODULE ProofOfWork -----------------------------
(***************************************************************************)
(* ProofOfWorkProver::Prove of starkware/channel/proof_of_work.inl: the    *)
(* tasks of one ParallelFor search chunks of nonces, sharing two atomics.  *)
(* Every load, compare-exchange and fetch_add is a step of its own.        *)
(*                                                                         *)
(* The hash is abstracted to the set of nonces it accepts, chosen once at  *)
(* the start.  Words have Size = 2^64 values, chunk_size divides Size.     *)
(***************************************************************************)
EXTENDS Integers, FiniteSets

CONSTANTS
  Size,          \* number of values of a uint64_t
  chunk_size,    \* Pow2(log_chunk_size)
  thread_count,  \* the number of tasks
  ValidSets      \* the sets of nonces a seed may make valid

ASSUME PowAssumption ==
  /\ Size \in Nat /\ chunk_size \in Nat \ {0} /\ thread_count \in Nat \ {0}
  /\ \E n \in 1 .. Size : Size = n * chunk_size
  /\ thread_count * chunk_size < Size
  /\ ValidSets \subseteq SUBSET (0 .. Size - 1)

Word == 0 .. Size - 1
MaxWord == Size - 1      \* std::numeric_limits<uint64_t>::max()
Task == 0 .. thread_count - 1
nonce_bound == thread_count * chunk_size

\* x + y as unsigned words.
Plus(x, y) == IF x + y < Size THEN x + y ELSE x + y - Size

VARIABLES
  valid,                \* the nonces whose digest is below work_limit
  next_chunk_to_search, lowest_nonce_found,   \* the two atomics
  pc,                   \* "search", "load", "cas", "fetch", "test", "done"
  nonce_start, nonce, curr_nonce,             \* locals of each task
  result                \* "running", "nonce" or "No nonce was found."

pow_vars == <<valid, next_chunk_to_search, lowest_nonce_found, pc, nonce_start,
          nonce, curr_nonce, result>>

PowTypeOK ==
  /\ valid \in ValidSets
  /\ next_chunk_to_search \in Word /\ lowest_nonce_found \in Word
  /\ pc \in [Task -> {"search", "load", "cas", "fetch", "test", "done"}]
  /\ nonce_start \in [Task -> Word]
  /\ nonce \in [Task -> Word] /\ curr_nonce \in [Task -> Word]
  /\ result \in {"running", "nonce", "No nonce was found."}

PowInit ==
  /\ valid \in ValidSets
  /\ next_chunk_to_search = nonce_bound
  /\ lowest_nonce_found = MaxWord
  /\ pc = [t \in Task |-> "search"]
  /\ nonce_start = [t \in Task |-> t * chunk_size]
  /\ nonce = [t \in Task |-> 0] /\ curr_nonce = [t \in Task |-> 0]
  /\ result = "running"

-----------------------------------------------------------------------------
Goto(t, from, to) == pc[t] = from /\ pc' = [pc EXCEPT ![t] = to]

\* The valid nonces the loop of SearchChunk meets.  Its bound is a word: for
\* the last chunk it is 0 and the loop does not run.
Hits(start) == {n \in valid : start <= n /\ n < Plus(start, chunk_size)}

IsLowest(n, S) == n \in S /\ \A m \in S : n <= m

SearchChunk(t) ==
  LET hits == Hits(nonce_start[t])
  IN /\ IF hits = {} THEN Goto(t, "search", "fetch") /\ UNCHANGED nonce
        ELSE /\ Goto(t, "search", "load")
             /\ \E n \in hits : IsLowest(n, hits) /\ nonce' = [nonce EXCEPT ![t] = n]
     /\ UNCHANGED <<valid, next_chunk_to_search, lowest_nonce_found,
                    nonce_start, curr_nonce, result>>

\* The while condition's first half, on the value last read.
Contend(t, curr) == IF nonce[t] < curr THEN "cas" ELSE "fetch"

LoadLowest(t) ==
  /\ Goto(t, "load", Contend(t, lowest_nonce_found))
  /\ curr_nonce' = [curr_nonce EXCEPT ![t] = lowest_nonce_found]
  /\ UNCHANGED <<valid, next_chunk_to_search, lowest_nonce_found, nonce_start,
                 nonce, result>>

\* atomic_compare_exchange_strong: store, or fail and reload.
CompareExchange(t) ==
  /\ IF lowest_nonce_found = curr_nonce[t]
     THEN /\ Goto(t, "cas", "fetch")
          /\ lowest_nonce_found' = nonce[t]
          /\ UNCHANGED curr_nonce
     ELSE /\ Goto(t, "cas", Contend(t, lowest_nonce_found))
          /\ curr_nonce' = [curr_nonce EXCEPT ![t] = lowest_nonce_found]
          /\ UNCHANGED lowest_nonce_found
  /\ UNCHANGED <<valid, next_chunk_to_search, nonce_start, nonce, result>>

FetchAdd(t) ==
  /\ Goto(t, "fetch", "test")
  /\ nonce_start' = [nonce_start EXCEPT ![t] = next_chunk_to_search]
  /\ next_chunk_to_search' = Plus(next_chunk_to_search, chunk_size)
  /\ UNCHANGED <<valid, lowest_nonce_found, nonce, curr_nonce, result>>

\* Slips: stop at the first nonce found; stop at the bound itself; no check for
\* the overflow.
GoOnUntilFound(start, lowest) == lowest = MaxWord /\ start >= nonce_bound
GoOnPastBound(start, lowest) == start < lowest /\ start > nonce_bound
GoOnUnbounded(start, lowest) == start < lowest

\* The do-while condition: a chunk that may still hold a lower nonce, fetched
\* before the counter wrapped around.
GoOn(start, lowest) == start < lowest /\ start >= nonce_bound

TestLoop(t) ==
  /\ Goto(t, "test", IF GoOn(nonce_start[t], lowest_nonce_found) THEN "search" ELSE "done")
  /\ UNCHANGED <<valid, next_chunk_to_search, lowest_nonce_found, nonce_start,
                 nonce, curr_nonce, result>>

\* ParallelFor has returned: every task is done.
Finish ==
  /\ result = "running" /\ \A t \in Task : pc[t] = "done"
  /\ result' = IF lowest_nonce_found # MaxWord THEN "nonce" ELSE "No nonce was found."
  /\ UNCHANGED <<valid, next_chunk_to_search, lowest_nonce_found, pc,
                 nonce_start, nonce, curr_nonce>>

Terminated == result # "running" /\ UNCHANGED pow_vars

Step(t) == \/ SearchChunk(t) \/ LoadLowest(t) \/ CompareExchange(t)
           \/ FetchAdd(t) \/ TestLoop(t)

PowNext == (\E t \in Task : Step(t)) \/ Finish \/ Terminated

PowSpec == PowInit /\ [][PowNext]_pow_vars
FairSpec == PowSpec /\ (\A t \in Task : WF_pow_vars(Step(t))) /\ WF_pow_vars(Finish)

-----------------------------------------------------------------------------
\* ProofOfWorkVerifier::Verify.
Verify(n) == n \in valid

\* The chunks SearchChunk really searches: all but the last.
Searched == 0 .. Size - chunk_size - 1

\* The prover's nonce does not depend on the schedule: whatever the threads'
\* interleaving, it is the lowest valid one, so the verifier accepts it and two
\* runs of the prover write the same proof.
ResultIsLowestNonce ==
  result = "nonce" => /\ Verify(lowest_nonce_found)
                      /\ IsLowest(lowest_nonce_found, valid)

\* The assertion fails only if no chunk but the last holds a valid nonce,
\* though each thread gives up on its own and the counter wraps around.
FailureIsJustified ==
  /\ PowTypeOK
  /\ result = "No nonce was found." => valid \cap Searched = {}

\* The search ends, after the counter wrapped around if need be.
SearchEnds == <>(result # "running")
=============================================================================
