# A TLA+ verification project for zk-benchmarks

The repository compares proof systems for verifiable computation. Its own
core logic is the C++ STARK prover and verifier under `src/stone-prover`; the
Rust workspace `src/lambdaworks` holds further provers, and the rest are
benchmark drivers and data. This project models the parts of that code whose
correctness depends on the order of events rather than on field arithmetic,
checks the models with TLC on small instances and proves the central properties
with TLAPS for every value of the constants.

Paths below are relative to `src/stone-prover/src/starkware` unless they start
with `src/`.

## 1. Inventory

| Part | State | Operations | What is hard, and what makes it correct |
|---|---|---|---|
| **TaskManager** `utils/task_manager.*` | queue of tasks, two condition variables with waiter counts, `continue_running_`; per call a counter and an exception pointer on the caller's stack | `ParallelFor`, `TaskRunner`, constructor, destructor | A thread that waits in `ParallelFor` runs tasks of any other call on top of its own stack; wake-ups are passed on one at a time; tasks hold references into stack frames. No task lost or run twice, no lost wake-up, no dangling reference, every call returns, exceptions reach the caller. |
| **Task split** (same files) | cursors into the range | `ParallelFor`'s two loops, `GetTaskEndIdx` | Unsigned sums that wrap. The chunks partition the range. |
| **Proof of work** `channel/proof_of_work.inl` | two atomics shared by tasks | `Prove`, `Verify` | Compare-exchange races, tasks that stop early, a counter that wraps. The nonce does not depend on the schedule. |
| **CachedLdeManager** `algebra/lde/cached_lde_manager.*` | cache per coset, twiddle factors, previous offset, the LDE manager | `AddEvaluation`, `FinalizeAdding`, `EvalOnCoset`, `EvalAtPoints`, ... | A protocol of calls; incremental twiddle factors; assertions that throw half way. What is returned is the evaluation on the coset asked for. |
| LDE and FFT kernels `algebra/lde`, `algebra/fft` | buffers | data-parallel loops | Disjoint outputs per index; needs that the pool partitions the range. |
| Merkle tree `commitment_scheme/merkle` | array of nodes | `AddData`, `GetRoot`, `GenerateDecommitment`, `VerifyDecommitment` | Segments added in any order and in parallel; prover and verifier must agree on an order of nodes that the messages do not name. |
| Packaging, caching schemes, packer `commitment_scheme/*.cc` | queries, missing elements, cached segments | `AddSegmentForCommitment`, `StartDecommitmentPhase`, `Decommit`, `VerifyIntegrity` | Two-phase protocol whose phases recurse through the layers. |
| Table prover and verifier `commitment_scheme/table_*` | queries | `AddSegmentForCommitment`, `Commit`, `StartDecommitmentPhase`, `Decommit` / `Query`, `VerifyDecommitment` | Both sides must enumerate cells in one order. |
| FRI `fri/` | layers, committed layers, evaluation points, queries | commitment phase, query phase | Lock step of the two sides; layers whose evaluation is moved into a lazily built LDE manager; chunks that must be asked for in order. |
| Channels `channel/` | transcript state, phase flags, statistics | send and receive, random draws, `BeginQueryPhase` | Prover and verifier must draw from equal states; nothing may be drawn that was not committed. |
| Hash chain, PRNG `randomness/` | digest, counter, spare bytes | `GetRandomBytes`, `UpdateHashChain`, `MixSeedWithBytes` | Spare bytes are handed out once. |
| STARK protocol `stark/` | trace commitments, composition oracle, OODS values | `ProveStark`, `VerifyStark` | The sequence of messages of the two sides. |
| Composition polynomial `composition_polynomial/` | per-worker memory | `EvalOnCosetBitReversedOutput` | Slots indexed by worker id. |
| AIR components `air/components` | trace, lock, index lists | `WriteTrace`, `Finalize` | Concurrent writers; holes filled in what they left. |
| Bit reversal, `MaybeOwnedPtr`, math `utils/`, `math/` | none, a pointer | pure functions, moves | Permutations; ownership. |
| Statements, mains, proof system | none | glue | Only the exception boundary of `proof_system/proof_system.cc`. |
| Hash functions `crypt_tools/` | none | pure functions | Abstracted in every model. |
| lambdaworks provers, crypto, math, GPU `src/lambdaworks` | transcripts, trees, witness assignments | second implementation of STARK and Plonk | Sequential; the Plonk constraint solver iterates to a fixpoint. |
| Miden tools, drivers, Cairo programs | none | command lines | Nothing to model. |

How they interact: the STARK prover drives committed traces, the composition
oracle and FRI; each of these evaluates columns through `CachedLdeManager` or a
FRI layer, commits through the table prover, the packaging and caching layers
and the Merkle tree, and talks to the verifier through the channel, whose
randomness comes from the hash chain. All heavy loops, and the proof of work in
the channel, are calls of `TaskManager::ParallelFor`, possibly nested. That is
why the thread pool is modelled first: everything else relies on its contract.

`PROJECT.json` lists the hazards line by line, with the properties that cover
them, and the status of every component.

## 2. Modules

| Module | Models | Kind |
|---|---|---|
| `ForkJoin` | what `ParallelFor` promises (`utils/task_manager.h:60-91`) | abstract specification |
| `TaskManager`, `MCTaskManager` | the pool, one action per critical section | detailed, implements `ForkJoin`; instances |
| `TaskSplit` | the index arithmetic of `ParallelFor` | detailed |
| `TaskManagerProofs` | inductive invariant and its theorems, the destructor, wake-ups, that the pool implements `ForkJoin`; and the chunks of `TaskSplit` | proofs |
| `ProofOfWork`, `MCProofOfWork` | the nonce search, one action per atomic access | detailed, instances |
| `CachedLdeManager` | the object's calls in every order | detailed |
| `MerkleTree`, `MerkleTreeProofs` | threads that feed a tree, decommitment and its verification | detailed, proofs |
| `CommitmentLayers`, `MCCommitmentLayers`, `CommitmentLayersProofs` | table prover and verifier over their stacks of commitment schemes | detailed, composes the layers; instances, proofs |
| `HashChain`, `MCHashChain` | the source of random bytes | detailed, instances |
| `ChannelProofs` | the theorems about `ProofOfWork` and `HashChain` | proofs |
| `FriLayer`, `MCFriLayer` | the FRI prover's layers and its commitment phase | detailed, instances |
| `EvaluationProofs` | the theorems about `CachedLdeManager` and `FriLayer`: whoever asks for evaluations gets those it asked for | proofs |
| `FriQueries`, `MCFriQueries`, `FriQueriesProofs` | the query phase of both sides of FRI | detailed, instances, proofs |
| `Protocol`, `MCProtocol`, `ProtocolProofs` | messages and challenges of `ProveStark` and `VerifyStark`, with their channels | detailed, composes STARK, FRI and channels; instances, proofs |
| `TracePools`, `MCTracePools`, `TracePoolsProofs` | the pools behind `CpuAir::GetTrace` | detailed, instances, proofs |

Each model states what it takes from the one below and nothing more:
`ProofOfWork` and `TracePools` use what `TaskManager` shows of `ParallelFor`
(each task once, return after all), `CommitmentLayers` uses a tree that opens to
what was added (`MerkleTree`), `FriQueries` a table that opens to what was
committed (`CommitmentLayers`, `FriLayer`), `Protocol` a PRNG whose bytes are a
function of what was mixed in (`HashChain`) and openings that are right
(`FriQueries`).

### TaskManager

A thread has a program counter and a stack. Frame `<<g, 0>>` is call `g` of
`ParallelFor` suspended in `TaskRunner`, frame `<<g, i>>` the body of its `i`-th
task. A worker's base loop has an empty stack, and so has the application's own
code on the main thread. `AwaitedCv` and `AwaitedCounter` are the two arguments
`TaskRunner` was called with, which follow from the top of the stack.

The mutex is not a variable: each stretch of code under `mutex_` is one action.
`Wait`, `LeaveRunner` and `TakeTask` are the three ways through the critical
section of `TaskRunner`; a thread that was notified goes through the same three,
taking its waiter count down as `Wait` does on return. `FinishTask` is the end
of the task's lambda (the catch, the exception pointer, the countdown, the
wake-up of all waiters), `Return` what follows `TaskRunner` in `ParallelFor`.
`ParallelForInline`/`FinishInline` are the early return for one element, during
which an exception passes through without being caught. `Throw` is `func`
throwing, and an exception handed back by a nested call continues in the body
that made it. Which body makes which call, and when, is left open, so calls
occur one after the other, nested, and from several threads at once.

A task's data are not modelled here: `NTasks[g]` stands for the result of the
split, which is the subject of `TaskSplit`.

### ForkJoin

The contract, without threads, queue or locks: a body forks a group of tasks and
is suspended until all of them have finished; if any threw, it is handed one of
their exceptions. `TaskManager` maps to it: what a body is joining is the call
whose frame lies on top of the body's own, what it unwinds with is the exception
of the thread on whose stack it is topmost.

### TaskSplit

Words have `Size` values instead of 2^64 and sums wrap. `QueueTask` is one
iteration of the loop that queues tasks, `RunChunk` one of the loop in a task's
body; tasks advance in any order. Arguments are what the code base passes: an
ordered range and chunk sizes of at least one.

### ProofOfWork

Tasks take steps at each `load`, compare-exchange and `fetch_add`. The hash is
the set `valid` of nonces it accepts, chosen at the start; `SearchChunk` yields
the lowest valid nonce of a chunk, over a loop bound that wraps for the last
one.

### CachedLdeManager

Sequential; each public operation is an action and the checks cover every order
of calls. Offsets are written additively: the twiddle factors are represented by
the offset they stand for, `ShiftTwiddleFactors` adds the difference, and an
evaluation is represented by the offset it was really computed on.
`RetryAfterFailure` says whether the caller goes on using the object after an
assertion threw: the prover's main lets the exception end the program, the
repository's tests catch it.

### MerkleTree

A hash is written as the index of the node it is the right value of, or `Wrong`;
hashing two children gives the parent's index exactly if both are right and in
order, and `Wrong` otherwise. `AddDataCopy` and `AddDataHash` are a thread's copy of its segment and
one `HashSubLayer` above it; threads interleave. `GetRoot…` starts at the depth
up to which all was hashed by the threads. The two decommitment loops keep the
code's queue and take one action per element, the prover writing and the
verifier reading nodes that no message names; `VerifyStart` may change one leaf
or one node of the proof.

### CommitmentLayers

`ProverLayers` and `VerifierLayers` build the two stacks as
`commitment_scheme_builder.inl` does: they are different on purpose (a Merkle
tree, cached and out-of-memory layers on the prover's side, packaging layers to
the root on the verifier's), and the check is that they still agree on one byte
stream. A value is the name of the element it is right for. The phases are those
of the code: `AddSegment`, `Commit`, `StartDecommitment` down the layers,
`ReturnRequests` back up, `Decommit` down again, and `VerifyIntegrity`;
`NoAssertionFails` covers the assertions on the way (`ASSERT_RELEASE`), which
the model does not assume. Left out: `parallel_table_prover.cc` and the
serialisation of field elements.

### HashChain

A digest is the history of what was hashed into it, a byte a digest and an index.
`GetRandomBytes` is served block by block (`FullBlock`, then `TailFromSpare` or
`TailFromDigest`); `MixSeedWithBytes` may get a message that spells the bytes of
a counter.

### FriLayer

Elements are their positions. A span says which elements of a layer it should
hold and whether it does: it does not if it was computed with the twiddle
factors of another coset, on the wrong domain, or read from a vector that was
moved away. `NextLayer`, `FoldOnce`, `StoreFirstCoset`, `FillChunk`,
`CommitChunk` and `Decommit` are the loops of `CommitmentPhase` and of the
committed layers; the three kinds of layer (in memory, out of memory, proxy)
answer `GetChunk` and `EvalAtPoints` as their classes do.

Sizes of domains are powers of two (`FriLayerAssumption`), and the model starts with
the prover configurations of `FitConfig` only: at least two chunks between layers,
no more than the size below which layers are not cut, and either no more than the
last layer has elements for or steps that fold no chunk away. Nothing in the code
checks this. Any other configuration may stop the prover at an assertion of
`SafeDiv`, which is all the model could show of it.

### FriQueries

The prover may have cheated on committed elements (`cheats`). A fold of what was
committed, in the right coset and with the right evaluation point, gives the
element an honest prover commits to; anything else gives `Wrong`. `Decommit`
writes the proof in the code's order, `Query`, `Compute` and
`VerifyDecommitment` are one turn of `VerifyInnerLayers`, and one value of the
proof may have been changed.

### Protocol

Two sides run as one sequence: the prover to its end, `Deliver`, which may alter,
cut, extend or reorder the proof or give the verifier another statement, then
the verifier. Each action is a function of `stark.cc`, `oods.cc`,
`fri_prover.cc` or `fri_verifier.cc`, with what the channel does on the way. A
PRNG is the list of what was mixed into its seed and the number of draws since;
a challenge is the state it was drawn in. An algebraic check passes if the
messages it reads are the prover's and were made with the same challenges, which
is what makes the order of mixing matter. `Seed` binds the statement as a whole:
which of its fields `CpuAirStatement::GetInitialHashChainSeed` serialises is not
modelled, so `AcceptsOnlyTheProof` would notice a seed that ignores the
statement, not one that leaves out a single field. `Opened` and `Kept` stand for
the verification of decommitments, which `CommitmentLayers` and `MerkleTree` model.

### TracePools

The CPU steps write the memory and the range-check pools concurrently
(`EnterWrite`/`LeaveWrite` around the lock of `MemoryCell::WriteTrace`,
`WriteOffset`). One thread then writes the public memory and the builtin, fills
holes in the order of `GetTrace` (`FillRc`, `BuiltinFinalize`, `FillMem`), sorts,
and ends with the two products, which are the bags of their factors. The size of
a builtin value is checked after its parts are written, so a run that stops there
leaves those of the instances before it and its own (`Reached`). A step makes
one memory access and one range-check write where `cpu_component.inl` makes
several, and the memory has a value at every address: `CpuMemory`'s error for
a missing one is left out. No property depends on either. Addresses
and range-check values are words that wrap at `MaxWord`. The statement is the
input; `MemFits` and `RcFits` say, of the statement alone, whether a trace
exists.

## 3. Runs

| Run | Instance | Shows |
|---|---|---|
| `TaskManager` | 2 workers and the main thread; calls of 2 and 2 tasks and one inline; the first task of each may throw; spurious wake-ups | consistency of the pool in every interleaving (`TypeOK`, `SiblingsCountUnfinished`, `CapturesAlive`, `EachTaskOnce`, `NoLostWakeup`, `WaiterCounts`, `DestructorFindsNoTasks`, `ReturnsWhenAllTasksComplete`), the refinement `ImplementsForkJoin`, and under a fair scheduler `EveryCallReturns`, `ShutdownCompletes`, `IdleThreadsJoinIn` |
| `TaskSplit` | words of 10 values, one thread (four tasks): every range, chunk size and minimal split | the chunks partition the range: `NoIndexTwice`, `NoIndexForgotten`, `FewTasks`, `Terminates` |
| `ProofOfWork` | 12 nonces in chunks of 2, three tasks, every set of at most two valid nonces | `ResultIsLowestNonce`, `FailureIsJustified`, `SearchEnds` |
| `CachedLdeManager` | 3 cosets, at most 2 columns, each configuration, caller stops at an assertion | `EvaluatedOnRequestedCoset`, `TwiddlesMatchPreviousOffset` |
| `CachedLdeManagerUninitialized` | the same with a caller that goes on | violated: the finding below |
| `MerkleTree` | trees of 1 to 8 leaves, every segment length, every query set, proofs with one leaf or node changed | the root is right whatever the interleaving (`EveryNodeRight`), the verifier reads each node as what it was sent as (`ReadsWhatWasSent`), `AcceptsOnlyTheData` |
| `CommitmentLayers` | 8 rows in every cut into packages, segments, cached and out-of-memory layers; up to 4 rows of two columns with every set of integrity queries and every number of friendly layers | `NoAssertionFails`; an untouched proof is accepted and one with a changed element refused (`AcceptsOnlyTheData`) |
| `HashChain` | digests of 3 bytes, requests of up to 7, messages that spell a counter | `SpareFits`, `EveryByteAccounted`, `SeedIsNew` |
| `FriLayer` | lists of up to four steps, with and without a first step of 0, two degree bounds, three blow-up factors, all prover configurations that differ at this size | `NoAssertionFails`, `TablesHoldTheirLayers`, `AnswersAreTheCommitted` |
| `FriQueries` | twelve step lists, every pair of queries, a cheat on any one committed element, any one value of the proof changed | `AcceptsOnlyConsistentPaths`, `RejectsOnlyInconsistentPaths` |
| `Protocol` | seven step lists, with and without interaction and proof of work, every single fault of `Deliver` | `ChallengesBindTheTranscript`, `HonestProofAccepted`, `AcceptsOnlyTheProof` |
| `TracePools` | 6322 statements for two CPU steps, words of three bits | `TracesOnlyAMemory`, `StopsOnlyForTheStatement`, `ColumnsAddUp` |

### Why the bounds are enough

- *TaskManager*: two calls of two tasks are the least in which a thread that
  waits for one call is buried under a task of another whose sibling runs
  elsewhere; with the main thread two workers let a sleeper of each condition
  variable exist next to a running task. What does not depend on the instance
  is proved (section 5).
- *TaskSplit*: ten values with four tasks contain sums that wrap in
  `GetTaskEndIdx` and in `DivCeil`, and ranges that do not divide evenly.
- *ProofOfWork*: six chunks for three tasks give every task a second chunk and
  let the counter wrap under all of them.
- *CachedLdeManager*: three cosets give shifts forward, backward and by more
  than one.
- *MerkleTree*: eight leaves are three levels, so that a query set can leave a
  node unknown on one level and known on the next, and several threads meet
  above their segments.
- *CommitmentLayers*: eight rows give three layers above the rows, the least
  with a cached layer between a packaging layer and the tree and one that is out
  of memory next to it; integrity queries are checked on fewer rows because
  their sets multiply the instance, and of the largest such tables all with two of
  the numbers of friendly layers only.
- *HashChain*: a request of seven bytes takes two digests of three and a tail;
  four counters let a tail exceed, equal or undercut the spare bytes twice in a
  row.
- *FriLayer*: four steps give layers of all three kinds in one list, with two
  folded on the fly in a row.
- *FriQueries*: two queries can be equal, share a row, or meet only on a later
  layer; a third adds no relation between two. One cheat suffices because each
  path is checked element by element.
- *Protocol*: three layers are a first, a middle and a last; every fault is one
  change to one message, which is what a property of order needs.
- *TracePools*: two steps are the least that race for the address range; cells
  left to fill are fewer than, as many as and more than the holes.

Bounds in guards: `MaxColumns` (columns of a `CachedLdeManager`), `MaxRequest`,
`MaxCounter` and `MaxMixes` (`HashChain`; after `MaxCounter` a request stutters
in `OutOfDigests`). Each `ParallelFor` call of the constant set `Groups` is made
at most once. `MaxHeight`, `NumQueries`, `n_queries`, `mask_size`, `n_breaks` and
the sets of configurations bound the instances; `max_integrity` in a configuration of
`CommitmentLayers` bounds its integrity queries.

### Fairness

`SchedulerFairSpec` of `TaskManager` assumes that the operating system runs
every runnable thread and lets it have the mutex eventually (`RunnerStep`,
`Return`), nothing else: the test `ThreadIds`
(`utils/task_manager_test.cc:88-101`) has tasks that wait for each other, so
`IdleThreadsJoinIn` must hold although no body ends. That `func` returns is a
hypothesis, `ProgramFairness`, inside `EveryCallReturns` and
`ShutdownCompletes`. The application need neither make a call nor destroy the
manager. `TaskSplit` and `ProofOfWork` assume that their loops keep running. The
other modules state safety only and assume no fairness.

Deadlock is checked in all runs: the end of a program is a stuttering action
(`Terminated`, `Aborted`, `Finished`, `Done`, `Stopped`), so a state in which
every thread sleeps is an error.

For each property there is a mutation of a mapped definition, in the shape of a
plausible slip, that makes it fail; the slips are defined next to the
definitions they replace and marked as such.

## 4. Findings

Checked as a run:

- `NoUninitializedEvaluation`: `EvalOnCoset` puts the uninitialised entry in the
  cache before it asserts that new values can still be evaluated
  (`algebra/lde/cached_lde_manager.cc:43-50`). A caller that survives the
  failed assertion then finds the coset "cached".

Met while modelling, without consequence for an honest prover:

- `channel/proof_of_work.inl:54`: the bound of the loop in `SearchChunk` wraps
  to 0 for the last chunk, which is never searched, although line 85 says that
  64 bits were. `FailureIsJustified` states what does hold.
- `IsEndOfProof` of the verifier's channel is called nowhere, so bytes after the
  proof are not read and not refused; `AcceptsOnlyTheProof` therefore accepts
  the fault `"longer"`.
- A FRI step of zero after the first layer stops the prover at an assertion
  (`fri/fri_prover.cc:67`), but not the verifier: a statement that the model of
  `Protocol` covers with the list `<<1, 0>>`.
- By reading only: `src/lambdaworks/provers/plonk/src/constraint_system/operations.rs:118`
  says that `v_inverse` is constrained to 0 when `v` is; only the solver's hint
  makes it so, no constraint asks for it.

## 5. Proofs

All theorems hold for every value of the constants that satisfies the named
assumptions of the module (`ConstantsAssumption` and `MainAssumption`,
`WordAssumption`, `PowAssumption`, `LdeAssumption`, `FriLayerAssumption`,
`TreeAssumption`, `HashChainAssumption`, `ProtocolAssumption`, `FriAssumption`,
`PoolsAssumption`, `ConfigurationsAssumption`), which TLC evaluates in the runs.

**TaskManager.** `IInv` (`TaskManagerProofs`) is inductive. The invariants of
interest are not: that counters match needs to know where tasks are, and that
needs the shape of stacks. Its parts are:
`StackUnique`, `QueueUnique` (no frame or task twice); `Shape` (code that calls
lies below the call, a suspended `TaskRunner` below the task it took, and only
the main thread has application code at the bottom); `Tops` (what is on top, by
program counter; a thread that left its loop has counter 0); `Placement` (a task
of an active call is unfinished iff it is queued or on a stack, never both);
`Frames` (a call is active iff its frame is on a stack); `Untouched` (no task of
a call that was not made has run); and the properties `TypeOK`,
`SiblingsCountUnfinished`, `ReturnsWhenAllTasksComplete`, `WaiterCounts`. There
is one lemma per action; lemmas on pushing and popping frames, on the queue, on
wake-ups and on counts are stated once. From `IInv`: `TypeOKTheorem`,
`SiblingsCountTheorem`, `CapturesAliveTheorem`, `EachTaskOnceTheorem`,
`ReturnsTheorem`, `WaiterCountsTheorem`.

**The destructor.** `DestructorTheorem` needs that no thread is in a call when
the main thread is in none. A worker's frames hang below calls on other stacks,
so this is not local to a stack. `Ancestry` adds a map from calls to the set of
their ancestors, strictly smaller for the caller than for the call, and extended
by each new call; the strict subset order on a finite set is well-founded, so a
chain of callers ends in a call with none below it, which `Shape` puts on the
main thread's stack.

**The refinement.** `RefinementTheorem` is `Spec => ImplementsForkJoin`: every
behaviour of the pool is one of `ForkJoin`. The mapped variables `joining` and
`inflight` choose a frame and a thread, so the proof first shows that there is
only one to choose: no frame is on two stacks, hence one frame at most lies on
top of a body (`AboveUnique`) and one thread at most runs it
(`RunsBodyFacts`). A push or a pop then changes both for one body
(`PushMaps`, `PopMaps`, `OtherInflight`). The invariant `RInv` adds two parts to
`IInv`: `Unwinding` (only running code carries an exception) and `Kept` (an
active call's exception pointer holds an exception of one of its finished tasks
once there is one), which is what makes `Return`, reading the pointer without
the lock, a `Join`. There is one lemma per action that maps to a step
(`ForkMaps` to `HandleMaps`); all others change none of the mapped variables
(`StutterStep`).

**Wake-ups.** `NoLostWakeup` is not inductive: the thread on its way to the lock
may be a caller whose counter reaches 0 before it gets there, and which then
returns without taking a task. `WInv` says who is coming for each of the two
predicates of `Wait`. A sleeper has something to wait for (`AsleepWaits`). While
tasks are queued and a worker sleeps, a worker is coming or a caller that has a
task of its own in the queue (`WorkersCalled`): only a pop can take that task
away, and a pop that leaves tasks behind notifies a worker first. While tasks
are queued and a caller sleeps, some thread whose counter is positive is coming
(`CallersCalled`). Workers count as waiting for as long as the destructor has not
run, so `NoLostWakeupTheorem` uses `DestructorTheorem`'s invariant too.

**TaskSplit** (in `TaskManagerProofs`). `NoIndexTwiceTheorem` and `NoIndexForgottenTheorem` follow from
an invariant that says that calls and what tasks still hold tile the part of the
range before `task_idx`; the essential lemma is that `GetTaskEndIdx` returns a
point after its start and not after the bound although its sum may wrap.
`FewTasksTheorem` adds that no task is cut short before the last one, so the
cursor is at `start_idx` plus the number of tasks times `split_size`, and that
as many tasks as are allowed cover the range; it is where rounding up in
`DivCeil` is needed.

**ProofOfWork** (in `ChannelProofs`). `ResultTheorem` and `FailureTheorem` account for every nonce
below the last chunk: it is not valid or the recorded one is not above it, or a
task holds it (in the chunk it searches or as what it found and has not yet
recorded), or its chunk was not fetched yet. That is `Accounted`; the other
parts of the invariant say that chunks begin where chunks may (`Chunked`), that
what was found or recorded is a valid nonce below the last chunk (`Found`), that
a task about to compare and exchange holds a nonce below the value it read
(`Contending`), that the counter is ahead of the chunks held until it has
wrapped (`Ahead`), that a task that stopped at a chunk beyond the bound did so with a
nonce recorded that is not above it (`GaveUp`), and what the result was read
from (`Results`).

**CachedLdeManager** (in `EvaluationProofs`). `LdeTypeOKTheorem` and `TwiddlesTheorem` hold for every
caller, `EvaluatedTheorem` for callers that stop at a failed assertion, with the
invariant that every cached entry was computed on its own coset. The definitions
of the module that `FriLayer` has too carry the prefix `Lde`, as one module extends both.

**HashChain** (in `ChannelProofs`). `SpareFitsTheorem`, `EveryByteAccountedTheorem` and
`NoByteTwiceTheorem` (no byte is given that was given before) rest on the facts
that the digest of the next counter is new, that what was generated is
partitioned into given and spare bytes, and that a tail longer than the spare
bytes leaves fewer spare bytes than a digest has. `SeedIsNewTheorem` counts: every
mix makes the history of the seed longer, so the seed is longer than all seeds
before it; a digest that was handed out is shorter than it too, or was made with
no increment of the seed where `MixSeedWithBytes` increments by one.

**MerkleTree.** `EveryNodeRightTheorem`, `ReadsWhatWasSentTheorem` and
`AcceptsOnlyTheDataTheorem` hold for trees of every height, every partition into
segments, every interleaving and every query set; the only assumption is that
`MaxHeight` is a number and `Wrong` no node. The inductive invariant has three parts.

- *The tree.* A thread is before its copy, in a row of its segment, or done, and
  all rows below the one it hashes are right (`Feeding`); `GetRoot` has right hashes
  in all nodes after `next_root_node` (`Rooting`). Threads do not disturb each other
  because every write of a node puts the right hash there, so right nodes stay
  right (`RightKept`), wherever the others are.
- *The walks.* Both decommitment loops walk the same tree of paths. At a
  head on level `k` the queue holds the paths' nodes of that level from the head
  on, followed by the parents of those already passed, in order (`WalkAt`);
  `WalkStep` shows that one turn of the loop, with or without the sibling in the
  queue, leads to such a state, on the same level or the next one up. What has been
  sent is then a function of the head (`Sent`): the siblings of passed nodes that
  are on no path. It follows that the sibling of a node is at the same place of the
  tape whoever walks (`SentInOrder`, `ReadInOrder`), although the messages name no node.
- *The wrong hash.* An unchanged decommitment leaves only right hashes in the
  verifier's queue; a changed leaf or node is in the queue or still ahead on the
  tape, and a parent of a wrong hash is wrong, so it arrives at the root (`Carried`).

The proofs need arithmetic on powers of two. `Pow2` is a recursive function, and the
facts about it for every exponent are proved in the module: `LeastElement` gives
every non-empty set of numbers a least element (from the well-foundedness of `<`),
`SetInduction` makes of it an induction on sets, and each use defines the set of
numbers for which the claim holds.

**Protocol.** `BindingTheorem`, `HonestTheorem` and `AcceptanceTheorem` hold for
every list of FRI steps, with or without interaction and proof of work, and for
any number of queries, mask values and breaks. The steps of the protocol form a
*script*: `NameAt(i)` is the name of the `i`-th message, `OfAt(i)` what its contents
answer, `Count` how many messages precede a function of either side, `Before` and
`Turn` in which state of the PRNG a challenge is drawn, and `Transcript(side, n)`
the state after `n` messages as that side has them. None of the three properties
is inductive; `IInv` says that the script is followed. `Scripted` and `Seeded`
place the running side in it, `Challenged` gives each challenge drawn its state,
`Faulted` keeps what the transport changed, and `Checked` lists the messages the
verifier has compared with the script when it enters a function: the
out-of-domain values after `VerifyOods`, the nonce after `VerifyPow`, and each
root only when it is opened, which is why a swapped or altered root is found as
late as the query phase. That no challenge is drawn twice, and after each message
of an earlier round, is arithmetic on places (`DrawsDiffer`, `RoundsInOrder`); that
a message read under a name is the one at that place, and a kept root therefore
the right one, is that names of the script differ (`NamesDiffer`). Steps that draw,
send and read have one lemma each (`DrawStep`, `SendStep`, `ReceiveStep`), under
which every action has its own.

**FriQueries.** `AcceptsOnlyConsistentPathsTheorem` and
`RejectsOnlyInconsistentPathsTheorem` hold for every list of FRI steps, every size of
the last layer and any number of queries, equal ones and ones that share a row or a
cell included. Of the inductive invariant, each part answers one question.

- *What is read?* `Message(k, j)` is the `j`-th message about layer `k` and `Start[k]`
  how many precede it; both depend on the queries alone. `Scripted` says that the
  proof is these messages with at most values changed to `Wrong`, `Following` that
  the verifier has read them up to the start of a layer and has found no `Wrong` in
  the layers it has verified. It needs that a set of cells is listed in order, each
  once, on both sides (`CellsInOrder`, from ranks in a finite set of numbers).
- *What is verified?* The cells of a layer's rows are those the proof brings and
  those the results of the layer before go into (`Inserted`): `LayerCells` and
  `LayerQueries` show that these two fill the rows, and that all queries that fall
  on one cell bring the same result to it.
- *What is a result?* `Computed` and `Consistent`: a result is the honest element of
  its path. It is computed from cells that are compared with the commitment only
  afterwards, so `Computed` says it of a layer under verification only if all its
  cells are what the prover committed to. Then `FoldsOfCommitted`, an induction on
  the folds of one layer, makes the coset's fold the element above it; with a step of
  0 nothing is folded, and the result is that of the layer before.

A cell on a path then agrees with the commitment exactly if the prover has not
cheated there (`VerifiedLayer`), and one that does not agree is on a path or was
changed on the way (`WhatFailsToVerify`). `ReadsTheScriptTheorem` adds that each
value is read under the name it was sent with. The arithmetic is that of division by powers of
two, repeated (`DivisionTwice`, `Pow2Adds`, `RowAndColumn`).

**TracePools.** `TracesOnlyAMemoryTheorem`, `StopsOnlyForTheStatementTheorem` and
`ColumnsAddUpTheorem` hold for every number of steps, cells, instances and parts,
every word size of at least two values above 0, and every statement. The
inductive invariant is `Inv`: `IInv`, or `Stuck`, which is a run stopped at a
builtin value that is too large, after writing parts that no other action will
read. `IInv` has, besides the types:

- *What was written.* `MemCells`, `Columns` and `RcCells` give each cell's content
  in terms of the statement and of how far its component is (`PublicDone`,
  `InstanceDone`, ...). While the steps run, the address range is that of all
  cells but the one of the step that holds the lock (`RangeOfCells`), and that step
  has read the range as it still is (`Locking`).
- *Filling.* Both Finalize methods walk a hole upwards. `RcFilling` and `MemFilling`
  say that nothing is missing below it and that, as long as a hole is left above
  it, the cells filled so far hold different values that were all missing. If holes
  remain in the end, there were more of them than free cells (`InjectBound`); if not, the
  free cells cover the holes (`CoverBound`): `RcRoom` and `MemRoom` turn either into
  `RcFits` and `MemFits`, which speak of the statement alone. Spare cells of the
  memory get one address after the last, those of the range check `rc_max`.
- *Sorting.* `Sorting` orders the rows and says that equal addresses have shown
  equal values. A row that is not the successor of the one before it has, as the
  addresses have no gap, its address, and a different value; `ClashIsUnfit` then
  finds two pairs of the statement that disagree, or an instance without private
  input at a given address, or so many instances that one is at the last address.

That the last product is the expected one (`SameFactors`) is counting: the sorted
rows are the cells in another order, and the public entries are paired off with
the cells that were zeroed. That a builtin's value is what its parts spell
(`PartsSpell`) is an induction on the parts, from `IntervalRecursion`, which says
that a definition by recursion on an interval has a solution.

**FriLayer** (in `EvaluationProofs`). `FriInvariantTheorem`, `NoAssertionFailsTheorem`,
`TablesHoldTheirLayersTheorem` and `AnswersAreTheCommittedTheorem` hold for every list
of steps, every size of domain and every configuration of the prover that `FitConfig`
allows. The three properties say what the layers give; that they give it depends on
sizes, and sizes on decisions taken several layers before. `IInv` has a part for each.

- *What layers hold.* A layer in memory is whole, one out of memory has its first
  coset or the LDE of it (`SoundLayers`). A chunk asked of such a layer is right
  (`StoredIsRight`, `CopiedIsRight`), and so is one asked of a stack of proxies
  (`FoldedIsRight`), as layers and chunks double from one proxy to the one below
  (`Doubling`).
- *How long chunks are.* Chunk and layer are powers of two that can be halved as often
  as the turn still folds (`Sizes`). `NextChunk` shows that `CalculateChunkSize`, which
  may halve the chunk, cut the layer into as many as configured or leave it whole, keeps
  this; it is where `FitConfig` is needed. The chunk of an out-of-memory layer stays
  the degree bound (`FirstCosets`), so the coset that `StoreFirstCoset` asks for is the
  chunk that is there, and it determines the layer.
- *What was decided.* Once a layer is in memory all later ones are, and a layer stays
  out of memory only if it leaves two rows for the next (`Decided`). This is why
  `CommitmentPhase` never extends a layer it holds in memory from a coset, and why
  a table segment has two rows (`SegmentsHaveTwoRows`).
- *Where a loop is.* What was gathered is the layer up to the chunk the loop is at, and
  the twiddle factors in the storage are those of the chunk before, if any were needed
  (`Looped`, `TwiddlesFollow`); what the tables were given is then the whole layer
  (`Tabled`).

**CommitmentLayers.** `NoAssertionFailsTheorem` and `AcceptsOnlyTheDataTheorem` hold
for every height, every size of packages, every cut into segments, cached and
out-of-memory layers that the builder accepts, every number of friendly layers, every
set of queries and of integrity queries. `LayersInv` has a part for each phase.

- *The stack.* `Stacked` describes what the builder's loop makes: from one layer to
  the next the depth drops by one exactly below a packaging layer, and inner
  layers hash pairs with the kind of hash their depth calls for (`BuiltStack`, an
  induction on the layers from inner to outer).
- *Segments.* `Filled`: a caching layer and the tree hold the right value of every
  element of a segment that was added, in whatever order (`SegmentFlow`,
  `AddSegmentStep`).
- *Queries in.* `Starting`: a layer's queries are the images of the rows' under the
  hashings outside it, and what it misses are the other elements of their packages
  (`LaterStep` keeps this to the end).
- *Requests out.* `Asking` says that there is, for each layer, the list `ask[j]` of the
  elements it asks for: what it misses, then the elements of the packages that the
  layer inside asked for, or nothing if it is a cache. All are different, and
  none is queried (`PackagingAsks`): the packages asked for are none of those queried,
  so their elements are neither queried nor in a package with one that is.
- *Data in.* On the way down the data are the right values of `ask[j]`, in order;
  `PackagingHands` shows that what is left after the layer's own elements are taken are
  whole packages in the order asked for, so their hashes are the right values of
  `ask[j + 1]`.

`DataInv` adds what is sent and read, which is the same although the two sides stack
different layers. The queries alone determine the names of all messages: the elements
that level 0 requires besides the queried ones, then those of level 1, and so on
(`Start` and `NameAt`, with the `Count` messages of the root's level at the end).

- *The prover's layers.* `Sending`: when the data have come down to a layer, what was
  sent are the right values of the names of the levels above it (`PackagingSends`; a
  caching layer sends nothing and stays on its level, `CachingSends`).
- *The tree.* `Climbing`: its queue lists the nodes of a level from an even element on,
  then the parents of the queried ones before it, and of the elements that the
  level requires those before it are sent. A turn passes one pair of siblings:
  if both are queried, both leave the queue and nothing is sent, otherwise the other
  one is next on the level's list (`WalkTurn`, `PassedTurn`). At the end of a level the
  queue is that of the next (`WalkUp`). So the tree goes on where the packaging
  layers of the verifier do.
- *The verifier.* `Verifying`: before level `k` it has read the messages of the levels
  before `k`, and one of its elements or a message still ahead is wrong if
  and only if something was changed (`Reading`). A layer's hash is right exactly if all
  elements of its package are (`LayerHash`), and each message of a level is an element of
  such a package (`CoveredElements`): no change is lost on the way to the root, which is
  compared with the one committed to (`ReadsRoot`).

Only model-checked: liveness. Liveness under fairness and `ENABLED` are out of the
prover's reach. Induction is available over sets of numbers, as in `MerkleTreeProofs`,
`FriQueriesProofs`, `TracePoolsProofs`, `EvaluationProofs` and `CommitmentLayersProofs`, but not as a rule about an operator, which the prover cannot
instantiate.

## 6. Not modelled

Most of the repository's lines are not program logic: of about 109 thousand
implementation lines the generated constraint systems
(`air/cpu/board/cpu_air_definition*.inl`) alone are more than half, followed by
tables of elliptic-curve constants, field and big-integer arithmetic, FFT
kernels and the polynomial arithmetic of the Rust provers. They are sequential
straight-line computations on 252-bit values; TLC can neither evaluate nor
usefully abstract them, so the share of lines that the map covers stays small
whatever is added. What is left out of the rest:

- *Pool*: `GetInstance` (`std::call_once`), thread-local worker ids, and a
  failing `sched_setscheduler`. The scratch memory that
  `parallel_table_prover.cc` and `composition_polynomial.inl` keep per worker is
  not modelled: nothing that runs while it is held calls `ParallelFor`.
- *LDE and FFT kernels, field arithmetic, bit reversal*: pure functions.
  `TaskSplit` shows the partition their parallel loops rely on; `FriLayer` and
  `CachedLdeManager` which coset they are asked for.
- *AIR*: the diluted pool and the builtins other than the range check, which
  compute curve points and hashes; the constraints.
- *Hash functions, statements (with the fields of the seed), mains, JSON, annotations, statistics*: pure or
  glue.
- *lambdaworks*: a second, sequential implementation of the same protocols. Its
  Merkle tree and transcript are counterparts of what is modelled here; its
  Plonk constraint system shares nothing with the rest.

## 7. What could follow

1. An abstract commitment that opens only to what was committed, implemented by
   `CommitmentLayers` and used by `FriQueries`.
2. Worker slots: worker ids and scratch memory in `TaskManager`'s stacks, and a
   `ParallelFor` whose scheduler call may throw.
3. The constraint solver of the lambdaworks Plonk prover as a fixpoint.
