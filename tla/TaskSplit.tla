------------------------------ MODULE TaskSplit ------------------------------
(***************************************************************************)
(* The index arithmetic of TaskManager::ParallelFor                        *)
(* (starkware/utils/task_manager.cc): how the range [start_idx, end_idx)   *)
(* is cut into tasks, and every task into the chunks func is called on.    *)
(* Integers are unsigned words of Size = 2^w values.                       *)
(*                                                                         *)
(* A task is the pair <<i, task_end_idx>> of what it has not run yet, so   *)
(* steps of different tasks interleave here as they do in the pool; which  *)
(* thread runs a task is the matter of module TaskManager.                 *)
(***************************************************************************)
EXTENDS Integers, FiniteSets

CONSTANTS
  Size,          \* number of values of a uint64_t
  NumThreads     \* GetNumThreads()

kTaskRedudencyFactor == 4

ASSUME WordAssumption ==
  /\ Size \in Nat /\ NumThreads \in Nat \ {0}
  /\ kTaskRedudencyFactor * NumThreads < Size

Word == 0 .. Size - 1

VARIABLES
  start_idx, end_idx, max_chunk_size_for_lambda, min_work_chunk,  \* arguments
  task_idx,    \* the split loop's cursor
  open_tasks,       \* the tasks queued so far, each with what it still has to run
  calls,       \* the ranges func was called on
  failed       \* did a call of func throw?

args == <<start_idx, end_idx, max_chunk_size_for_lambda, min_work_chunk>>
split_vars == <<args, task_idx, open_tasks, calls, failed>>

-----------------------------------------------------------------------------
\* x + y and x - y as unsigned words.
Plus(x, y) == IF x + y < Size THEN x + y ELSE x + y - Size
Minus(x, y) == IF x >= y THEN x - y ELSE x - y + Size

\* Slip: the quotient is rounded down.
DivFloor(x, y) == x \div y
DivCeil(x, y) == Minus(Plus(x, y), 1) \div y

\* Slip: a sum that wraps around is not noticed.
EndMayWrap(i, chunk_size, bound) ==
  LET res == Plus(i, chunk_size) IN IF res > bound THEN bound ELSE res

\* Where the piece of at most chunk_size elements that starts at i ends.
GetTaskEndIdx(i, chunk_size, bound) ==
  LET res == Plus(i, chunk_size)
  IN IF res < i \/ res > bound THEN bound ELSE res

SplitSize ==
  LET even == DivCeil(Minus(end_idx, start_idx), kTaskRedudencyFactor * NumThreads)
  IN IF even > min_work_chunk THEN even ELSE min_work_chunk

\* The early return: one element is run by the caller itself.
IsInline == Plus(start_idx, 1) = end_idx

-----------------------------------------------------------------------------
\* The calls the code base makes: an ordered range, and chunk sizes of at least
\* one (a max_chunk_size_for_lambda of 0 would never advance).
SplitInit ==
  /\ start_idx \in Word /\ end_idx \in Word /\ start_idx <= end_idx
  /\ max_chunk_size_for_lambda \in Word \ {0}
  /\ min_work_chunk \in Word \ {0}
  /\ task_idx = start_idx
  /\ open_tasks = {}
  /\ calls = {}
  /\ failed = FALSE

RunInline ==
  /\ IsInline /\ calls = {}
  /\ calls' = {<<start_idx, end_idx>>}
  /\ failed' \in BOOLEAN
  /\ UNCHANGED <<args, task_idx, open_tasks>>

\* Slip: the loop stops before a last task smaller than the others.
WholeTaskLeft == task_idx < end_idx /\ SplitSize <= end_idx - task_idx
MoreToQueue == task_idx < end_idx

\* One iteration of the loop that queues the tasks.  The whole loop runs under
\* mutex_: no task starts before it is over.
QueueTask ==
  LET task_end_idx == GetTaskEndIdx(task_idx, SplitSize, end_idx)
  IN /\ ~IsInline /\ MoreToQueue
     /\ open_tasks' = open_tasks \cup {<<task_idx, task_end_idx>>}
     /\ task_idx' = task_end_idx
     /\ UNCHANGED <<args, calls, failed>>

AllQueued == IsInline \/ ~MoreToQueue

\* One iteration of the loop in a task's body: func returns or throws, and a
\* throw ends the task.
RunChunk(task) ==
  LET i == task[1]
      info_end == GetTaskEndIdx(i, max_chunk_size_for_lambda, task[2])
  IN /\ AllQueued /\ i < task[2]
     /\ calls' = calls \cup {<<i, info_end>>}
     /\ \/ /\ open_tasks' = (open_tasks \ {task}) \cup {<<info_end, task[2]>>}
           /\ UNCHANGED failed
        \/ /\ open_tasks' = open_tasks \ {task}
           /\ failed' = TRUE
     /\ UNCHANGED <<args, task_idx>>

Over == IF IsInline THEN calls # {} ELSE AllQueued /\ \A task \in open_tasks : task[1] >= task[2]

SplitOver == Over /\ UNCHANGED split_vars

SplitNext ==
  \/ RunInline
  \/ QueueTask
  \/ \E task \in open_tasks : RunChunk(task)
  \/ SplitOver

SplitSpec == SplitInit /\ [][SplitNext]_split_vars
FairSplitSpec == SplitSpec /\ WF_split_vars(QueueTask) /\ WF_split_vars(RunInline)
                 /\ WF_split_vars(\E task \in open_tasks : RunChunk(task))

-----------------------------------------------------------------------------
AllIndices == start_idx .. end_idx - 1
Indices(r) == r[1] .. r[2] - 1

SplitTypeOK ==
  /\ {start_idx, end_idx, max_chunk_size_for_lambda, min_work_chunk, task_idx}
       \subseteq Word
  /\ open_tasks \subseteq Word \X Word
  /\ calls \subseteq Word \X Word
  /\ failed \in BOOLEAN

\* No index is handed to func twice, whichever tasks run and in which order:
\* the ranges it was called on are disjoint parts of [start_idx, end_idx), of
\* at most max_chunk_size_for_lambda elements and never empty.
NoIndexTwice ==
  /\ \A r \in calls : /\ start_idx <= r[1] /\ r[1] < r[2] /\ r[2] <= end_idx
                      /\ r[2] - r[1] <= max_chunk_size_for_lambda
  /\ \A r, s \in calls : r # s => r[2] <= s[1] \/ s[2] <= r[1]

\* No index is forgotten: once the tasks are queued, and unless func threw,
\* what was run and what tasks still hold is the whole range.
NoIndexForgotten ==
  AllQueued /\ ~failed /\ (IsInline => calls # {}) =>
    \A k \in AllIndices : \E r \in calls \cup open_tasks : k \in Indices(r)

\* The split makes at most kTaskRedudencyFactor tasks per thread, if the sum in
\* DivCeil does not wrap.
FewTasks ==
  (end_idx - start_idx) + kTaskRedudencyFactor * NumThreads <= Size =>
    Cardinality(open_tasks) <= kTaskRedudencyFactor * NumThreads

\* Both loops terminate, with chunk ends that would wrap around included.
Terminates == <>Over
=============================================================================
