----------------------------- MODULE TaskManager -----------------------------
(***************************************************************************)
(* The thread pool of starkware/utils/task_manager.{h,cc,inl}.             *)
(*                                                                         *)
(* Every critical section under mutex_ is one action; so is the code a     *)
(* thread runs between two of them that touches nothing shared.  A thread  *)
(* carries a call stack: the frame <<g, 0>> is call g of ParallelFor       *)
(* suspended in its TaskRunner loop, and the frame <<g, i>>, i > 0, is the *)
(* body of the i-th task of that call.  A thread waiting in ParallelFor    *)
(* executes whatever task is at the back of tasks_, of any group, on top   *)
(* of its own stack.                                                       *)
(***************************************************************************)
EXTENDS Integers, Sequences, FiniteSets

CONSTANTS
  Workers,          \* the n_threads - 1 threads the constructor spawns
  Main,             \* the thread that constructs and destroys the manager
  Groups,           \* the ParallelFor calls of the program; each is made once
  NTasks,           \* NTasks[g]: how many tasks call g is split into
  Inline,           \* the calls on a one-element range: no task is queued
  Throwers,         \* the tasks whose func may throw
  SpuriousWakeups,  \* may a condition variable wake a thread unasked?
  NoGroup, NoExc, Unfinished, Ok

Threads == Workers \cup {Main}
TasksOf(g) == {g} \X (1..NTasks[g])
Task == UNION {TasksOf(g) : g \in Groups}
CallFrame(g) == <<g, 0>>
Frame == Task \cup {CallFrame(g) : g \in Groups}
Exception == Task    \* an exception is named after the task that threw it

ASSUME ConstantsAssumption ==
  /\ IsFiniteSet(Groups) /\ IsFiniteSet(Workers)
  /\ Main \notin Workers
  /\ NTasks \in [Groups -> Nat]
  /\ Inline \subseteq Groups
  /\ \A g \in Inline : NTasks[g] = 1
  /\ Throwers \subseteq Task
  /\ SpuriousWakeups \in BOOLEAN
  /\ NoExc \notin Exception
  /\ Unfinished \notin Exception \cup {Ok}
  /\ Ok \notin Exception
  /\ NoGroup \notin Groups

ASSUME MainAssumption == Main \notin Frame    \* a thread is not a frame

VARIABLES
  tasks,             \* tasks_: taken from the back
  siblings_counter,  \* ParallelFor's local counter, one per call
  eptr,              \* ParallelFor's local exception pointer, one per call
  continue_running,  \* continue_running_
  n_sleeping,        \* n_sleeping_threads_ of each condition variable
  pc, stack,         \* where each thread is, and its frames
  thrown,            \* the exception each thread is unwinding with, or NoExc
  call,              \* has call g been made, and has it returned?
  outcome            \* how the body of each task ended (history)

vars == <<tasks, siblings_counter, eptr, continue_running, n_sleeping, pc,
          stack, thrown, call, outcome>>
shared == <<tasks, siblings_counter, eptr, continue_running>>

NewPendingTask == "new_pending_task"
TaskGroupFinished == "task_group_finished"
CondVar == {NewPendingTask, TaskGroupFinished}

(***************************************************************************)
(* pc[t]:  "body"      running func, or the application's own code         *)
(*         "runner"    at the top of TaskRunner's loop, before the lock    *)
(*         "asleep"    in cv->Wait, not notified                           *)
(*         "woken"     in cv->Wait, notified, waiting for the lock         *)
(*         "returned"  TaskRunner returned, back in ParallelFor            *)
(*         "joining"   in the destructor, joining the workers              *)
(*         "exited"    the thread has ended                                *)
(***************************************************************************)
PC == {"body", "runner", "asleep", "woken", "returned", "joining", "exited"}

TypeOK ==
  /\ tasks \in Seq(Task)
  /\ siblings_counter \in [Groups -> Nat]
  /\ eptr \in [Groups -> Exception \cup {NoExc}]
  /\ continue_running \in {0, 1}
  /\ n_sleeping \in [CondVar -> Nat]
  /\ pc \in [Threads -> PC]
  /\ stack \in [Threads -> Seq(Frame)]
  /\ thrown \in [Threads -> Exception \cup {NoExc}]
  /\ call \in [Groups -> {"new", "active", "returned"}]
  /\ outcome \in [Task -> Exception \cup {Unfinished, Ok}]

Init ==
  /\ tasks = <<>>
  /\ siblings_counter = [g \in Groups |-> 0]
  /\ eptr = [g \in Groups |-> NoExc]
  /\ continue_running = 1
  /\ n_sleeping = [cv \in CondVar |-> 0]
  /\ pc = [t \in Threads |-> IF t = Main THEN "body" ELSE "runner"]
  /\ stack = [t \in Threads |-> <<>>]
  /\ thrown = [t \in Threads |-> NoExc]
  /\ call = [g \in Groups |-> "new"]
  /\ outcome = [x \in Task |-> Unfinished]

-----------------------------------------------------------------------------
Push(t, f) == stack' = [stack EXCEPT ![t] = Append(@, f)]
Pop(t) == stack' = [stack EXCEPT ![t] = SubSeq(@, 1, Len(@) - 1)]
Top(t) == stack[t][Len(stack[t])]

\* The arguments TaskRunner was called with on thread t: a worker's base loop
\* sleeps on new_pending_task_ until continue_running_ is 0, a ParallelFor on
\* task_group_finished_ until its siblings_counter is 0.
AwaitedCv(t) ==
  IF stack[t] = <<>> THEN NewPendingTask ELSE TaskGroupFinished
AwaitedCounter(t) ==
  IF stack[t] = <<>> THEN continue_running ELSE siblings_counter[Top(t)[1]]

Sleepers(cv) == {t \in Threads : pc[t] = "asleep" /\ AwaitedCv(t) = cv}

\* The possible values of pc after notify_one and notify_all.
NotifyOne(cv) ==
  IF Sleepers(cv) = {} THEN {pc}
  ELSE {[pc EXCEPT ![t] = "woken"] : t \in Sleepers(cv)}
NotifyAll(cvs) ==
  [t \in Threads |->
     IF pc[t] = "asleep" /\ AwaitedCv(t) \in cvs THEN "woken" ELSE pc[t]]

\* Whom the last task of a group wakes, and whom the destructor wakes.  (Slips:
\* the wrong condition variable, and one of the two forgotten.)
LastTaskWakesWorkers == {NewPendingTask}
LastTaskWakes == {TaskGroupFinished}
DestructorForgetsWorkers == {TaskGroupFinished}
DestructorWakes == {NewPendingTask, TaskGroupFinished}

\* Slip: the count is not taken down on the way out of Wait.
ReacquiredUncounted(t) == n_sleeping

\* n_sleeping_threads_ once thread t holds the lock: Wait decrements it on the
\* way out.
Reacquired(t) ==
  IF pc[t] = "woken" THEN [n_sleeping EXCEPT ![AwaitedCv(t)] = @ - 1]
  ELSE n_sleeping

-----------------------------------------------------------------------------
\* A thread runs code that may call ParallelFor: func, or the application.
InBody(t) ==
  /\ pc[t] = "body"
  /\ thrown[t] = NoExc

\* Slip: the counter is not raised for the queued tasks.
QueuedUncounted(g) == 0

\* The counter starts at the number of queued tasks.
QueuedCount(g) == NTasks[g]

\* ParallelFor queues one task per split under the lock and then becomes a
\* TaskRunner.  It notifies nobody: the first pop does.
ParallelFor(t, g) ==
  /\ InBody(t) /\ call[g] = "new" /\ g \notin Inline
  /\ siblings_counter' = [siblings_counter EXCEPT ![g] = QueuedCount(g)]
  /\ eptr' = [eptr EXCEPT ![g] = NoExc]
  /\ tasks' = tasks \o [i \in 1..NTasks[g] |-> <<g, i>>]
  /\ call' = [call EXCEPT ![g] = "active"]
  /\ Push(t, CallFrame(g))
  /\ pc' = [pc EXCEPT ![t] = "runner"]
  /\ UNCHANGED <<continue_running, n_sleeping, thrown, outcome>>

\* The early return of ParallelFor: a range of one element is run in place.
ParallelForInline(t, g) ==
  /\ InBody(t) /\ call[g] = "new" /\ g \in Inline
  /\ call' = [call EXCEPT ![g] = "active"]
  /\ Push(t, <<g, 1>>)
  /\ UNCHANGED <<shared, n_sleeping, pc, thrown, outcome>>

-----------------------------------------------------------------------------
\* One pass through TaskRunner's critical section, in one of three ways.
AtLock(t) == pc[t] \in {"runner", "woken"}

Wait(t) ==
  /\ AtLock(t) /\ AwaitedCounter(t) > 0 /\ tasks = <<>>
  /\ n_sleeping' = [Reacquired(t) EXCEPT ![AwaitedCv(t)] = @ + 1]
  /\ pc' = [pc EXCEPT ![t] = "asleep"]
  /\ UNCHANGED <<shared, stack, thrown, call, outcome>>

\* Slip: a caller that finds the queue empty thinks its tasks are done, though
\* other threads are still running them.
LeavesOnEmptyQueue(t) == AwaitedCounter(t) = 0 \/ (stack[t] # <<>> /\ tasks = <<>>)
NothingLeft(t) == AwaitedCounter(t) = 0

LeaveRunner(t) ==
  /\ AtLock(t) /\ NothingLeft(t)
  /\ n_sleeping' = Reacquired(t)
  /\ pc' = [pc EXCEPT ![t] = IF stack[t] = <<>> THEN "exited" ELSE "returned"]
  /\ UNCHANGED <<shared, stack, thrown, call, outcome>>

\* Slip: only the workers' condition variable is tried.
NotifyWorkersOnly(n, queue) ==
  IF queue # <<>> /\ n[NewPendingTask] > 0 THEN NotifyOne(NewPendingTask) ELSE {pc}

\* The values of pc that the wake-ups of a pop leave, given the waiter counts n:
\* nobody is notified for an empty queue; otherwise one waiter for a new task
\* or, if the count says there is none, one waiter for a group.
AfterNotify(n, queue) ==
  IF queue = <<>> THEN {pc}
  ELSE IF n[NewPendingTask] > 0 THEN NotifyOne(NewPendingTask)
  ELSE IF n[TaskGroupFinished] > 0 THEN NotifyOne(TaskGroupFinished)
  ELSE {pc}

\* Slip: the front is read, the back is popped.
FrontTask == tasks[1]
NextTask == tasks[Len(tasks)]

TakeTask(t) ==
  /\ AtLock(t) /\ AwaitedCounter(t) > 0 /\ tasks # <<>>
  /\ tasks' = SubSeq(tasks, 1, Len(tasks) - 1)
  /\ Push(t, NextTask)
  /\ n_sleeping' = Reacquired(t)
  /\ \E awake \in AfterNotify(n_sleeping', tasks') :
       pc' = [awake EXCEPT ![t] = "body"]
  /\ UNCHANGED <<siblings_counter, eptr, continue_running, thrown, call,
                 outcome>>

SpuriousWakeup(t) ==
  /\ SpuriousWakeups
  /\ pc[t] = "asleep"
  /\ pc' = [pc EXCEPT ![t] = "woken"]
  /\ UNCHANGED <<shared, n_sleeping, stack, thrown, call, outcome>>

-----------------------------------------------------------------------------
InTask(t) == pc[t] = "body" /\ stack[t] # <<>>
Ending(t) == IF thrown[t] = NoExc THEN Ok ELSE thrown[t]

Throw(t) ==
  /\ InTask(t) /\ thrown[t] = NoExc /\ Top(t) \in Throwers
  /\ thrown' = [thrown EXCEPT ![t] = Top(t)]
  /\ UNCHANGED <<shared, n_sleeping, pc, stack, call, outcome>>

\* Slip: a task that threw is not counted down.
CountdownOnSuccess(count, exception) ==
  IF exception = NoExc THEN count - 1 ELSE count

\* The counter drops however the body ended.
Countdown(count, exception) == count - 1

\* Slip: every task overwrites the exception pointer, also one that succeeded.
LastException(g, exception) == exception

\* The first exception of the group to take the lock is the one kept.
KeptException(g, exception) ==
  IF exception # NoExc /\ eptr[g] = NoExc THEN exception ELSE eptr[g]

\* The end of a queued task: func returned, or what it threw was caught.  The
\* first exception of the group is kept, the counter drops, and the last task
\* wakes every thread that waits for a group.
FinishTask(t) ==
  LET x == Top(t)
      g == x[1]
  IN /\ InTask(t) /\ g \notin Inline
     /\ eptr' = [eptr EXCEPT ![g] = KeptException(g, thrown[t])]
     /\ siblings_counter' = [siblings_counter EXCEPT ![g] = Countdown(@, thrown[t])]
     /\ pc' = [(IF siblings_counter'[g] = 0
                THEN NotifyAll(LastTaskWakes) ELSE pc)
               EXCEPT ![t] = "runner"]
     /\ thrown' = [thrown EXCEPT ![t] = NoExc]
     /\ outcome' = [outcome EXCEPT ![x] = Ending(t)]
     /\ Pop(t)
     /\ UNCHANGED <<tasks, continue_running, n_sleeping, call>>

\* The end of the fast path: an exception simply goes on through the caller.
FinishInline(t) ==
  LET x == Top(t)
  IN /\ InTask(t) /\ x[1] \in Inline
     /\ outcome' = [outcome EXCEPT ![x] = Ending(t)]
     /\ call' = [call EXCEPT ![x[1]] = "returned"]
     /\ Pop(t)
     /\ UNCHANGED <<shared, n_sleeping, pc, thrown>>

\* ParallelFor returns, or rethrows eptr, which it reads without the lock.
Return(t) ==
  LET g == Top(t)[1]
  IN /\ pc[t] = "returned"
     /\ thrown' = [thrown EXCEPT ![t] = eptr[g]]
     /\ call' = [call EXCEPT ![g] = "returned"]
     /\ Pop(t)
     /\ pc' = [pc EXCEPT ![t] = "body"]
     /\ UNCHANGED <<shared, n_sleeping, outcome>>

-----------------------------------------------------------------------------
\* The application survives an exception that reached it.
Handle ==
  /\ pc[Main] = "body" /\ stack[Main] = <<>> /\ thrown[Main] # NoExc
  /\ thrown' = [thrown EXCEPT ![Main] = NoExc]
  /\ UNCHANGED <<shared, n_sleeping, pc, stack, call, outcome>>

\* The destructor: stop the workers, wake everybody, join.
Shutdown ==
  /\ InBody(Main) /\ stack[Main] = <<>>
  /\ continue_running' = 0
  /\ pc' = [NotifyAll(DestructorWakes) EXCEPT ![Main] = "joining"]
  /\ UNCHANGED <<tasks, siblings_counter, eptr, n_sleeping, stack, thrown,
                 call, outcome>>

JoinWorkers ==
  /\ pc[Main] = "joining" /\ \A t \in Workers : pc[t] = "exited"
  /\ pc' = [pc EXCEPT ![Main] = "exited"]
  /\ UNCHANGED <<shared, n_sleeping, stack, thrown, call, outcome>>

\* The program is over.
Terminated ==
  /\ \A t \in Threads : pc[t] = "exited"
  /\ UNCHANGED vars

Next ==
  \/ \E t \in Threads, g \in Groups : ParallelFor(t, g) \/ ParallelForInline(t, g)
  \/ \E t \in Threads :
       \/ Wait(t) \/ LeaveRunner(t) \/ TakeTask(t)
       \/ SpuriousWakeup(t) \/ Throw(t) \/ FinishTask(t) \/ FinishInline(t)
       \/ Return(t)
  \/ Handle \/ Shutdown \/ JoinWorkers
  \/ Terminated

Spec == Init /\ [][Next]_vars

\* The operating system keeps scheduling every runnable thread, and a thread that
\* asks for mutex_ eventually gets it.  Where a property needs it of the program,
\* func terminates as well.  Nothing obliges the application to make a call or to
\* destroy the manager.
BodyEnds(t) == FinishTask(t) \/ FinishInline(t)
RunnerStep(t) == Wait(t) \/ LeaveRunner(t) \/ TakeTask(t)
SchedulerFairSpec ==
  Spec /\ \A t \in Threads : WF_vars(RunnerStep(t)) /\ WF_vars(Return(t))
ProgramFairness ==
  (\A t \in Threads : WF_vars(BodyEnds(t))) /\ WF_vars(Handle) /\ WF_vars(JoinWorkers)

-----------------------------------------------------------------------------
Running(x) == \E t \in Threads : \E k \in DOMAIN stack[t] : stack[t][k] = x
Queued(x) == \E k \in DOMAIN tasks : tasks[k] = x
InWait(t) == pc[t] \in {"asleep", "woken"}
Waiters(cv) == {t \in Threads : InWait(t) /\ AwaitedCv(t) = cv}
UnfinishedTasks(g) == {x \in TasksOf(g) : outcome[x] = Unfinished}

\* The local counter of a ParallelFor call, decremented by whichever threads
\* happen to run its tasks, is the number of its tasks that are not finished.
SiblingsCountUnfinished ==
  \A g \in Groups \ Inline :
    call[g] = "active" => siblings_counter[g] = Cardinality(UnfinishedTasks(g))

\* A queued or running task holds references to the counter, the exception
\* pointer and the func of the ParallelFor frame that created it: that frame is
\* still on a stack, suspended in TaskRunner, so nothing dangles.
CapturesAlive ==
  \A x \in Task :
    /\ Queued(x) \/ Running(x) => call[x[1]] = "active"
    /\ (Queued(x) \/ Running(x)) /\ x[1] \notin Inline => Running(CallFrame(x[1]))

\* A task is in at most one place, once in the queue or once on one stack, and
\* it is somewhere exactly while its call is active and its body has not ended:
\* no task is lost, run twice or put back.
EachTaskOnce ==
  /\ \A k, l \in DOMAIN tasks : tasks[k] = tasks[l] => k = l
  /\ \A t, u \in Threads : \A k \in DOMAIN stack[t], l \in DOMAIN stack[u] :
       stack[t][k] = stack[u][l] => t = u /\ k = l
  /\ \A x \in Task :
       /\ ~(Queued(x) /\ Running(x))
       /\ call[x[1]] = "active" /\ outcome[x] = Unfinished <=> Queued(x) \/ Running(x)

\* No wake-up is lost: while a task waits in the queue and some thread sleeps,
\* another thread is already on its way to the lock and will take a task (and
\* wake a further sleeper if more are left).
NoLostWakeup ==
  tasks # <<>> /\ (\E t \in Threads : pc[t] = "asleep") =>
    \E u \in Threads : AtLock(u) /\ AwaitedCounter(u) > 0

\* Idle threads join in, even if the tasks being run never end (as in the
\* ThreadIds test, whose tasks wait for each other on a barrier): eventually
\* every queued task is taken or no thread sleeps.
IdleThreadsJoinIn ==
  tasks # <<>> ~> (tasks = <<>> \/ \A t \in Threads : pc[t] # "asleep")

\* ParallelFor "returns when all the tasks complete" (task_manager.h:62), though
\* it reads its counter under a lock it shares with every other group.
ReturnsWhenAllTasksComplete ==
  \A g \in Groups : call[g] = "returned" => UnfinishedTasks(g) = {}

\* n_sleeping_threads_ counts the threads that have not left Wait, the ones
\* already notified included.
WaiterCounts ==
  \A cv \in CondVar : n_sleeping[cv] = Cardinality(Waiters(cv))

\* The destructor never runs while tasks are pending or being run, whatever
\* thread forked them: the error message it can log is never printed.
DestructorFindsNoTasks ==
  continue_running = 0 =>
    /\ tasks = <<>>
    /\ \A t \in Threads : stack[t] = <<>>

\* Every ParallelFor returns, though its tasks run on threads that wait for
\* other groups and may be buried under tasks of those.
EveryCallReturns ==
  ProgramFairness => \A g \in Groups : call[g] = "active" ~> call[g] = "returned"

\* The destructor's join completes: no worker sleeps through the shutdown.
ShutdownCompletes == ProgramFairness => (continue_running = 0 ~> pc[Main] = "exited")

-----------------------------------------------------------------------------
(***************************************************************************)
(* The pool implements fork-join parallelism.  The application's code is   *)
(* Main's code below its first frame; a body is suspended in the call      *)
(* whose frame lies directly above its own.                                *)
(***************************************************************************)
JoiningOf(b) ==
  LET above == (UNION {{stack[t][k + 1] : k \in {k \in 1 .. Len(stack[t]) - 1 : stack[t][k] = b}} :
                         t \in Threads})
                 \cup IF b = Main /\ stack[Main] # <<>> THEN {stack[Main][1]} ELSE {}
  IN IF above = {} THEN NoGroup ELSE (CHOOSE f \in above : TRUE)[1]

InflightOf(b) ==
  LET unwinding == {t \in Threads : /\ thrown[t] # NoExc
                                    /\ IF stack[t] = <<>> THEN t = Main /\ b = Main
                                       ELSE Top(t) = b}
  IN IF unwinding = {} THEN NoExc ELSE thrown[CHOOSE t \in unwinding : TRUE]

FJ == INSTANCE ForkJoin WITH
        Root <- Main,
        forked <- {g \in Groups : call[g] # "new"},
        started <- {x \in Task : Running(x) \/ outcome[x] # Unfinished},
        joining <- [b \in Task \cup {Main} |-> JoiningOf(b)],
        inflight <- [b \in Task \cup {Main} |-> InflightOf(b)]

\* Every behaviour of the pool is one of ForkJoin: a call returns only when all
\* its tasks have finished, it rethrows iff one of them threw, and then one of
\* the exceptions they threw.
ImplementsForkJoin == FJ!Spec
=============================================================================
