-------------------------- MODULE TaskManagerProofs --------------------------
(***************************************************************************)
(* The safety of the thread pool, for any number of workers and of calls,  *)
(* however deeply they nest, that it implements ForkJoin, and the chunks   *)
(* that ParallelFor cuts a range into.                                     *)
(***************************************************************************)
EXTENDS TaskManager, TaskSplit, TLAPS, FiniteSetTheorems, SequenceTheorems, WellFoundedInduction

-----------------------------------------------------------------------------
\* Frames and tasks.

LEMMA FrameFacts ==
  /\ Task \subseteq Frame
  /\ \A x \in Task : x[1] \in Groups /\ x[2] \in 1..NTasks[x[1]] /\ x = <<x[1], x[2]>>
  /\ \A g \in Groups : CallFrame(g) \in Frame /\ CallFrame(g) \notin Task
  /\ \A f \in Frame : f[1] \in Groups /\ (f \notin Task => f = CallFrame(f[1]))
  /\ \A g \in Groups : CallFrame(g)[1] = g
  BY ConstantsAssumption DEF Frame, Task, TasksOf, CallFrame

LEMMA TasksOfFacts ==
  ASSUME NEW g \in Groups
  PROVE  /\ TasksOf(g) = {x \in Task : x[1] = g}
         /\ IsFiniteSet(TasksOf(g))
         /\ Cardinality(TasksOf(g)) = NTasks[g]
         /\ \A i \in 1..NTasks[g] : <<g, i>> \in TasksOf(g)
<1>1. NTasks[g] \in Nat
  BY ConstantsAssumption
<1>2. IsFiniteSet(1..NTasks[g]) /\ Cardinality(1..NTasks[g]) = NTasks[g]
  <2> DEFINE n == NTasks[g]
  <2>1. n \in Int /\ 1 \in Int
    BY <1>1
  <2> HIDE DEF n
  <2>2. /\ IsFiniteSet(1..n)
        /\ Cardinality(1..n) = IF 1 > n THEN 0 ELSE n - 1 + 1
    BY <2>1, FS_Interval, Zenon
  <2>3. Cardinality(1..n) = n
    BY <1>1, <2>2 DEF n
  <2>4. QED
    BY <2>2, <2>3 DEF n
<1>3. IsFiniteSet({g}) /\ Cardinality({g}) = 1
  BY FS_Singleton, Zenon
<1>4. IsFiniteSet(TasksOf(g)) /\ Cardinality(TasksOf(g)) = 1 * NTasks[g]
  <2>1. PICK S : S = {g}
    OBVIOUS
  <2>2. PICK T : T = 1..NTasks[g]
    OBVIOUS
  <2>3. /\ IsFiniteSet(S) /\ Cardinality(S) = 1
        /\ IsFiniteSet(T) /\ Cardinality(T) = NTasks[g]
    BY <1>2, <1>3, <2>1, <2>2
  <2>4. IsFiniteSet(S \X T) /\ Cardinality(S \X T) = Cardinality(S) * Cardinality(T)
    BY <2>3, FS_Product, Zenon
  <2>5. TasksOf(g) = S \X T
    BY <2>1, <2>2 DEF TasksOf
  <2>6. QED
    BY <2>3, <2>4, <2>5
<1>5. TasksOf(g) = {x \in Task : x[1] = g}
  BY DEF Task, TasksOf
<1>6. QED
  BY <1>1, <1>4, <1>5 DEF TasksOf

LEMMA UnfinishedFinite ==
  ASSUME NEW g \in Groups
  PROVE  IsFiniteSet(UnfinishedTasks(g)) /\ Cardinality(UnfinishedTasks(g)) \in Nat
  BY TasksOfFacts, FS_Subset, FS_CardinalityType DEF UnfinishedTasks

-----------------------------------------------------------------------------
\* The stacks.

StackTyped == stack \in [Threads -> Seq(Frame)]

StackUnique ==
  \A t, u \in Threads : \A k \in DOMAIN stack[t], l \in DOMAIN stack[u] :
    stack[t][k] = stack[u][l] => t = u /\ k = l

LEMMA TopFacts ==
  ASSUME StackTyped, NEW t \in Threads, stack[t] # <<>>
  PROVE  /\ Len(stack[t]) \in Nat \ {0}
         /\ DOMAIN stack[t] = 1..Len(stack[t])
         /\ Top(t) \in Frame
         /\ Running(Top(t))
<1>1. stack[t] \in Seq(Frame)
  BY DEF StackTyped
<1>2. Len(stack[t]) \in Nat \ {0} /\ DOMAIN stack[t] = 1..Len(stack[t])
  BY <1>1, EmptySeq, LenProperties
<1>3. Len(stack[t]) \in 1..Len(stack[t])
  BY <1>2
<1>4. Top(t) \in Frame
  BY <1>1, <1>3, ElementOfSeq DEF Top
<1>5. QED
  BY <1>2, <1>3, <1>4 DEF Running, Top

\* What Push does to one stack, and to the set of frames on all stacks.
LEMMA PushFacts ==
  ASSUME StackTyped, NEW t \in Threads, NEW f \in Frame, Push(t, f)
  PROVE  /\ StackTyped'
         /\ Len(stack[t]) \in Nat
         /\ stack'[t] # <<>>
         /\ Len(stack'[t]) = Len(stack[t]) + 1
         /\ DOMAIN stack[t] = 1..Len(stack[t])
         /\ DOMAIN stack'[t] = 1..Len(stack[t]) + 1
         /\ \A k \in 1..Len(stack[t]) : stack'[t][k] = stack[t][k]
         /\ stack'[t][Len(stack[t]) + 1] = f
         /\ Top(t)' = f
         /\ \A u \in Threads \ {t} : stack'[u] = stack[u]
<1>1. stack[t] \in Seq(Frame) /\ stack'[t] = Append(stack[t], f)
  BY DEF StackTyped, Push
<1>2. \A u \in Threads \ {t} : stack'[u] = stack[u]
  BY DEF StackTyped, Push
<1>3. stack'[t] \in Seq(Frame)
  BY <1>1, AppendProperties
<1>4. StackTyped'
  BY <1>1, <1>3 DEF StackTyped, Push
<1>5. Len(stack[t]) \in Nat /\ DOMAIN stack[t] = 1..Len(stack[t])
  BY <1>1, LenProperties
<1>6. /\ Len(stack'[t]) = Len(stack[t]) + 1 /\ stack'[t] # <<>>
      /\ \A k \in 1..Len(stack[t]) : stack'[t][k] = stack[t][k]
      /\ stack'[t][Len(stack[t]) + 1] = f
  BY <1>1, AppendProperties
<1>7. DOMAIN stack'[t] = 1..Len(stack'[t])
  BY <1>3, LenProperties
<1>8. QED
  BY <1>2, <1>4, <1>5, <1>6, <1>7 DEF Top

LEMMA PushRunning ==
  ASSUME StackTyped, NEW t \in Threads, NEW f \in Frame, Push(t, f)
  PROVE  /\ \A x : Running(x)' <=> Running(x) \/ x = f
         /\ StackUnique /\ ~Running(f) => StackUnique'
<1>1. /\ Len(stack[t]) \in Nat
      /\ DOMAIN stack[t] = 1..Len(stack[t])
      /\ DOMAIN stack'[t] = 1..Len(stack[t]) + 1
      /\ \A k \in 1..Len(stack[t]) : stack'[t][k] = stack[t][k]
      /\ stack'[t][Len(stack[t]) + 1] = f
      /\ \A u \in Threads \ {t} : stack'[u] = stack[u]
  BY PushFacts
<1>2. \A k \in DOMAIN stack'[t] : k \in DOMAIN stack[t] \/ k = Len(stack[t]) + 1
  BY <1>1
<1>3. DOMAIN stack[t] \subseteq DOMAIN stack'[t] /\ Len(stack[t]) + 1 \in DOMAIN stack'[t]
  BY <1>1
<1>4. ASSUME NEW x PROVE Running(x)' <=> Running(x) \/ x = f
  <2>1. ASSUME Running(x)' PROVE Running(x) \/ x = f
    <3>1. PICK u \in Threads : \E k \in DOMAIN stack'[u] : stack'[u][k] = x
      BY <2>1 DEF Running
    <3>2. QED
      BY <1>1, <1>2, <3>1 DEF Running
  <2>2. ASSUME Running(x) PROVE Running(x)'
    <3>1. PICK u \in Threads : \E k \in DOMAIN stack[u] : stack[u][k] = x
      BY <2>2 DEF Running
    <3>2. QED
      BY <1>1, <1>3, <3>1 DEF Running
  <2>3. Running(f)'
    BY <1>1, <1>3 DEF Running
  <2>4. QED
    BY <2>1, <2>2, <2>3
<1>5. ASSUME StackUnique, ~Running(f) PROVE StackUnique'
  <2> SUFFICES ASSUME NEW u \in Threads, NEW v \in Threads,
                      NEW k \in DOMAIN stack'[u], NEW l \in DOMAIN stack'[v],
                      stack'[u][k] = stack'[v][l]
               PROVE  u = v /\ k = l
    BY DEF StackUnique
  <2>1. \/ k \in DOMAIN stack[u] /\ stack'[u][k] = stack[u][k] /\ stack[u][k] # f
        \/ u = t /\ k = Len(stack[t]) + 1 /\ stack'[u][k] = f
    <3>1. CASE u = t
      BY <1>1, <1>2, <1>5, <3>1 DEF Running
    <3>2. CASE u # t
      BY <1>1, <1>5, <3>2 DEF Running
    <3>3. QED
      BY <3>1, <3>2
  <2>2. \/ l \in DOMAIN stack[v] /\ stack'[v][l] = stack[v][l] /\ stack[v][l] # f
        \/ v = t /\ l = Len(stack[t]) + 1 /\ stack'[v][l] = f
    <3>1. CASE v = t
      BY <1>1, <1>2, <1>5, <3>1 DEF Running
    <3>2. CASE v # t
      BY <1>1, <1>5, <3>2 DEF Running
    <3>3. QED
      BY <3>1, <3>2
  <2>3. QED
    BY <2>1, <2>2, <1>5 DEF StackUnique
<1>6. QED
  BY <1>4, <1>5

\* What Pop does to one stack, and to the set of frames on all stacks.
LEMMA PopFacts ==
  ASSUME StackTyped, NEW t \in Threads, stack[t] # <<>>, Pop(t)
  PROVE  /\ StackTyped'
         /\ Len(stack[t]) \in Nat \ {0}
         /\ DOMAIN stack[t] = 1..Len(stack[t])
         /\ Len(stack'[t]) = Len(stack[t]) - 1
         /\ DOMAIN stack'[t] = 1..Len(stack[t]) - 1
         /\ stack'[t] = <<>> <=> Len(stack[t]) = 1
         /\ \A k \in 1..Len(stack[t]) - 1 : stack'[t][k] = stack[t][k]
         /\ \A u \in Threads \ {t} : stack'[u] = stack[u]
<1>1. stack[t] \in Seq(Frame) /\ stack'[t] = SubSeq(stack[t], 1, Len(stack[t]) - 1)
  BY DEF StackTyped, Pop
<1>2. \A u \in Threads \ {t} : stack'[u] = stack[u]
  BY DEF StackTyped, Pop
<1>3. Len(stack[t]) \in Nat \ {0} /\ DOMAIN stack[t] = 1..Len(stack[t])
  BY TopFacts
<1>4. \A k \in 1..Len(stack[t]) - 1 : stack[t][k] \in Frame
  BY <1>1, <1>3, ElementOfSeq
<1>5. /\ stack'[t] \in Seq(Frame)
      /\ Len(stack'[t]) = Len(stack[t]) - 1
      /\ \A k \in 1..Len(stack[t]) - 1 : stack'[t][k] = stack[t][k]
  <2> DEFINE n == Len(stack[t]) - 1
  <2>1. /\ SubSeq(stack[t], 1, n) \in Seq(Frame)
        /\ Len(SubSeq(stack[t], 1, n)) = IF 1 <= n THEN n - 1 + 1 ELSE 0
        /\ \A k \in 1..n - 1 + 1 : SubSeq(stack[t], 1, n)[k] = stack[t][1 + k - 1]
    BY <1>3, <1>4, SubSeqProperties
  <2>2. QED
    BY <1>1, <1>3, <2>1
<1>6. StackTyped'
  BY <1>1, <1>5 DEF StackTyped, Pop
<1>7. DOMAIN stack'[t] = 1..Len(stack[t]) - 1
  BY <1>5, LenProperties
<1>8. stack'[t] = <<>> <=> Len(stack[t]) = 1
  <2>1. stack'[t] = <<>> => Len(stack'[t]) = 0
    BY EmptySeq
  <2>2. stack'[t] # <<>> => Len(stack'[t]) # 0
    BY <1>5, EmptySeq
  <2>3. QED
    BY <1>3, <1>5, <2>1, <2>2
<1>9. QED
  BY <1>2, <1>3, <1>5, <1>6, <1>7, <1>8

LEMMA PopRunning ==
  ASSUME StackTyped, StackUnique, NEW t \in Threads, stack[t] # <<>>, Pop(t)
  PROVE  /\ \A x : Running(x)' <=> Running(x) /\ x # Top(t)
         /\ StackUnique'
<1>1. /\ Len(stack[t]) \in Nat \ {0}
      /\ DOMAIN stack[t] = 1..Len(stack[t])
      /\ DOMAIN stack'[t] = 1..Len(stack[t]) - 1
      /\ \A k \in 1..Len(stack[t]) - 1 : stack'[t][k] = stack[t][k]
      /\ \A u \in Threads \ {t} : stack'[u] = stack[u]
  BY PopFacts
<1>2. /\ DOMAIN stack'[t] \subseteq DOMAIN stack[t]
      /\ \A k \in DOMAIN stack[t] : k \in DOMAIN stack'[t] \/ k = Len(stack[t])
      /\ Len(stack[t]) \in DOMAIN stack[t] /\ Len(stack[t]) \notin DOMAIN stack'[t]
  BY <1>1
<1>3. \A u \in Threads : \A k : k \in DOMAIN stack'[u] =>
        k \in DOMAIN stack[u] /\ stack'[u][k] = stack[u][k] /\ (u = t => k # Len(stack[t]))
  BY <1>1, <1>2
<1>4. ASSUME NEW x PROVE Running(x)' <=> Running(x) /\ x # Top(t)
  <2>1. ASSUME Running(x)' PROVE Running(x) /\ x # Top(t)
    <3>0. PICK u \in Threads : \E k \in DOMAIN stack'[u] : stack'[u][k] = x
      BY <2>1 DEF Running
    <3>1. PICK k \in DOMAIN stack'[u] : stack'[u][k] = x
      BY <3>0
    <3>2. QED
      BY <1>2, <1>3, <3>1 DEF Running, StackUnique, Top
  <2>2. ASSUME Running(x), x # Top(t) PROVE Running(x)'
    <3>0. PICK u \in Threads : \E k \in DOMAIN stack[u] : stack[u][k] = x
      BY <2>2 DEF Running
    <3>1. PICK k \in DOMAIN stack[u] : stack[u][k] = x
      BY <3>0
    <3>2. k \in DOMAIN stack'[u] /\ stack'[u][k] = x
      BY <1>1, <1>2, <2>2, <3>1 DEF Top
    <3>3. QED
      BY <3>2 DEF Running
  <2>3. QED
    BY <2>1, <2>2
<1>5. StackUnique'
  BY <1>3 DEF StackUnique
<1>6. QED
  BY <1>4, <1>5

-----------------------------------------------------------------------------
\* The queue.

QueueTyped == tasks \in Seq(Task)

QueueUnique == \A k, l \in DOMAIN tasks : tasks[k] = tasks[l] => k = l

LEMMA Cancellation == \A x, y, z \in Int : x - z = y - z => x = y
  OBVIOUS

LEMMA QueueGroup ==
  ASSUME QueueTyped, NEW g \in Groups,
         tasks' = tasks \o [i \in 1..NTasks[g] |-> <<g, i>>]
  PROVE  /\ QueueTyped'
         /\ \A x : Queued(x)' <=> Queued(x) \/ x \in TasksOf(g)
         /\ QueueUnique /\ (\A x \in TasksOf(g) : ~Queued(x)) => QueueUnique'
<1> DEFINE n == NTasks[g]
           m == Len(tasks)
           new == [i \in 1..n |-> <<g, i>>]
<1>1. n \in Nat /\ new \in [1..n -> Task]
  BY ConstantsAssumption, TasksOfFacts DEF Task
<1>2. new \in Seq(Task)
  BY <1>1, SeqDef
<1>3. Len(new) = n
  <2>1. Len(new) \in Nat /\ DOMAIN new = 1..Len(new) /\ DOMAIN new = 1..n
    BY <1>1, <1>2, LenProperties
  <2>2. QED
    BY <1>1, <2>1
<1>4. m \in Nat /\ DOMAIN tasks = 1..m
  BY LenProperties DEF QueueTyped
<1>5. /\ tasks' \in Seq(Task)
      /\ Len(tasks') = m + n
      /\ \A k \in 1..m + n : tasks'[k] = IF k <= m THEN tasks[k] ELSE new[k - m]
  <2>1. tasks' = tasks \o new /\ tasks \in Seq(Task)
    BY DEF QueueTyped
  <2> HIDE DEF new
  <2>2. /\ tasks \o new \in Seq(Task)
        /\ Len(tasks \o new) = Len(tasks) + Len(new)
        /\ \A k \in 1..Len(tasks) + Len(new) :
             (tasks \o new)[k] = IF k <= Len(tasks) THEN tasks[k] ELSE new[k - Len(tasks)]
    BY <1>2, <2>1, ConcatProperties
  <2>3. QED
    BY <1>3, <2>1, <2>2
<1>6. DOMAIN tasks' = 1..m + n
  BY <1>5, LenProperties
<1>7. /\ \A k \in 1..m : k \in 1..m + n /\ tasks'[k] = tasks[k]
      /\ \A i \in 1..n : m + i \in 1..m + n /\ tasks'[m + i] = <<g, i>>
      /\ \A k \in 1..m + n : k \in 1..m \/ (k - m \in 1..n /\ tasks'[k] = <<g, k - m>>)
  BY <1>1, <1>4, <1>5
<1> HIDE DEF n, m, new
<1>8. ASSUME NEW x PROVE Queued(x)' <=> Queued(x) \/ x \in TasksOf(g)
  <2>1. x \in TasksOf(g) <=> \E i \in 1..n : x = <<g, i>>
    BY DEF TasksOf, n
  <2>2. Queued(x) <=> \E k \in 1..m : tasks[k] = x
    BY <1>4 DEF Queued
  <2>3. Queued(x)' <=> \E k \in 1..m + n : tasks'[k] = x
    BY <1>6 DEF Queued
  <2>4. QED
    BY <1>7, <2>1, <2>2, <2>3
<1>9. ASSUME QueueUnique, \A x \in TasksOf(g) : ~Queued(x) PROVE QueueUnique'
  <2>1. \A i \in 1..n, k \in 1..m : tasks[k] # <<g, i>>
    BY <1>4, <1>9 DEF Queued, TasksOf, n
  <2>2. \A k, l \in 1..m : tasks[k] = tasks[l] => k = l
    BY <1>4, <1>9 DEF QueueUnique
  <2> SUFFICES ASSUME NEW k \in 1..m + n, NEW l \in 1..m + n, tasks'[k] = tasks'[l]
               PROVE  k = l
    BY <1>6 DEF QueueUnique
  <2>3. CASE k \in 1..m /\ l \in 1..m
    BY <1>7, <2>2, <2>3
  <2>4. CASE k \notin 1..m /\ l \notin 1..m
    <3>1. <<g, k - m>> = <<g, l - m>>
      BY <1>7, <2>4
    <3>2. k - m = l - m
      BY <3>1
    <3>3. m \in Int /\ n \in Int
      BY <1>1, <1>4
    <3>4. k \in Int /\ l \in Int
      BY <3>3
    <3>5. QED
      BY <3>2, <3>3, <3>4, Cancellation
  <2>5. CASE k \in 1..m /\ l \notin 1..m
    <3>1. tasks[k] = tasks'[l] /\ l - m \in 1..n /\ tasks'[l] = <<g, l - m>>
      BY <1>7, <2>5
    <3>2. QED
      BY <2>1, <2>5, <3>1
  <2>6. CASE k \notin 1..m /\ l \in 1..m
    <3>1. tasks[l] = tasks'[k] /\ k - m \in 1..n /\ tasks'[k] = <<g, k - m>>
      BY <1>7, <2>6
    <3>2. QED
      BY <2>1, <2>6, <3>1
  <2>7. QED
    BY <2>3, <2>4, <2>5, <2>6
<1>10. QED
  BY <1>5, <1>8, <1>9 DEF QueueTyped

LEMMA PopQueue ==
  ASSUME QueueTyped, QueueUnique, tasks # <<>>, tasks' = SubSeq(tasks, 1, Len(tasks) - 1)
  PROVE  /\ QueueTyped'
         /\ NextTask \in Task /\ Queued(NextTask)
         /\ \A x : Queued(x)' <=> Queued(x) /\ x # NextTask
         /\ QueueUnique'
<1> DEFINE n == Len(tasks) - 1
<1>1. Len(tasks) \in Nat \ {0} /\ DOMAIN tasks = 1..Len(tasks)
  BY EmptySeq, LenProperties DEF QueueTyped
<1>2. \A k \in 1..n : tasks[k] \in Task
  BY <1>1, ElementOfSeq DEF QueueTyped
<1>3. /\ SubSeq(tasks, 1, n) \in Seq(Task)
      /\ Len(SubSeq(tasks, 1, n)) = IF 1 <= n THEN n - 1 + 1 ELSE 0
      /\ \A k \in 1..n - 1 + 1 : SubSeq(tasks, 1, n)[k] = tasks[1 + k - 1]
  BY <1>1, <1>2, SubSeqProperties
<1>4. /\ tasks' \in Seq(Task) /\ Len(tasks') = n
      /\ \A k \in 1..n : tasks'[k] = tasks[k]
  BY <1>1, <1>3
<1>5. DOMAIN tasks' = 1..n
  BY <1>4, LenProperties
<1>6. /\ DOMAIN tasks' \subseteq DOMAIN tasks
      /\ \A k \in DOMAIN tasks : k \in DOMAIN tasks' \/ k = Len(tasks)
      /\ Len(tasks) \in DOMAIN tasks /\ Len(tasks) \notin DOMAIN tasks'
      /\ \A k \in DOMAIN tasks' : tasks'[k] = tasks[k]
  BY <1>1, <1>4, <1>5
<1>7. NextTask \in Task /\ Queued(NextTask)
  BY <1>1, <1>6, ElementOfSeq DEF QueueTyped, NextTask, Queued
<1>8. \A x : Queued(x)' => Queued(x) /\ x # NextTask
  BY <1>6 DEF Queued, QueueUnique, NextTask
<1>9. \A x : Queued(x) /\ x # NextTask => Queued(x)'
  BY <1>6 DEF Queued, NextTask
<1>10. QueueUnique'
  BY <1>6 DEF QueueUnique
<1>11. QED
  BY <1>4, <1>7, <1>8, <1>9, <1>10 DEF QueueTyped

-----------------------------------------------------------------------------
\* The order of the frames on a stack.  Code that calls ParallelFor lies below
\* the call, a suspended TaskRunner lies below the task it has taken.

IsCallee(f) == f \notin Task \/ f[1] \in Inline

BodyTop(t) == IF stack[t] = <<>> THEN t = Main ELSE Top(t) \in Task
RunnerTop(t) == IF stack[t] = <<>> THEN t # Main ELSE Top(t) \notin Task

Shape ==
  \A t \in Threads : \A k \in 1..Len(stack[t]) :
    /\ IsCallee(stack[t][k]) => IF k = 1 THEN t = Main ELSE stack[t][k - 1] \in Task
    /\ ~IsCallee(stack[t][k]) => IF k = 1 THEN t # Main ELSE stack[t][k - 1] \notin Task

LEMMA ShapePush ==
  ASSUME StackTyped, Shape, NEW t \in Threads, NEW f \in Frame, Push(t, f),
         IsCallee(f) => BodyTop(t), ~IsCallee(f) => RunnerTop(t)
  PROVE  Shape'
<1>1. /\ Len(stack[t]) \in Nat
      /\ Len(stack'[t]) = Len(stack[t]) + 1
      /\ \A k \in 1..Len(stack[t]) : stack'[t][k] = stack[t][k]
      /\ stack'[t][Len(stack[t]) + 1] = f
      /\ \A u \in Threads \ {t} : stack'[u] = stack[u]
  BY PushFacts
<1>2. stack[t] = <<>> <=> Len(stack[t]) = 0
  BY <1>1, EmptySeq DEF StackTyped
<1> SUFFICES ASSUME NEW u \in Threads, NEW k \in 1..Len(stack'[u])
             PROVE  /\ IsCallee(stack'[u][k]) =>
                         IF k = 1 THEN u = Main ELSE stack'[u][k - 1] \in Task
                    /\ ~IsCallee(stack'[u][k]) =>
                         IF k = 1 THEN u # Main ELSE stack'[u][k - 1] \notin Task
  BY DEF Shape, IsCallee
<1>3. CASE u # t
  BY <1>1, <1>3 DEF Shape
<1>4. CASE u = t /\ k = Len(stack[t]) + 1
  <2>1. k = 1 <=> stack[t] = <<>>
    BY <1>1, <1>2, <1>4
  <2>2. k # 1 => stack'[u][k - 1] = Top(t)
    BY <1>1, <1>4 DEF Top
  <2>3. QED
    BY <1>1, <1>4, <2>1, <2>2 DEF BodyTop, RunnerTop
<1>5. CASE u = t /\ k # Len(stack[t]) + 1
  <2>1. k \in 1..Len(stack[t])
    BY <1>1, <1>5
  <2>2. k # 1 => k - 1 \in 1..Len(stack[t])
    BY <1>1, <2>1
  <2>3. stack'[u][k] = stack[u][k] /\ (k # 1 => stack'[u][k - 1] = stack[u][k - 1])
    BY <1>1, <1>5, <2>1, <2>2
  <2>4. QED
    BY <1>5, <2>1, <2>3 DEF Shape
<1>6. QED
  BY <1>3, <1>4, <1>5

LEMMA ShapePop ==
  ASSUME StackTyped, Shape, NEW t \in Threads, stack[t] # <<>>, Pop(t)
  PROVE  /\ Shape'
         /\ IsCallee(Top(t)) => BodyTop(t)'
         /\ ~IsCallee(Top(t)) => RunnerTop(t)'
<1>1. /\ Len(stack[t]) \in Nat \ {0}
      /\ Len(stack'[t]) = Len(stack[t]) - 1
      /\ stack'[t] = <<>> <=> Len(stack[t]) = 1
      /\ \A k \in 1..Len(stack[t]) - 1 : stack'[t][k] = stack[t][k]
      /\ \A u \in Threads \ {t} : stack'[u] = stack[u]
  BY PopFacts
<1>2. ASSUME NEW u \in Threads, NEW k \in 1..Len(stack'[u])
      PROVE  /\ k \in 1..Len(stack[u])
             /\ stack'[u][k] = stack[u][k]
             /\ k # 1 => stack'[u][k - 1] = stack[u][k - 1]
  <2>1. CASE u # t
    BY <1>1, <2>1
  <2>2. CASE u = t
    <3>1. k \in 1..Len(stack[t]) - 1 /\ k \in 1..Len(stack[t])
      BY <1>1, <2>2
    <3>2. k # 1 => k - 1 \in 1..Len(stack[t]) - 1
      BY <1>1, <3>1
    <3>3. QED
      BY <1>1, <2>2, <3>1, <3>2
  <2>3. QED
    BY <2>1, <2>2
<1>3. Shape'
  <2> SUFFICES ASSUME NEW u \in Threads, NEW k \in 1..Len(stack'[u])
               PROVE  /\ IsCallee(stack'[u][k]) =>
                           IF k = 1 THEN u = Main ELSE stack'[u][k - 1] \in Task
                      /\ ~IsCallee(stack'[u][k]) =>
                           IF k = 1 THEN u # Main ELSE stack'[u][k - 1] \notin Task
    BY DEF Shape, IsCallee
  <2>1. QED
    BY <1>2 DEF Shape
<1>4. /\ IsCallee(Top(t)) => IF Len(stack[t]) = 1 THEN t = Main
                              ELSE stack[t][Len(stack[t]) - 1] \in Task
      /\ ~IsCallee(Top(t)) => IF Len(stack[t]) = 1 THEN t # Main
                               ELSE stack[t][Len(stack[t]) - 1] \notin Task
  <2>1. t \in Threads /\ Len(stack[t]) \in 1..Len(stack[t])
    BY <1>1
  <2>2. QED
    BY <2>1 DEF Shape, Top
<1>5. Len(stack[t]) # 1 => Top(t)' = stack[t][Len(stack[t]) - 1]
  BY <1>1 DEF Top
<1>6. QED
  BY <1>1, <1>3, <1>4, <1>5 DEF BodyTop, RunnerTop

-----------------------------------------------------------------------------
\* Sleeping and waking.

Wakes(awake) ==
  /\ awake \in [Threads -> PC]
  /\ \A t \in Threads : awake[t] = pc[t] \/ (pc[t] = "asleep" /\ awake[t] = "woken")

LEMMA NotifyAllWakes ==
  ASSUME pc \in [Threads -> PC], NEW cvs
  PROVE  Wakes(NotifyAll(cvs))
  BY DEF Wakes, NotifyAll, PC

LEMMA NotifyOneWakes ==
  ASSUME pc \in [Threads -> PC], NEW cv, NEW awake \in NotifyOne(cv)
  PROVE  Wakes(awake)
<1>1. CASE awake = pc
  BY <1>1 DEF Wakes
<1>2. CASE \E t \in Sleepers(cv) : awake = [pc EXCEPT ![t] = "woken"]
  BY <1>2 DEF Wakes, Sleepers, PC
<1>3. QED
  BY <1>1, <1>2 DEF NotifyOne

LEMMA AfterNotifyWakes ==
  ASSUME pc \in [Threads -> PC], NEW n, NEW queue, NEW awake \in AfterNotify(n, queue)
  PROVE  Wakes(awake)
<1>1. CASE awake = pc
  BY <1>1 DEF Wakes
<1>2. CASE awake \in NotifyOne(NewPendingTask) \cup NotifyOne(TaskGroupFinished)
  BY <1>2, NotifyOneWakes
<1>3. QED
  BY <1>1, <1>2 DEF AfterNotify

LEMMA WaitersFinite ==
  ASSUME NEW cv
  PROVE  IsFiniteSet(Waiters(cv)) /\ Cardinality(Waiters(cv)) \in Nat
<1>1. IsFiniteSet(Threads)
  BY ConstantsAssumption, FS_AddElement DEF Threads
<1>2. QED
  BY <1>1, FS_Subset, FS_CardinalityType DEF Waiters

LEMMA AwaitedCvType == \A t : AwaitedCv(t) \in CondVar
  BY DEF AwaitedCv, CondVar

\* The counts survive a step in which t is not in Wait, before or after.
LEMMA CountsKept ==
  ASSUME WaiterCounts, NEW t \in Threads, ~InWait(t), ~InWait(t)',
         \A u \in Threads \ {t} : (InWait(u)' <=> InWait(u)) /\ stack'[u] = stack[u],
         n_sleeping' = n_sleeping
  PROVE  WaiterCounts'
<1>1. \A cv : Waiters(cv)' = Waiters(cv)
  BY DEF Waiters, AwaitedCv
<1>2. QED
  BY <1>1 DEF WaiterCounts

\* Leaving Wait takes t out of the count.
LEMMA ReacquiredCounts ==
  ASSUME WaiterCounts, n_sleeping \in [CondVar -> Nat], NEW t \in Threads, AtLock(t)
  PROVE  /\ Reacquired(t) \in [CondVar -> Nat]
         /\ \A cv \in CondVar : Reacquired(t)[cv] = Cardinality(Waiters(cv) \ {t})
<1>1. \A cv \in CondVar : /\ n_sleeping[cv] = Cardinality(Waiters(cv))
                           /\ IsFiniteSet(Waiters(cv))
  BY WaitersFinite DEF WaiterCounts
<1>2. AwaitedCv(t) \in CondVar
  BY AwaitedCvType
<1>3. CASE pc[t] = "woken"
  <2>1. \A cv \in CondVar : t \in Waiters(cv) <=> cv = AwaitedCv(t)
    BY <1>3 DEF Waiters, InWait
  <2>2. ASSUME NEW cv \in CondVar
        PROVE  Cardinality(Waiters(cv) \ {t}) =
                 IF cv = AwaitedCv(t) THEN n_sleeping[cv] - 1 ELSE n_sleeping[cv]
    BY <1>1, <2>1, FS_RemoveElement
  <2>3. Cardinality(Waiters(AwaitedCv(t)) \ {t}) \in Nat
    BY <1>1, <1>2, FS_RemoveElement, FS_CardinalityType
  <2>4. n_sleeping[AwaitedCv(t)] - 1 \in Nat
    BY <1>2, <2>2, <2>3
  <2>5. Reacquired(t) = [n_sleeping EXCEPT ![AwaitedCv(t)] = @ - 1]
    BY <1>3 DEF Reacquired
  <2>6. QED
    BY <1>2, <2>2, <2>4, <2>5
<1>4. CASE pc[t] # "woken"
  <2>1. \A cv \in CondVar : t \notin Waiters(cv)
    BY <1>4 DEF Waiters, InWait, AtLock
  <2>2. \A cv \in CondVar : Waiters(cv) \ {t} = Waiters(cv)
    BY <2>1
  <2>3. Reacquired(t) = n_sleeping
    BY <1>4 DEF Reacquired
  <2>4. QED
    BY <1>1, <2>2, <2>3
<1>5. QED
  BY <1>3, <1>4

LEMMA CountsLeave ==
  ASSUME WaiterCounts, n_sleeping \in [CondVar -> Nat], NEW t \in Threads, AtLock(t),
         ~InWait(t)',
         \A u \in Threads \ {t} : (InWait(u)' <=> InWait(u)) /\ stack'[u] = stack[u],
         n_sleeping' = Reacquired(t)
  PROVE  WaiterCounts'
<1>1. \A cv : Waiters(cv)' = Waiters(cv) \ {t}
  BY DEF Waiters, AwaitedCv
<1>2. QED
  BY <1>1, ReacquiredCounts DEF WaiterCounts

LEMMA CountsEnter ==
  ASSUME WaiterCounts, n_sleeping \in [CondVar -> Nat], NEW t \in Threads, Wait(t),
         pc \in [Threads -> PC]
  PROVE  WaiterCounts' /\ n_sleeping' \in [CondVar -> Nat]
<1>1. /\ AtLock(t) /\ stack' = stack
      /\ n_sleeping' = [Reacquired(t) EXCEPT ![AwaitedCv(t)] = @ + 1]
      /\ \A u \in Threads \ {t} : pc'[u] = pc[u]
      /\ pc'[t] = "asleep"
  BY DEF Wait
<1>2. \A cv : Waiters(cv)' = IF cv = AwaitedCv(t) THEN (Waiters(cv) \ {t}) \cup {t}
                             ELSE Waiters(cv) \ {t}
  BY <1>1 DEF Waiters, AwaitedCv, InWait
<1>3. /\ Reacquired(t) \in [CondVar -> Nat]
      /\ \A cv \in CondVar : Reacquired(t)[cv] = Cardinality(Waiters(cv) \ {t})
  BY <1>1, ReacquiredCounts
<1>4. AwaitedCv(t) \in CondVar
  BY AwaitedCvType
<1>5. ASSUME NEW cv \in CondVar
      PROVE  n_sleeping'[cv] = Cardinality(Waiters(cv)')
  <2>1. IsFiniteSet(Waiters(cv) \ {t})
    BY WaitersFinite, FS_RemoveElement
  <2>2. Cardinality((Waiters(cv) \ {t}) \cup {t}) = Cardinality(Waiters(cv) \ {t}) + 1
    BY <2>1, FS_AddElement
  <2>3. QED
    BY <1>1, <1>2, <1>3, <1>4, <2>2
<1>6. WaiterCounts'
  BY <1>5 DEF WaiterCounts
<1>7. n_sleeping' \in [CondVar -> Nat]
  BY <1>1, <1>3, <1>4
<1>8. QED
  BY <1>6, <1>7

-----------------------------------------------------------------------------
(***************************************************************************)
(* The inductive invariant.                                                *)
(***************************************************************************)

\* What is on top of a thread's stack, by what the thread is doing.
TopAt(t) ==
  /\ pc[t] = "body" => BodyTop(t)
  /\ pc[t] \in {"runner", "asleep", "woken"} => RunnerTop(t)
  /\ pc[t] = "returned" => /\ stack[t] # <<>>
                           /\ Top(t) \notin Task
                           /\ siblings_counter[Top(t)[1]] = 0
  /\ pc[t] \in {"joining", "exited"} => stack[t] = <<>>

Tops == \A t \in Threads : TopAt(t)

\* Where the tasks of an active call are.
Placement ==
  \A x \in Task :
    /\ ~(Queued(x) /\ Running(x))
    /\ call[x[1]] = "active" /\ outcome[x] = Unfinished <=> Queued(x) \/ Running(x)
    /\ Queued(x) => x[1] \notin Inline

\* A call is active exactly while its frame is on a stack.
Frames ==
  \A g \in Groups : Running(CallFrame(g)) <=> call[g] = "active" /\ g \notin Inline

Untouched == \A x \in Task : call[x[1]] = "new" => outcome[x] = Unfinished

IInv ==
  /\ TypeOK
  /\ StackUnique /\ QueueUnique /\ Shape /\ Tops
  /\ Placement /\ Frames /\ Untouched
  /\ SiblingsCountUnfinished /\ ReturnsWhenAllTasksComplete
  /\ WaiterCounts

LEMMA InitIInv == Init => IInv
<1> SUFFICES ASSUME Init PROVE IInv
  OBVIOUS
<1> USE DEF Init
<1>1. \A t \in Threads : stack[t] = <<>> /\ DOMAIN stack[t] = {} /\ Len(stack[t]) = 0
  BY EmptySeq
<1>2. tasks = <<>> /\ DOMAIN tasks = {}
  OBVIOUS
<1>3. TypeOK
  <2>1. tasks \in Seq(Task) /\ stack \in [Threads -> Seq(Frame)]
    BY EmptySeq
  <2>2. Main \in Threads /\ pc \in [Threads -> PC]
    BY DEF Threads, PC
  <2>3. QED
    BY <2>1, <2>2 DEF TypeOK
<1>4. \A x : ~Running(x) /\ ~Queued(x)
  BY <1>1, <1>2 DEF Running, Queued
<1>5. StackUnique /\ QueueUnique /\ Shape
  BY <1>1, <1>2 DEF StackUnique, QueueUnique, Shape
<1>6. Tops
  BY <1>1 DEF Tops, TopAt, BodyTop, RunnerTop
<1>7. \A g \in Groups : call[g] = "new"
  OBVIOUS
<1>8. Placement /\ Frames /\ Untouched
  BY <1>4, <1>7, FrameFacts DEF Placement, Frames, Untouched
<1>9. SiblingsCountUnfinished /\ ReturnsWhenAllTasksComplete
  BY <1>7 DEF SiblingsCountUnfinished, ReturnsWhenAllTasksComplete
<1>10. WaiterCounts
  <2>1. \A cv : Waiters(cv) = {}
    BY DEF Waiters, InWait
  <2>2. QED
    BY <2>1, FS_EmptySet DEF WaiterCounts
<1>11. QED
  BY <1>3, <1>5, <1>6, <1>8, <1>9, <1>10 DEF IInv

\* Threads other than t keep what is on top of their stacks, if at most woken.
LEMMA TopsStep ==
  ASSUME Tops, NEW t \in Threads, TopAt(t)',
         \A u \in Threads \ {t} :
           /\ stack'[u] = stack[u]
           /\ pc'[u] = pc[u] \/ (pc[u] = "asleep" /\ pc'[u] = "woken")
           /\ pc[u] = "returned" => siblings_counter'[Top(u)[1]] = siblings_counter[Top(u)[1]]
  PROVE  Tops'
<1> SUFFICES ASSUME NEW u \in Threads \ {t} PROVE TopAt(u)'
  BY DEF Tops
<1>1. TopAt(u) /\ stack'[u] = stack[u] /\ Top(u)' = Top(u)
  BY DEF Tops, Top
<1>2. BodyTop(u)' = BodyTop(u) /\ RunnerTop(u)' = RunnerTop(u)
  BY <1>1 DEF BodyTop, RunnerTop
<1>3. QED
  BY <1>1, <1>2 DEF TopAt

\* A step that leaves tasks, stacks and calls alone.
LEMMA QuietStep ==
  ASSUME IInv, UNCHANGED <<stack, tasks, siblings_counter, call, outcome>>,
         TypeOK', Tops', WaiterCounts'
  PROVE  IInv'
<1>1. (\A x : Running(x)' <=> Running(x)) /\ (\A x : Queued(x)' <=> Queued(x))
  BY DEF Running, Queued
<1>2. StackUnique' /\ QueueUnique' /\ Shape'
  BY DEF IInv, StackUnique, QueueUnique, Shape, IsCallee
<1>3. Placement' /\ Frames' /\ Untouched'
  BY <1>1 DEF IInv, Placement, Frames, Untouched
<1>4. SiblingsCountUnfinished' /\ ReturnsWhenAllTasksComplete'
  BY DEF IInv, SiblingsCountUnfinished, ReturnsWhenAllTasksComplete, UnfinishedTasks
<1>5. QED
  BY <1>2, <1>3, <1>4 DEF IInv

LEMMA MainIsAThread == Main \in Threads /\ Workers \subseteq Threads
  BY DEF Threads

-----------------------------------------------------------------------------
LEMMA WaitStep ==
  ASSUME IInv, NEW t \in Threads, Wait(t)
  PROVE  IInv'
<1>1. WaiterCounts' /\ n_sleeping' \in [CondVar -> Nat]
  BY CountsEnter DEF IInv, TypeOK
<1>2. pc' = [pc EXCEPT ![t] = "asleep"] /\ UNCHANGED <<shared, stack, thrown, call, outcome>>
      /\ pc[t] \in {"runner", "woken"}
  BY DEF Wait, AtLock
<1>3. TypeOK'
  BY <1>1, <1>2 DEF IInv, TypeOK, shared, PC
<1>4. Tops'
  <2>1. TopAt(t)'
    BY <1>2, <1>3 DEF IInv, TypeOK, Tops, TopAt, RunnerTop, Top
  <2>2. QED
    BY <1>2, <2>1, TopsStep DEF IInv, TypeOK, shared
<1>5. QED
  BY <1>1, <1>2, <1>3, <1>4, QuietStep DEF shared

LEMMA LeaveRunnerStep ==
  ASSUME IInv, NEW t \in Threads, LeaveRunner(t)
  PROVE  IInv'
<1>1. /\ n_sleeping' = Reacquired(t) /\ AtLock(t) /\ AwaitedCounter(t) = 0
      /\ pc' = [pc EXCEPT ![t] = IF stack[t] = <<>> THEN "exited" ELSE "returned"]
      /\ UNCHANGED <<shared, stack, thrown, call, outcome>>
  BY DEF LeaveRunner, NothingLeft
<1>2. pc'[t] \in {"exited", "returned"} /\ \A u \in Threads \ {t} : pc'[u] = pc[u]
  BY <1>1 DEF IInv, TypeOK
<1>3. WaiterCounts'
  BY <1>1, <1>2, CountsLeave DEF IInv, TypeOK, InWait
<1>4. TypeOK'
  <2>1. n_sleeping' \in [CondVar -> Nat]
    BY <1>1, ReacquiredCounts DEF IInv, TypeOK
  <2>2. pc' \in [Threads -> PC]
    BY <1>1 DEF IInv, TypeOK, PC
  <2>3. QED
    BY <1>1, <2>1, <2>2 DEF IInv, TypeOK, shared
<1>5. Tops'
  <2>1. RunnerTop(t)
    BY <1>1 DEF IInv, Tops, TopAt, AtLock
  <2>2. TopAt(t)'
    <3>1. CASE stack[t] = <<>>
      BY <1>1, <1>2, <3>1 DEF TopAt, IInv, TypeOK
    <3>2. CASE stack[t] # <<>>
      <4>1. Top(t) \notin Task /\ siblings_counter[Top(t)[1]] = 0
        BY <1>1, <2>1, <3>2 DEF RunnerTop, AwaitedCounter
      <4>2. pc'[t] = "returned" /\ stack'[t] = stack[t] /\ Top(t)' = Top(t)
        BY <1>1, <3>2 DEF IInv, TypeOK, Top
      <4>3. QED
        BY <1>1, <3>2, <4>1, <4>2 DEF TopAt, shared
    <3>3. QED
      BY <3>1, <3>2
  <2>3. QED
    BY <1>1, <1>2, <2>2, TopsStep DEF IInv, shared
<1>6. QED
  BY <1>1, <1>3, <1>4, <1>5, QuietStep DEF shared

\* Steps that move no frame and change no count: t stays awake, others may be
\* woken.
LEMMA AwakeStep ==
  ASSUME IInv, NEW t \in Threads, TopAt(t)', TypeOK',
         ~InWait(t), ~InWait(t)',
         UNCHANGED <<stack, tasks, siblings_counter, call, outcome, n_sleeping>>,
         \A u \in Threads \ {t} : pc'[u] = pc[u] \/ (pc[u] = "asleep" /\ pc'[u] = "woken")
  PROVE  IInv'
<1>1. Tops'
  BY TopsStep DEF IInv
<1>2. WaiterCounts'
  <2>1. \A u \in Threads \ {t} : InWait(u)' <=> InWait(u)
    BY DEF InWait
  <2>2. QED
    BY <2>1, CountsKept DEF IInv
<1>3. QED
  BY <1>1, <1>2, QuietStep

LEMMA SpuriousWakeupStep ==
  ASSUME IInv, NEW t \in Threads, SpuriousWakeup(t)
  PROVE  IInv'
<1>1. /\ pc[t] = "asleep" /\ pc' = [pc EXCEPT ![t] = "woken"]
      /\ UNCHANGED <<shared, n_sleeping, stack, thrown, call, outcome>>
  BY DEF SpuriousWakeup
<1>2. TypeOK'
  BY <1>1 DEF IInv, TypeOK, shared, PC
<1>3. \A cv : Waiters(cv)' = Waiters(cv)
  BY <1>1 DEF IInv, TypeOK, Waiters, InWait, AwaitedCv
<1>4. WaiterCounts'
  BY <1>1, <1>3 DEF IInv, WaiterCounts
<1>5. Tops'
  <2>1. TopAt(t)'
    BY <1>1 DEF IInv, TypeOK, Tops, TopAt, RunnerTop, Top
  <2>2. QED
    BY <1>1, <2>1, TopsStep DEF IInv, TypeOK, shared
<1>6. QED
  BY <1>1, <1>2, <1>4, <1>5, QuietStep DEF shared

LEMMA ThrowStep ==
  ASSUME IInv, NEW t \in Threads, Throw(t)
  PROVE  IInv'
<1>1. /\ pc[t] = "body" /\ stack[t] # <<>>
      /\ thrown' = [thrown EXCEPT ![t] = Top(t)]
      /\ UNCHANGED <<shared, n_sleeping, pc, stack, call, outcome>>
  BY DEF Throw, InTask
<1>2. BodyTop(t) /\ Top(t) \in Task
  BY <1>1 DEF IInv, Tops, TopAt, BodyTop
<1>3. TypeOK'
  BY <1>1, <1>2 DEF IInv, TypeOK, shared, Exception
<1>4. TopAt(t)'
  BY <1>1, <1>2 DEF TopAt, BodyTop, Top
<1>5. QED
  BY <1>1, <1>3, <1>4, AwakeStep DEF InWait, shared

LEMMA HandleStep ==
  ASSUME IInv, Handle
  PROVE  IInv'
<1>1. /\ pc[Main] = "body" /\ stack[Main] = <<>>
      /\ thrown' = [thrown EXCEPT ![Main] = NoExc]
      /\ UNCHANGED <<shared, n_sleeping, pc, stack, call, outcome>>
  BY DEF Handle
<1>2. TypeOK'
  BY <1>1, MainIsAThread DEF IInv, TypeOK, shared
<1>3. TopAt(Main)'
  BY <1>1 DEF TopAt, BodyTop
<1>4. QED
  BY <1>1, <1>2, <1>3, MainIsAThread, AwakeStep DEF InWait, shared

LEMMA ShutdownStep ==
  ASSUME IInv, Shutdown
  PROVE  IInv'
<1>1. /\ pc[Main] = "body" /\ stack[Main] = <<>> /\ continue_running' = 0
      /\ pc' = [NotifyAll(DestructorWakes) EXCEPT ![Main] = "joining"]
      /\ UNCHANGED <<tasks, siblings_counter, eptr, n_sleeping, stack, thrown, call, outcome>>
  BY DEF Shutdown, InBody
<1>2. Wakes(NotifyAll(DestructorWakes))
  BY NotifyAllWakes DEF IInv, TypeOK
<1>3. /\ pc' \in [Threads -> PC] /\ pc'[Main] = "joining"
      /\ \A u \in Threads \ {Main} :
           pc'[u] = pc[u] \/ (pc[u] = "asleep" /\ pc'[u] = "woken")
  BY <1>1, <1>2, MainIsAThread DEF Wakes, PC
<1>4. TypeOK'
  BY <1>1, <1>3 DEF IInv, TypeOK
<1>5. TopAt(Main)'
  BY <1>1, <1>3 DEF TopAt
<1>6. QED
  BY <1>1, <1>3, <1>4, <1>5, MainIsAThread, AwakeStep DEF InWait

LEMMA JoinWorkersStep ==
  ASSUME IInv, JoinWorkers
  PROVE  IInv'
<1>1. /\ pc[Main] = "joining" /\ pc' = [pc EXCEPT ![Main] = "exited"]
      /\ UNCHANGED <<shared, n_sleeping, stack, thrown, call, outcome>>
  BY DEF JoinWorkers
<1>2. TypeOK' /\ pc'[Main] = "exited"
  BY <1>1, MainIsAThread DEF IInv, TypeOK, shared, PC
<1>3. TopAt(Main)'
  BY <1>1, <1>2, MainIsAThread DEF IInv, Tops, TopAt
<1>4. \A u \in Threads \ {Main} : pc'[u] = pc[u]
  BY <1>1 DEF IInv, TypeOK
<1>5. QED
  BY <1>1, <1>2, <1>3, <1>4, MainIsAThread, AwakeStep DEF InWait, shared

-----------------------------------------------------------------------------
LEMMA ParallelForStep ==
  ASSUME IInv, NEW t \in Threads, NEW g \in Groups, ParallelFor(t, g)
  PROVE  IInv'
<1> USE DEF IInv
<1>1. /\ pc[t] = "body" /\ call[g] = "new" /\ g \notin Inline
      /\ siblings_counter' = [siblings_counter EXCEPT ![g] = NTasks[g]]
      /\ eptr' = [eptr EXCEPT ![g] = NoExc]
      /\ tasks' = tasks \o [i \in 1..NTasks[g] |-> <<g, i>>]
      /\ call' = [call EXCEPT ![g] = "active"]
      /\ Push(t, CallFrame(g))
      /\ pc' = [pc EXCEPT ![t] = "runner"]
      /\ UNCHANGED <<continue_running, n_sleeping, thrown, outcome>>
  BY DEF ParallelFor, QueuedCount, InBody
<1>2. CallFrame(g) \in Frame /\ CallFrame(g) \notin Task /\ CallFrame(g)[1] = g
  BY FrameFacts
<1>3. StackTyped /\ QueueTyped
  BY DEF TypeOK, StackTyped, QueueTyped
<1>4. /\ StackTyped' /\ stack'[t] # <<>> /\ Top(t)' = CallFrame(g)
      /\ \A u \in Threads \ {t} : stack'[u] = stack[u]
  BY <1>1, <1>2, <1>3, PushFacts
<1>5. ~Running(CallFrame(g)) /\ \A x \in TasksOf(g) : ~Queued(x) /\ ~Running(x)
  BY <1>1, TasksOfFacts DEF Frames, Placement
<1>6. StackUnique' /\ \A x : Running(x)' <=> Running(x) \/ x = CallFrame(g)
  BY <1>1, <1>2, <1>3, <1>5, PushRunning
<1>7. QueueTyped' /\ QueueUnique' /\ \A x : Queued(x)' <=> Queued(x) \/ x \in TasksOf(g)
  BY <1>1, <1>3, <1>5, QueueGroup
<1>8. Shape'
  <2>1. BodyTop(t) /\ IsCallee(CallFrame(g))
    BY <1>1, <1>2 DEF Tops, TopAt, IsCallee
  <2>2. QED
    BY <1>1, <1>2, <1>3, <2>1, ShapePush
<1>9. NTasks[g] \in Nat
  BY ConstantsAssumption
<1>10. TypeOK'
  <2>1. siblings_counter' \in [Groups -> Nat] /\ eptr' \in [Groups -> Exception \cup {NoExc}]
    BY <1>1, <1>9 DEF TypeOK
  <2>2. pc' \in [Threads -> PC] /\ call' \in [Groups -> {"new", "active", "returned"}]
    BY <1>1 DEF TypeOK, PC
  <2>3. QED
    BY <1>1, <1>4, <1>7, <2>1, <2>2 DEF TypeOK, StackTyped, QueueTyped
<1>11. Tops'
  <2>1. TopAt(t)'
    BY <1>1, <1>2, <1>4, <1>10 DEF TypeOK, TopAt, RunnerTop
  <2>2. ASSUME NEW u \in Threads \ {t}, pc[u] = "returned"
        PROVE  siblings_counter'[Top(u)[1]] = siblings_counter[Top(u)[1]]
    <3>1. stack[u] # <<>> /\ Top(u) \notin Task
      BY <2>2 DEF Tops, TopAt
    <3>2. Top(u) \in Frame /\ Running(Top(u))
      BY <1>3, <3>1, TopFacts
    <3>3. Top(u) = CallFrame(Top(u)[1]) /\ Top(u)[1] \in Groups
      BY <3>1, <3>2, FrameFacts
    <3>4. Top(u)[1] # g
      BY <1>5, <3>2, <3>3
    <3>5. QED
      BY <1>1, <3>3, <3>4 DEF TypeOK
  <2>3. QED
    BY <1>1, <1>4, <2>1, <2>2, TopsStep DEF TypeOK
<1>12. Placement'
  <2> SUFFICES ASSUME NEW x \in Task
               PROVE  /\ ~(Queued(x)' /\ Running(x)')
                      /\ call'[x[1]] = "active" /\ outcome'[x] = Unfinished
                           <=> Queued(x)' \/ Running(x)'
                      /\ Queued(x)' => x[1] \notin Inline
    BY DEF Placement
  <2>1. x[1] \in Groups /\ (x \in TasksOf(g) <=> x[1] = g)
    BY FrameFacts, TasksOfFacts
  <2>2. Running(x)' <=> Running(x)
    BY <1>2, <1>6
  <2>3. CASE x[1] = g
    BY <1>1, <1>5, <1>7, <2>1, <2>2, <2>3 DEF TypeOK, Untouched
  <2>4. CASE x[1] # g
    BY <1>1, <1>7, <2>1, <2>2, <2>4 DEF TypeOK, Placement
  <2>5. QED
    BY <2>3, <2>4
<1>13. Frames'
  <2> SUFFICES ASSUME NEW h \in Groups
               PROVE  Running(CallFrame(h))' <=> call'[h] = "active" /\ h \notin Inline
    BY DEF Frames, CallFrame
  <2>1. Running(CallFrame(h))' <=> Running(CallFrame(h)) \/ h = g
    BY <1>6 DEF CallFrame
  <2>2. QED
    BY <1>1, <2>1 DEF TypeOK, Frames
<1>14. Untouched'
  BY <1>1, FrameFacts DEF TypeOK, Untouched
<1>15. UnfinishedTasks(g)' = TasksOf(g) /\ \A h : UnfinishedTasks(h)' = UnfinishedTasks(h)
  BY <1>1, TasksOfFacts DEF UnfinishedTasks, Untouched
<1>16. SiblingsCountUnfinished'
  <2> SUFFICES ASSUME NEW h \in Groups \ Inline, call'[h] = "active"
               PROVE  siblings_counter'[h] = Cardinality(UnfinishedTasks(h)')
    BY DEF SiblingsCountUnfinished
  <2>1. CASE h = g
    BY <1>1, <1>15, <2>1, TasksOfFacts DEF TypeOK
  <2>2. CASE h # g
    BY <1>1, <1>15, <2>2 DEF TypeOK, SiblingsCountUnfinished
  <2>3. QED
    BY <2>1, <2>2
<1>17. ReturnsWhenAllTasksComplete'
  BY <1>1, <1>15 DEF TypeOK, ReturnsWhenAllTasksComplete
<1>18. WaiterCounts'
  <2>1. ~InWait(t) /\ ~InWait(t)' /\ \A u \in Threads \ {t} : InWait(u)' <=> InWait(u)
    BY <1>1 DEF TypeOK, InWait
  <2>2. QED
    BY <1>1, <1>4, <2>1, CountsKept
<1>19. QED
  BY <1>6, <1>7, <1>8, <1>10, <1>11, <1>12, <1>13, <1>14, <1>16, <1>17, <1>18

LEMMA ParallelForInlineStep ==
  ASSUME IInv, NEW t \in Threads, NEW g \in Groups, ParallelForInline(t, g)
  PROVE  IInv'
<1> USE DEF IInv
<1> DEFINE x == <<g, 1>>
<1>1. /\ pc[t] = "body" /\ call[g] = "new" /\ g \in Inline
      /\ call' = [call EXCEPT ![g] = "active"] /\ Push(t, x)
      /\ UNCHANGED <<shared, n_sleeping, pc, thrown, outcome>>
  BY DEF ParallelForInline, InBody
<1>2. NTasks[g] = 1
  BY <1>1, ConstantsAssumption
<1>3. x \in Task /\ x \in Frame /\ x[1] = g /\ \A y \in Task : y[1] = g => y = x
  BY <1>2, FrameFacts, TasksOfFacts
<1> HIDE DEF x
<1>4. StackTyped
  BY DEF TypeOK, StackTyped
<1>5. /\ StackTyped' /\ stack'[t] # <<>> /\ Top(t)' = x
      /\ \A u \in Threads \ {t} : stack'[u] = stack[u]
  BY <1>1, <1>3, <1>4, PushFacts
<1>6. ~Queued(x) /\ ~Running(x)
  BY <1>1, <1>3 DEF Placement
<1>7. StackUnique' /\ \A y : Running(y)' <=> Running(y) \/ y = x
  BY <1>1, <1>3, <1>4, <1>6, PushRunning
<1>8. QueueUnique' /\ \A y : Queued(y)' <=> Queued(y)
  BY <1>1 DEF QueueUnique, Queued, shared
<1>9. Shape'
  <2>1. BodyTop(t) /\ IsCallee(x)
    BY <1>1, <1>3 DEF Tops, TopAt, IsCallee
  <2>2. QED
    BY <1>1, <1>3, <1>4, <2>1, ShapePush
<1>10. TypeOK'
  BY <1>1, <1>5 DEF TypeOK, StackTyped, shared
<1>11. Tops'
  <2>1. TopAt(t)'
    BY <1>1, <1>3, <1>5 DEF TopAt, BodyTop
  <2>2. QED
    BY <1>1, <1>5, <2>1, TopsStep DEF shared
<1>12. Placement'
  <2> SUFFICES ASSUME NEW y \in Task
               PROVE  /\ ~(Queued(y)' /\ Running(y)')
                      /\ call'[y[1]] = "active" /\ outcome'[y] = Unfinished
                           <=> Queued(y)' \/ Running(y)'
                      /\ Queued(y)' => y[1] \notin Inline
    BY DEF Placement
  <2>1. y[1] \in Groups /\ outcome' = outcome
    BY <1>1, FrameFacts
  <2>2. CASE y[1] = g
    BY <1>1, <1>3, <1>6, <1>7, <1>8, <2>1, <2>2 DEF TypeOK, Untouched
  <2>3. CASE y[1] # g
    BY <1>1, <1>3, <1>7, <1>8, <2>1, <2>3 DEF TypeOK, Placement
  <2>4. QED
    BY <2>2, <2>3
<1>13. Frames'
  <2> SUFFICES ASSUME NEW h \in Groups
               PROVE  Running(CallFrame(h))' <=> call'[h] = "active" /\ h \notin Inline
    BY DEF Frames, CallFrame
  <2>1. Running(CallFrame(h))' <=> Running(CallFrame(h))
    BY <1>3, <1>7, FrameFacts DEF CallFrame
  <2>2. QED
    BY <1>1, <2>1 DEF TypeOK, Frames
<1>14. Untouched' /\ \A h : UnfinishedTasks(h)' = UnfinishedTasks(h)
  BY <1>1, FrameFacts DEF TypeOK, Untouched, UnfinishedTasks
<1>15. SiblingsCountUnfinished'
  <2> SUFFICES ASSUME NEW h \in Groups \ Inline, call'[h] = "active"
               PROVE  siblings_counter'[h] = Cardinality(UnfinishedTasks(h)')
    BY DEF SiblingsCountUnfinished
  <2>1. QED
    BY <1>1, <1>14 DEF TypeOK, SiblingsCountUnfinished, shared
<1>16. ReturnsWhenAllTasksComplete'
  BY <1>1, <1>14 DEF TypeOK, ReturnsWhenAllTasksComplete
<1>17. WaiterCounts'
  <2>1. ~InWait(t) /\ ~InWait(t)' /\ \A u \in Threads \ {t} : InWait(u)' <=> InWait(u)
    BY <1>1 DEF InWait
  <2>2. QED
    BY <1>1, <1>5, <2>1, CountsKept
<1>18. QED
  BY <1>7, <1>8, <1>9, <1>10, <1>11, <1>12, <1>13, <1>14, <1>15, <1>16, <1>17

LEMMA TakeTaskStep ==
  ASSUME IInv, NEW t \in Threads, TakeTask(t)
  PROVE  IInv'
<1> USE DEF IInv
<1>1. PICK x : x = NextTask
  OBVIOUS
<1>2. PICK awake \in AfterNotify(n_sleeping', tasks') : pc' = [awake EXCEPT ![t] = "body"]
  BY DEF TakeTask
<1>3. /\ AtLock(t) /\ tasks # <<>>
      /\ tasks' = SubSeq(tasks, 1, Len(tasks) - 1)
      /\ Push(t, x) /\ n_sleeping' = Reacquired(t)
      /\ UNCHANGED <<siblings_counter, eptr, continue_running, thrown, call, outcome>>
  BY <1>1 DEF TakeTask
<1>4. Wakes(awake)
  BY <1>2, AfterNotifyWakes DEF TypeOK
<1>5. /\ pc' \in [Threads -> PC] /\ pc'[t] = "body"
      /\ \A u \in Threads \ {t} :
           pc'[u] = pc[u] \/ (pc[u] = "asleep" /\ pc'[u] = "woken")
  BY <1>2, <1>4 DEF Wakes, PC
<1>6. StackTyped /\ QueueTyped
  BY DEF TypeOK, StackTyped, QueueTyped
<1>7. /\ QueueTyped' /\ QueueUnique' /\ x \in Task /\ Queued(x)
      /\ \A y : Queued(y)' <=> Queued(y) /\ y # x
  BY <1>1, <1>3, <1>6, PopQueue
<1>8. ~Running(x) /\ x \in Frame /\ ~IsCallee(x)
  BY <1>7, FrameFacts DEF Placement, IsCallee
<1>9. /\ StackTyped' /\ stack'[t] # <<>> /\ Top(t)' = x
      /\ \A u \in Threads \ {t} : stack'[u] = stack[u]
  BY <1>3, <1>6, <1>8, PushFacts
<1>10. StackUnique' /\ \A y : Running(y)' <=> Running(y) \/ y = x
  BY <1>3, <1>6, <1>8, PushRunning
<1>11. Shape'
  <2>1. RunnerTop(t)
    BY <1>3 DEF Tops, TopAt, AtLock
  <2>2. QED
    BY <1>3, <1>6, <1>8, <2>1, ShapePush
<1>12. TypeOK'
  <2>1. n_sleeping' \in [CondVar -> Nat]
    BY <1>3, ReacquiredCounts DEF TypeOK
  <2>2. QED
    BY <1>3, <1>5, <1>7, <1>9, <2>1 DEF TypeOK, StackTyped, QueueTyped
<1>13. Tops'
  <2>1. TopAt(t)'
    BY <1>5, <1>7, <1>9 DEF TopAt, BodyTop
  <2>2. QED
    BY <1>3, <1>5, <1>9, <2>1, TopsStep
<1>14. Placement'
  BY <1>3, <1>7, <1>8, <1>10 DEF Placement
<1>15. Frames'
  <2> SUFFICES ASSUME NEW h \in Groups
               PROVE  Running(CallFrame(h))' <=> call'[h] = "active" /\ h \notin Inline
    BY DEF Frames, CallFrame
  <2>1. Running(CallFrame(h))' <=> Running(CallFrame(h))
    BY <1>7, <1>10, FrameFacts DEF CallFrame
  <2>2. QED
    BY <1>3, <2>1 DEF Frames
<1>16. Untouched' /\ SiblingsCountUnfinished' /\ ReturnsWhenAllTasksComplete'
  BY <1>3 DEF Untouched, SiblingsCountUnfinished, ReturnsWhenAllTasksComplete,
     UnfinishedTasks
<1>17. WaiterCounts'
  <2>1. ~InWait(t)' /\ \A u \in Threads \ {t} : InWait(u)' <=> InWait(u)
    BY <1>5 DEF InWait
  <2>2. QED
    BY <1>3, <1>9, <2>1, CountsLeave DEF TypeOK
<1>18. QED
  BY <1>7, <1>10, <1>11, <1>12, <1>13, <1>14, <1>15, <1>16, <1>17

\* A thread in func is on top of a task of an active call, not yet finished.
LEMMA InTaskFacts ==
  ASSUME IInv, NEW t \in Threads, InTask(t)
  PROVE  /\ Top(t) \in Task /\ Top(t)[1] \in Groups /\ Running(Top(t)) /\ ~Queued(Top(t))
         /\ call[Top(t)[1]] = "active" /\ outcome[Top(t)] = Unfinished
         /\ Ending(t) \in Exception \cup {Ok} /\ Ending(t) # Unfinished
<1>1. pc[t] = "body" /\ stack[t] # <<>>
  BY DEF InTask
<1>2. Top(t) \in Task
  BY <1>1 DEF IInv, Tops, TopAt, BodyTop
<1>3. Running(Top(t))
  BY <1>1, TopFacts DEF IInv, TypeOK, StackTyped
<1>4. thrown[t] \in Exception \cup {NoExc}
  BY DEF IInv, TypeOK
<1>5. Ending(t) \in Exception \cup {Ok} /\ Ending(t) # Unfinished
  BY <1>4, ConstantsAssumption DEF Ending
<1>6. QED
  BY <1>2, <1>3, <1>5, FrameFacts DEF IInv, Placement

\* Ending a task takes it out of the unfinished ones of its own group.
LEMMA EndingTask ==
  ASSUME IInv, NEW x \in Task, NEW e, e # Unfinished, outcome' = [outcome EXCEPT ![x] = e]
  PROVE  /\ \A y \in Task \ {x} : outcome'[y] = outcome[y]
         /\ outcome'[x] = e
         /\ \A h \in Groups : UnfinishedTasks(h)' = UnfinishedTasks(h) \ {x}
         /\ \A h \in Groups : h # x[1] => UnfinishedTasks(h)' = UnfinishedTasks(h)
<1>1. /\ \A y \in Task \ {x} : outcome'[y] = outcome[y]
      /\ outcome'[x] = e
  BY DEF IInv, TypeOK
<1>2. \A h \in Groups : TasksOf(h) = {y \in Task : y[1] = h}
  BY TasksOfFacts
<1>3. \A h \in Groups : UnfinishedTasks(h)' = UnfinishedTasks(h) \ {x}
  BY <1>1, <1>2 DEF UnfinishedTasks
<1>4. \A h \in Groups : h # x[1] => x \notin UnfinishedTasks(h)
  BY <1>2 DEF UnfinishedTasks
<1>5. QED
  BY <1>1, <1>3, <1>4

LEMMA FinishTaskStep ==
  ASSUME IInv, NEW t \in Threads, FinishTask(t)
  PROVE  IInv'
<1> USE DEF IInv
<1>1. PICK x : x = Top(t)
  OBVIOUS
<1>2. PICK g : g = x[1]
  OBVIOUS
<1>3. /\ InTask(t) /\ g \notin Inline
      /\ eptr' = [eptr EXCEPT ![g] = KeptException(g, thrown[t])]
      /\ siblings_counter' = [siblings_counter EXCEPT ![g] = @ - 1]
      /\ pc' = [(IF siblings_counter'[g] = 0
                 THEN NotifyAll(LastTaskWakes) ELSE pc)
                EXCEPT ![t] = "runner"]
      /\ thrown' = [thrown EXCEPT ![t] = NoExc]
      /\ outcome' = [outcome EXCEPT ![x] = Ending(t)]
      /\ Pop(t)
      /\ UNCHANGED <<tasks, continue_running, n_sleeping, call>>
  BY <1>1, <1>2 DEF FinishTask, Countdown
<1>4. /\ x \in Task /\ g \in Groups /\ Running(x) /\ ~Queued(x)
      /\ call[g] = "active" /\ outcome[x] = Unfinished
      /\ Ending(t) \in Exception \cup {Ok} /\ Ending(t) # Unfinished
  BY <1>1, <1>2, <1>3, InTaskFacts
<1>5. pc[t] = "body" /\ stack[t] # <<>> /\ StackTyped
  BY <1>3 DEF InTask, TypeOK, StackTyped
<1>6. /\ \A y \in Task \ {x} : outcome'[y] = outcome[y]
      /\ outcome'[x] = Ending(t)
      /\ UnfinishedTasks(g)' = UnfinishedTasks(g) \ {x}
      /\ \A h \in Groups : h # g => UnfinishedTasks(h)' = UnfinishedTasks(h)
  BY <1>2, <1>3, <1>4, EndingTask
<1>7. /\ siblings_counter[g] \in Nat \ {0}
      /\ Cardinality(UnfinishedTasks(g)') = siblings_counter[g] - 1
  <2>1. x \in UnfinishedTasks(g)
    BY <1>2, <1>4, TasksOfFacts DEF UnfinishedTasks
  <2>2. siblings_counter[g] = Cardinality(UnfinishedTasks(g))
    BY <1>3, <1>4 DEF SiblingsCountUnfinished
  <2>3. IsFiniteSet(UnfinishedTasks(g)) /\ Cardinality(UnfinishedTasks(g)) \in Nat
    BY <1>4, UnfinishedFinite
  <2>4. Cardinality(UnfinishedTasks(g)) # 0
    BY <2>1, <2>3, FS_EmptySet
  <2>5. QED
    BY <1>6, <2>1, <2>2, <2>3, <2>4, FS_RemoveElement
<1>8. /\ StackTyped' /\ \A u \in Threads \ {t} : stack'[u] = stack[u]
  BY <1>3, <1>5, PopFacts
<1>9. StackUnique' /\ \A y : Running(y)' <=> Running(y) /\ y # x
  BY <1>1, <1>3, <1>5, PopRunning
<1>10. QueueUnique' /\ \A y : Queued(y)' <=> Queued(y)
  BY <1>3 DEF QueueUnique, Queued
<1>11. Shape' /\ RunnerTop(t)'
  <2>1. ~IsCallee(Top(t))
    BY <1>1, <1>2, <1>3, <1>4 DEF IsCallee
  <2>2. QED
    BY <1>3, <1>5, <2>1, ShapePop
<1>12. /\ pc' \in [Threads -> PC] /\ pc'[t] = "runner"
       /\ \A u \in Threads \ {t} :
            pc'[u] = pc[u] \/ (pc[u] = "asleep" /\ pc'[u] = "woken")
  <2>1. Wakes(NotifyAll(LastTaskWakes)) /\ Wakes(pc)
    BY NotifyAllWakes DEF TypeOK, Wakes
  <2>2. PICK awake : Wakes(awake) /\ pc' = [awake EXCEPT ![t] = "runner"]
    BY <1>3, <2>1
  <2>3. QED
    BY <2>2 DEF Wakes, PC
<1>13. TypeOK'
  <2>1. siblings_counter' \in [Groups -> Nat]
    BY <1>3, <1>4, <1>7 DEF TypeOK
  <2>2. KeptException(g, thrown[t]) \in Exception \cup {NoExc}
    BY <1>4 DEF TypeOK, KeptException
  <2>3. eptr' \in [Groups -> Exception \cup {NoExc}]
    BY <1>3, <2>2 DEF TypeOK
  <2>4. outcome' \in [Task -> Exception \cup {Unfinished, Ok}]
    BY <1>3, <1>4 DEF TypeOK
  <2>5. thrown' \in [Threads -> Exception \cup {NoExc}]
    BY <1>3 DEF TypeOK
  <2>6. QED
    BY <1>3, <1>8, <1>12, <2>1, <2>3, <2>4, <2>5 DEF TypeOK, StackTyped
<1>14. Tops'
  <2>1. TopAt(t)'
    BY <1>11, <1>12 DEF TopAt
  <2>2. ASSUME NEW u \in Threads \ {t}, pc[u] = "returned"
        PROVE  siblings_counter'[Top(u)[1]] = siblings_counter[Top(u)[1]]
    <3>1. stack[u] # <<>> /\ siblings_counter[Top(u)[1]] = 0
      BY <2>2 DEF Tops, TopAt
    <3>2. Top(u)[1] \in Groups /\ Top(u)[1] # g
      BY <1>5, <1>7, <3>1, TopFacts, FrameFacts
    <3>3. QED
      BY <1>3, <3>2 DEF TypeOK
  <2>3. QED
    BY <1>8, <1>12, <2>1, <2>2, TopsStep
<1>15. Placement'
  <2> SUFFICES ASSUME NEW y \in Task
               PROVE  /\ ~(Queued(y)' /\ Running(y)')
                      /\ call'[y[1]] = "active" /\ outcome'[y] = Unfinished
                           <=> Queued(y)' \/ Running(y)'
                      /\ Queued(y)' => y[1] \notin Inline
    BY DEF Placement
  <2>1. CASE y = x
    BY <1>4, <1>6, <1>9, <1>10, <2>1
  <2>2. CASE y # x
    BY <1>3, <1>6, <1>9, <1>10, <2>2 DEF Placement
  <2>3. QED
    BY <2>1, <2>2
<1>16. Frames'
  <2> SUFFICES ASSUME NEW h \in Groups
               PROVE  Running(CallFrame(h))' <=> call'[h] = "active" /\ h \notin Inline
    BY DEF Frames, CallFrame
  <2>1. Running(CallFrame(h))' <=> Running(CallFrame(h))
    BY <1>4, <1>9, FrameFacts DEF CallFrame
  <2>2. QED
    BY <1>3, <2>1 DEF Frames
<1>17. Untouched'
  BY <1>2, <1>3, <1>4, <1>6 DEF Untouched
<1>18. SiblingsCountUnfinished'
  <2> SUFFICES ASSUME NEW h \in Groups \ Inline, call'[h] = "active"
               PROVE  siblings_counter'[h] = Cardinality(UnfinishedTasks(h)')
    BY DEF SiblingsCountUnfinished
  <2>1. CASE h = g
    BY <1>3, <1>4, <1>7, <2>1 DEF TypeOK
  <2>2. CASE h # g
    BY <1>3, <1>6, <2>2 DEF TypeOK, SiblingsCountUnfinished
  <2>3. QED
    BY <2>1, <2>2
<1>19. ReturnsWhenAllTasksComplete'
  BY <1>3, <1>4, <1>6 DEF ReturnsWhenAllTasksComplete
<1>20. WaiterCounts'
  <2>1. /\ ~InWait(t) /\ ~InWait(t)'
        /\ \A u \in Threads \ {t} : InWait(u)' <=> InWait(u)
    BY <1>5, <1>12 DEF InWait
  <2>2. QED
    BY <1>3, <1>8, <2>1, CountsKept
<1>21. QED
  BY <1>9, <1>10, <1>11, <1>13, <1>14, <1>15, <1>16, <1>17, <1>18, <1>19, <1>20

LEMMA FinishInlineStep ==
  ASSUME IInv, NEW t \in Threads, FinishInline(t)
  PROVE  IInv'
<1> USE DEF IInv
<1>1. PICK x : x = Top(t)
  OBVIOUS
<1>2. PICK g : g = x[1]
  OBVIOUS
<1>3. /\ InTask(t) /\ g \in Inline
      /\ outcome' = [outcome EXCEPT ![x] = Ending(t)]
      /\ call' = [call EXCEPT ![g] = "returned"]
      /\ Pop(t)
      /\ UNCHANGED <<shared, n_sleeping, pc, thrown>>
  BY <1>1, <1>2 DEF FinishInline
<1>4. /\ x \in Task /\ g \in Groups /\ Running(x) /\ ~Queued(x)
      /\ call[g] = "active" /\ outcome[x] = Unfinished
      /\ Ending(t) \in Exception \cup {Ok} /\ Ending(t) # Unfinished
  BY <1>1, <1>2, <1>3, InTaskFacts
<1>5. pc[t] = "body" /\ stack[t] # <<>> /\ StackTyped
  BY <1>3 DEF InTask, TypeOK, StackTyped
<1>6. \A y \in Task : y[1] = g => y = x
  <2>1. NTasks[g] = 1
    BY <1>3, ConstantsAssumption
  <2>2. QED
    BY <1>2, <1>4, <2>1, FrameFacts
<1>7. /\ \A y \in Task \ {x} : outcome'[y] = outcome[y]
      /\ outcome'[x] = Ending(t)
      /\ UnfinishedTasks(g)' = UnfinishedTasks(g) \ {x}
      /\ \A h \in Groups : h # g => UnfinishedTasks(h)' = UnfinishedTasks(h)
  BY <1>2, <1>3, <1>4, EndingTask
<1>8. UnfinishedTasks(g)' = {}
  BY <1>4, <1>6, <1>7, TasksOfFacts DEF UnfinishedTasks
<1>9. StackTyped' /\ \A u \in Threads \ {t} : stack'[u] = stack[u]
  BY <1>3, <1>5, PopFacts
<1>10. StackUnique' /\ \A y : Running(y)' <=> Running(y) /\ y # x
  BY <1>1, <1>3, <1>5, PopRunning
<1>11. QueueUnique' /\ \A y : Queued(y)' <=> Queued(y)
  BY <1>3 DEF QueueUnique, Queued, shared
<1>12. Shape' /\ BodyTop(t)'
  <2>1. IsCallee(Top(t))
    BY <1>1, <1>2, <1>3 DEF IsCallee
  <2>2. QED
    BY <1>3, <1>5, <2>1, ShapePop
<1>13. TypeOK'
  <2>1. outcome' \in [Task -> Exception \cup {Unfinished, Ok}]
    BY <1>3, <1>4 DEF TypeOK
  <2>2. QED
    BY <1>3, <1>9, <2>1 DEF TypeOK, StackTyped, shared
<1>14. Tops'
  <2>1. TopAt(t)'
    BY <1>3, <1>5, <1>12 DEF TopAt
  <2>2. QED
    BY <1>3, <1>9, <2>1, TopsStep DEF shared
<1>15. Placement'
  <2> SUFFICES ASSUME NEW y \in Task
               PROVE  /\ ~(Queued(y)' /\ Running(y)')
                      /\ call'[y[1]] = "active" /\ outcome'[y] = Unfinished
                           <=> Queued(y)' \/ Running(y)'
                      /\ Queued(y)' => y[1] \notin Inline
    BY DEF Placement
  <2>1. CASE y = x
    BY <1>4, <1>7, <1>10, <1>11, <2>1
  <2>2. CASE y # x
    <3>1. y[1] \in Groups /\ y[1] # g /\ call'[y[1]] = call[y[1]]
      BY <1>3, <1>6, <2>2, FrameFacts DEF TypeOK
    <3>2. QED
      BY <1>7, <1>10, <1>11, <2>2, <3>1 DEF Placement
  <2>3. QED
    BY <2>1, <2>2
<1>16. Frames'
  <2> SUFFICES ASSUME NEW h \in Groups
               PROVE  Running(CallFrame(h))' <=> call'[h] = "active" /\ h \notin Inline
    BY DEF Frames, CallFrame
  <2>1. Running(CallFrame(h))' <=> Running(CallFrame(h))
    BY <1>4, <1>10, FrameFacts DEF CallFrame
  <2>2. QED
    BY <1>3, <2>1 DEF TypeOK, Frames
<1>17. Untouched'
  <2> SUFFICES ASSUME NEW y \in Task, call'[y[1]] = "new" PROVE outcome'[y] = Unfinished
    BY DEF Untouched
  <2>1. y[1] \in Groups /\ y[1] # g /\ call[y[1]] = "new"
    BY <1>3, FrameFacts DEF TypeOK
  <2>2. QED
    BY <1>2, <1>7, <2>1 DEF Untouched
<1>18. SiblingsCountUnfinished'
  <2> SUFFICES ASSUME NEW h \in Groups \ Inline, call'[h] = "active"
               PROVE  siblings_counter'[h] = Cardinality(UnfinishedTasks(h)')
    BY DEF SiblingsCountUnfinished
  <2>1. h # g /\ call[h] = "active"
    BY <1>3 DEF TypeOK
  <2>2. QED
    BY <1>3, <1>7, <2>1 DEF SiblingsCountUnfinished, shared
<1>19. ReturnsWhenAllTasksComplete'
  BY <1>3, <1>7, <1>8 DEF TypeOK, ReturnsWhenAllTasksComplete
<1>20. WaiterCounts'
  <2>1. /\ ~InWait(t) /\ ~InWait(t)'
        /\ \A u \in Threads \ {t} : InWait(u)' <=> InWait(u)
    BY <1>3, <1>5 DEF InWait
  <2>2. QED
    BY <1>3, <1>9, <2>1, CountsKept
<1>21. QED
  BY <1>10, <1>11, <1>12, <1>13, <1>14, <1>15, <1>16, <1>17, <1>18, <1>19, <1>20

LEMMA ReturnStep ==
  ASSUME IInv, NEW t \in Threads, Return(t)
  PROVE  IInv'
<1> USE DEF IInv
<1>1. PICK g : g = Top(t)[1]
  OBVIOUS
<1>2. /\ pc[t] = "returned"
      /\ thrown' = [thrown EXCEPT ![t] = eptr[g]]
      /\ call' = [call EXCEPT ![g] = "returned"]
      /\ Pop(t)
      /\ pc' = [pc EXCEPT ![t] = "body"]
      /\ UNCHANGED <<shared, n_sleeping, outcome>>
  BY <1>1 DEF Return
<1>3. stack[t] # <<>> /\ Top(t) \notin Task /\ siblings_counter[g] = 0 /\ StackTyped
  BY <1>1, <1>2 DEF Tops, TopAt, TypeOK, StackTyped
<1>4. g \in Groups /\ Top(t) = CallFrame(g) /\ Running(CallFrame(g))
  BY <1>1, <1>3, TopFacts, FrameFacts
<1>5. call[g] = "active" /\ g \notin Inline
  BY <1>4 DEF Frames
<1>6. UnfinishedTasks(g) = {}
  BY <1>3, <1>4, <1>5, UnfinishedFinite, FS_EmptySet DEF SiblingsCountUnfinished
<1>7. StackTyped' /\ \A u \in Threads \ {t} : stack'[u] = stack[u]
  BY <1>2, <1>3, PopFacts
<1>8. StackUnique' /\ \A y : Running(y)' <=> Running(y) /\ y # CallFrame(g)
  BY <1>2, <1>3, <1>4, PopRunning
<1>9. QueueUnique' /\ \A y : Queued(y)' <=> Queued(y)
  BY <1>2 DEF QueueUnique, Queued, shared
<1>10. Shape' /\ BodyTop(t)'
  BY <1>2, <1>3, ShapePop DEF IsCallee
<1>11. TypeOK'
  BY <1>2, <1>4, <1>7 DEF TypeOK, StackTyped, shared, PC
<1>12. Tops'
  <2>1. TopAt(t)' /\ \A u \in Threads \ {t} : pc'[u] = pc[u]
    BY <1>2, <1>10 DEF TypeOK, TopAt
  <2>2. QED
    BY <1>2, <1>7, <2>1, TopsStep DEF shared
<1>13. \A h : UnfinishedTasks(h)' = UnfinishedTasks(h)
  BY <1>2 DEF UnfinishedTasks
<1>14. Placement'
  <2> SUFFICES ASSUME NEW y \in Task
               PROVE  /\ ~(Queued(y)' /\ Running(y)')
                      /\ call'[y[1]] = "active" /\ outcome'[y] = Unfinished
                           <=> Queued(y)' \/ Running(y)'
                      /\ Queued(y)' => y[1] \notin Inline
    BY DEF Placement
  <2>1. y[1] \in Groups /\ y # CallFrame(g) /\ outcome' = outcome
    BY <1>2, <1>4, FrameFacts
  <2>2. CASE y[1] = g
    <3>1. outcome[y] # Unfinished
      BY <1>4, <1>6, <2>2, TasksOfFacts DEF UnfinishedTasks
    <3>2. QED
      BY <1>8, <1>9, <2>1, <3>1 DEF Placement
  <2>3. CASE y[1] # g
    BY <1>2, <1>8, <1>9, <2>1, <2>3 DEF TypeOK, Placement
  <2>4. QED
    BY <2>2, <2>3
<1>15. Frames'
  <2> SUFFICES ASSUME NEW h \in Groups
               PROVE  Running(CallFrame(h))' <=> call'[h] = "active" /\ h \notin Inline
    BY DEF Frames, CallFrame
  <2>1. Running(CallFrame(h))' <=> Running(CallFrame(h)) /\ h # g
    BY <1>8 DEF CallFrame
  <2>2. QED
    BY <1>2, <2>1 DEF TypeOK, Frames
<1>16. Untouched'
  BY <1>2, FrameFacts DEF TypeOK, Untouched
<1>17. SiblingsCountUnfinished'
  <2> SUFFICES ASSUME NEW h \in Groups \ Inline, call'[h] = "active"
               PROVE  siblings_counter'[h] = Cardinality(UnfinishedTasks(h)')
    BY DEF SiblingsCountUnfinished
  <2>1. call[h] = "active"
    BY <1>2 DEF TypeOK
  <2>2. QED
    BY <1>2, <1>13, <2>1 DEF SiblingsCountUnfinished, shared
<1>18. ReturnsWhenAllTasksComplete'
  BY <1>2, <1>6, <1>13 DEF TypeOK, ReturnsWhenAllTasksComplete
<1>19. WaiterCounts'
  <2>1. /\ ~InWait(t) /\ ~InWait(t)'
        /\ \A u \in Threads \ {t} : InWait(u)' <=> InWait(u)
    BY <1>2 DEF TypeOK, InWait
  <2>2. QED
    BY <1>2, <1>7, <2>1, CountsKept
<1>20. QED
  BY <1>8, <1>9, <1>10, <1>11, <1>12, <1>14, <1>15, <1>16, <1>17, <1>18, <1>19

LEMMA NextIInv == IInv /\ [Next]_vars => IInv'
<1> SUFFICES ASSUME IInv, [Next]_vars PROVE IInv'
  OBVIOUS
<1>1. CASE UNCHANGED vars \/ Terminated
  <2>1. UNCHANGED vars
    BY <1>1 DEF Terminated
  <2>2. TypeOK'
    BY <2>1 DEF vars, IInv, TypeOK
  <2>3. Tops'
    BY <2>1 DEF vars, IInv, Tops, TopAt, BodyTop, RunnerTop, Top
  <2>4. \A cv : Waiters(cv)' = Waiters(cv)
    BY <2>1 DEF vars, Waiters, InWait, AwaitedCv
  <2>5. WaiterCounts'
    BY <2>1, <2>4 DEF vars, IInv, WaiterCounts
  <2>6. QED
    BY <2>1, <2>2, <2>3, <2>5, QuietStep DEF vars
<1>2. CASE \E t \in Threads, g \in Groups : ParallelFor(t, g) \/ ParallelForInline(t, g)
  BY <1>2, ParallelForStep, ParallelForInlineStep
<1>3. CASE \E t \in Threads :
             \/ Wait(t) \/ LeaveRunner(t) \/ TakeTask(t)
             \/ SpuriousWakeup(t) \/ Throw(t) \/ FinishTask(t) \/ FinishInline(t)
             \/ Return(t)
  BY <1>3, WaitStep, LeaveRunnerStep, TakeTaskStep, SpuriousWakeupStep, ThrowStep,
     FinishTaskStep, FinishInlineStep, ReturnStep
<1>4. CASE Handle \/ Shutdown \/ JoinWorkers
  BY <1>4, HandleStep, ShutdownStep, JoinWorkersStep
<1>5. QED
  BY <1>1, <1>2, <1>3, <1>4 DEF Next

LEMMA Invariance == Spec => []IInv
  BY InitIInv, NextIInv, PTL DEF Spec

-----------------------------------------------------------------------------
\* Every variable keeps its type: no counter goes below zero, and every frame
\* and queue entry is one of a call that was made.
THEOREM TypeOKTheorem == Spec => []TypeOK
<1>1. IInv => TypeOK
  BY DEF IInv
<1>2. QED
  BY <1>1, Invariance, PTL

\* siblings_counter counts the unfinished tasks of its call.
THEOREM SiblingsCountTheorem == Spec => []SiblingsCountUnfinished
<1>1. IInv => SiblingsCountUnfinished
  BY DEF IInv
<1>2. QED
  BY <1>1, Invariance, PTL

\* The references a task captures outlive it.
THEOREM CapturesAliveTheorem == Spec => []CapturesAlive
<1>1. IInv => CapturesAlive
  <2> SUFFICES ASSUME IInv, NEW x \in Task, Queued(x) \/ Running(x)
               PROVE  /\ call[x[1]] = "active"
                      /\ x[1] \notin Inline => Running(CallFrame(x[1]))
    BY DEF CapturesAlive
  <2>1. call[x[1]] = "active"
    BY DEF IInv, Placement
  <2>2. QED
    BY <2>1, FrameFacts DEF IInv, Frames
<1>2. QED
  BY <1>1, Invariance, PTL

\* No task is lost, duplicated or run again.
THEOREM EachTaskOnceTheorem == Spec => []EachTaskOnce
<1>1. IInv => EachTaskOnce
  BY DEF IInv, EachTaskOnce, StackUnique, QueueUnique, Placement
<1>2. QED
  BY <1>1, Invariance, PTL

\* ParallelFor does not return before all its tasks have completed.
THEOREM ReturnsTheorem == Spec => []ReturnsWhenAllTasksComplete
<1>1. IInv => ReturnsWhenAllTasksComplete
  BY DEF IInv
<1>2. QED
  BY <1>1, Invariance, PTL

\* The counts TryNotify trusts are those of the threads in Wait.
THEOREM WaiterCountsTheorem == Spec => []WaiterCounts
<1>1. IInv => WaiterCounts
  BY DEF IInv
<1>2. QED
  BY <1>1, Invariance, PTL

-----------------------------------------------------------------------------
(***************************************************************************)
(* The destructor finds nothing to do, for any number of workers and calls.*)
(*                                                                         *)
(* Main destroys the manager when it is in no call.  That no thread is in  *)
(* one then is not seen from Main's stack alone: a worker may run tasks of *)
(* a call whose frame is on another worker's stack, and so on.  But calls  *)
(* are made from tasks of earlier calls, and a chain of callers that goes  *)
(* on through earlier and earlier ones can only end in Main.               *)
(***************************************************************************)
\* anc[g] contains the callers of g, and theirs: the group of a frame that lies
\* below a call has strictly fewer.
CallersBelow(anc) ==
  \A t \in Threads : \A k \in 1..Len(stack[t]) :
    k # 1 /\ IsCallee(stack[t][k]) =>
      /\ anc[stack[t][k - 1][1]] \subseteq anc[stack[t][k][1]]
      /\ anc[stack[t][k - 1][1]] # anc[stack[t][k][1]]

OnlyMade(anc) == \A g \in Groups : \A h \in anc[g] : call[h] # "new"

Ancestry == \E anc \in [Groups -> SUBSET Groups] : CallersBelow(anc) /\ OnlyMade(anc)

\* Once the manager is being destroyed, Main does nothing else.
Destroying == continue_running = 0 => pc[Main] \in {"joining", "exited"}

-----------------------------------------------------------------------------
\* A call made by thread t inherits the ancestors of its caller, and is one of
\* its own.
LEMMA AncestryCall ==
  ASSUME IInv, Ancestry, NEW t \in Threads, NEW f \in Frame, Push(t, f),
         BodyTop(t), call[f[1]] = "new", call' = [call EXCEPT ![f[1]] = "active"]
  PROVE  Ancestry'
<1>1. PICK g : g = f[1]
  OBVIOUS
<1>2. PICK anc \in [Groups -> SUBSET Groups] : CallersBelow(anc) /\ OnlyMade(anc)
  BY DEF Ancestry
<1>3. g \in Groups
  BY <1>1, FrameFacts
<1>4. StackTyped
  BY DEF IInv, TypeOK, StackTyped
<1>5. /\ Len(stack[t]) \in Nat
      /\ Len(stack'[t]) = Len(stack[t]) + 1
      /\ \A k \in 1..Len(stack[t]) : stack'[t][k] = stack[t][k]
      /\ stack'[t][Len(stack[t]) + 1] = f
      /\ \A u \in Threads \ {t} : stack'[u] = stack[u]
  BY <1>4, PushFacts
\* No frame of the new call is on a stack yet.
<1>6. ASSUME NEW u \in Threads, NEW k \in 1..Len(stack[u])
      PROVE  stack[u][k] \in Frame /\ stack[u][k][1] \in Groups \ {g}
  <2>1. stack[u] \in Seq(Frame) /\ DOMAIN stack[u] = 1..Len(stack[u])
    BY <1>4, LenProperties DEF StackTyped
  <2>2. stack[u][k] \in Frame /\ Running(stack[u][k])
    BY <2>1, ElementOfSeq DEF Running
  <2>3. PICK x : x = stack[u][k]
    OBVIOUS
  <2>4. x[1] # g
    <3>1. CASE x \in Task
      BY <1>1, <2>2, <2>3, <3>1 DEF IInv, Placement
    <3>2. CASE x \notin Task
      BY <1>1, <2>2, <2>3, <3>2, FrameFacts DEF IInv, Frames
    <3>3. QED
      BY <3>1, <3>2
  <2>5. QED
    BY <2>2, <2>3, <2>4, FrameFacts
<1> DEFINE caller == IF stack[t] = <<>> THEN {} ELSE anc[Top(t)[1]]
           next == [anc EXCEPT ![g] = caller \cup {g}]
<1>7. /\ caller \in SUBSET Groups /\ g \notin caller
      /\ \A m \in caller : call[m] # "new"
      /\ stack[t] # <<>> => Top(t)[1] \in Groups \ {g} /\ caller = anc[Top(t)[1]]
  <2>1. CASE stack[t] = <<>>
    BY <2>1
  <2>2. CASE stack[t] # <<>>
    <3>1. Len(stack[t]) \in 1..Len(stack[t])
      BY <1>4, <2>2, TopFacts
    <3>2. Top(t)[1] \in Groups \ {g}
      BY <1>6, <3>1 DEF Top
    <3>3. QED
      BY <1>1, <1>2, <2>2, <3>2 DEF OnlyMade
  <2>3. QED
    BY <2>1, <2>2
<1> HIDE DEF caller
<1>8. /\ next \in [Groups -> SUBSET Groups] /\ next[g] = caller \cup {g}
      /\ \A h \in Groups \ {g} : next[h] = anc[h]
  BY <1>2, <1>3, <1>7
<1> HIDE DEF next
<1>13. PICK nx : nx = next
  OBVIOUS
<1>9. CallersBelow(nx)'
  <2> SUFFICES ASSUME NEW u \in Threads, NEW k \in 1..Len(stack'[u]),
                      k # 1, IsCallee(stack'[u][k])
               PROVE  /\ nx[stack'[u][k - 1][1]] \subseteq nx[stack'[u][k][1]]
                      /\ nx[stack'[u][k - 1][1]] # nx[stack'[u][k][1]]
    BY DEF CallersBelow, IsCallee
  <2>1. CASE u = t /\ k = Len(stack[t]) + 1
    <3>1. Len(stack[t]) # 0 /\ Len(stack[t]) \in 1..Len(stack[t])
      BY <1>5, <2>1
    <3>2. stack[t] # <<>>
      BY <3>1, EmptySeq
    <3>3. stack'[u][k] = f /\ stack'[u][k - 1] = Top(t)
      BY <1>5, <2>1, <3>1 DEF Top
    <3>4. QED
      BY <1>1, <1>7, <1>8, <1>13, <3>2, <3>3
  <2>2. CASE ~(u = t /\ k = Len(stack[t]) + 1)
    <3>1. /\ k \in 1..Len(stack[u]) /\ k - 1 \in 1..Len(stack[u])
          /\ stack'[u][k] = stack[u][k] /\ stack'[u][k - 1] = stack[u][k - 1]
      <4>1. CASE u = t
        <5>1. k \in 1..Len(stack[t]) /\ k - 1 \in 1..Len(stack[t])
          BY <1>5, <2>2, <4>1
        <5>2. QED
          BY <1>5, <4>1, <5>1
      <4>2. CASE u # t
        <5>1. stack'[u] = stack[u] /\ Len(stack[u]) \in Nat
          BY <1>4, <1>5, <4>2, LenProperties DEF StackTyped
        <5>2. QED
          BY <5>1
      <4>3. QED
        BY <4>1, <4>2
    <3>2. stack[u][k][1] \in Groups \ {g} /\ stack[u][k - 1][1] \in Groups \ {g}
      BY <1>6, <3>1
    <3>3. QED
      BY <1>2, <1>8, <1>13, <3>1, <3>2 DEF CallersBelow
  <2>3. QED
    BY <2>1, <2>2
<1>10. OnlyMade(nx)'
  <2> SUFFICES ASSUME NEW h \in Groups, NEW m \in nx[h] PROVE call'[m] # "new"
    BY DEF OnlyMade
  <2>1. m \in Groups /\ (m = g \/ call[m] # "new")
    <3>1. CASE h = g
      BY <1>3, <1>7, <1>8, <1>13, <3>1
    <3>2. CASE h # g
      BY <1>2, <1>8, <1>13, <3>2 DEF OnlyMade
    <3>3. QED
      BY <3>1, <3>2
  <2>2. QED
    BY <1>1, <2>1 DEF IInv, TypeOK
<1>11. QED
  BY <1>8, <1>13, <1>9, <1>10 DEF Ancestry

\* Steps that make no call: frames are pushed or popped, or no stack changes.
CalleesKept ==
  \A u \in Threads : \A k \in 1..Len(stack'[u]) :
    k # 1 /\ IsCallee(stack'[u][k]) =>
      /\ k \in 1..Len(stack[u])
      /\ stack'[u][k] = stack[u][k] /\ stack'[u][k - 1] = stack[u][k - 1]

CallsKept == \A h \in Groups : call[h] # "new" => call'[h] # "new"

LEMMA AncestryKept ==
  ASSUME Ancestry, CallsKept, CalleesKept
  PROVE  Ancestry'
<1>1. PICK anc \in [Groups -> SUBSET Groups] : CallersBelow(anc) /\ OnlyMade(anc)
  BY DEF Ancestry
<1>2. CallersBelow(anc)'
  <2> SUFFICES ASSUME NEW u \in Threads, NEW k \in 1..Len(stack'[u]),
                      k # 1, IsCallee(stack'[u][k])
               PROVE  /\ anc[stack'[u][k - 1][1]] \subseteq anc[stack'[u][k][1]]
                      /\ anc[stack'[u][k - 1][1]] # anc[stack'[u][k][1]]
    BY DEF CallersBelow, IsCallee
  <2>1. /\ k \in 1..Len(stack[u])
        /\ stack'[u][k] = stack[u][k] /\ stack'[u][k - 1] = stack[u][k - 1]
    BY DEF CalleesKept
  <2>2. IsCallee(stack[u][k])
    BY <2>1
  <2>3. QED
    BY <1>1, <2>1, <2>2 DEF CallersBelow
<1>3. OnlyMade(anc)'
  BY <1>1 DEF OnlyMade, CallsKept
<1>4. QED
  BY <1>1, <1>2, <1>3 DEF Ancestry

LEMMA AncestryPop ==
  ASSUME IInv, Ancestry, NEW t \in Threads, stack[t] # <<>>, Pop(t),
         CallsKept
  PROVE  Ancestry'
<1>1. StackTyped
  BY DEF IInv, TypeOK, StackTyped
<1>2. /\ Len(stack[t]) \in Nat \ {0}
      /\ Len(stack'[t]) = Len(stack[t]) - 1
      /\ \A k \in 1..Len(stack[t]) - 1 : stack'[t][k] = stack[t][k]
      /\ \A u \in Threads \ {t} : stack'[u] = stack[u]
  BY <1>1, PopFacts
<1>3. ASSUME NEW u \in Threads, NEW k \in 1..Len(stack'[u]), k # 1
      PROVE  /\ k \in 1..Len(stack[u])
             /\ stack'[u][k] = stack[u][k] /\ stack'[u][k - 1] = stack[u][k - 1]
  <2>1. CASE u # t
    BY <1>2, <2>1
  <2>2. CASE u = t
    <3>1. k \in 1..Len(stack[t]) - 1 /\ k - 1 \in 1..Len(stack[t]) - 1
          /\ k \in 1..Len(stack[t])
      BY <1>2, <1>3, <2>2
    <3>2. QED
      BY <1>2, <2>2, <3>1
  <2>3. QED
    BY <2>1, <2>2
<1>4. QED
  BY <1>3, AncestryKept DEF CalleesKept, CallsKept

LEMMA AncestryTake ==
  ASSUME IInv, Ancestry, NEW t \in Threads, NEW f \in Frame, ~IsCallee(f), Push(t, f),
         call' = call
  PROVE  Ancestry'
<1>1. StackTyped
  BY DEF IInv, TypeOK, StackTyped
<1>2. /\ Len(stack[t]) \in Nat
      /\ Len(stack'[t]) = Len(stack[t]) + 1
      /\ \A k \in 1..Len(stack[t]) : stack'[t][k] = stack[t][k]
      /\ stack'[t][Len(stack[t]) + 1] = f
      /\ \A u \in Threads \ {t} : stack'[u] = stack[u]
  BY <1>1, PushFacts
<1>3. ASSUME NEW u \in Threads, NEW k \in 1..Len(stack'[u]), k # 1, IsCallee(stack'[u][k])
      PROVE  /\ k \in 1..Len(stack[u])
             /\ stack'[u][k] = stack[u][k] /\ stack'[u][k - 1] = stack[u][k - 1]
  <2>1. CASE u # t
    BY <1>2, <2>1
  <2>2. CASE u = t
    <3>1. k # Len(stack[t]) + 1
      BY <1>2, <1>3, <2>2
    <3>2. k \in 1..Len(stack[t]) /\ k - 1 \in 1..Len(stack[t])
      BY <1>2, <1>3, <2>2, <3>1
    <3>3. QED
      BY <1>2, <2>2, <3>2
  <2>3. QED
    BY <2>1, <2>2
<1>4. QED
  BY <1>3, AncestryKept DEF CalleesKept, CallsKept

LEMMA SameStacks == ASSUME Ancestry, CallsKept, stack' = stack PROVE Ancestry'
  BY AncestryKept DEF CalleesKept

LEMMA InitAncestry == Init => Ancestry
<1> SUFFICES ASSUME Init PROVE Ancestry
  OBVIOUS
<1>1. PICK anc : anc = [g \in Groups |-> {}]
  OBVIOUS
<1>2. \A t \in Threads : Len(stack[t]) = 0
  BY EmptySeq DEF Init
<1>3. CallersBelow(anc) /\ OnlyMade(anc)
  BY <1>1, <1>2 DEF CallersBelow, OnlyMade
<1>4. QED
  BY <1>1, <1>3 DEF Ancestry

LEMMA NextAncestry == ASSUME IInv, Ancestry, [Next]_vars PROVE Ancestry'
<1>1. CASE UNCHANGED vars \/ Terminated
  BY <1>1, SameStacks DEF vars, Terminated, CallsKept
<1>2. ASSUME NEW t \in Threads, NEW g \in Groups, ParallelFor(t, g) PROVE Ancestry'
  <2>1. PICK f : f = CallFrame(g)
    OBVIOUS
  <2>2. f \in Frame /\ f[1] = g
    BY <2>1, FrameFacts DEF CallFrame
  <2>3. /\ call[f[1]] = "new" /\ call' = [call EXCEPT ![f[1]] = "active"]
        /\ Push(t, f)
    BY <1>2, <2>1, <2>2 DEF ParallelFor
  <2>4. BodyTop(t)
    BY <1>2 DEF ParallelFor, InBody, IInv, Tops, TopAt
  <2>5. QED
    BY <2>2, <2>3, <2>4, AncestryCall
<1>3. ASSUME NEW t \in Threads, NEW g \in Groups, ParallelForInline(t, g) PROVE Ancestry'
  <2>1. PICK f : f = <<g, 1>>
    OBVIOUS
  <2>2. f \in Frame /\ f[1] = g
    <3>1. g \in Groups /\ NTasks[g] = 1
      BY <1>3, ConstantsAssumption DEF ParallelForInline
    <3>2. f \in TasksOf(g)
      BY <2>1, <3>1 DEF TasksOf
    <3>3. QED
      BY <2>1, <3>2 DEF Frame, Task
  <2>3. /\ call[f[1]] = "new" /\ call' = [call EXCEPT ![f[1]] = "active"]
        /\ Push(t, f)
    BY <1>3, <2>1, <2>2 DEF ParallelForInline
  <2>4. BodyTop(t)
    BY <1>3 DEF ParallelForInline, InBody, IInv, Tops, TopAt
  <2>5. QED
    BY <2>2, <2>3, <2>4, AncestryCall
<1>4. ASSUME NEW t \in Threads, TakeTask(t) PROVE Ancestry'
  <2>1. PICK x : x = NextTask
    OBVIOUS
  <2>2. tasks \in Seq(Task) /\ tasks # <<>> /\ Push(t, x) /\ call' = call
    BY <1>4, <2>1 DEF TakeTask, IInv, TypeOK
  <2>3. x \in Task /\ Queued(x)
    <3>1. Len(tasks) \in DOMAIN tasks
      BY <2>2, EmptySeq, LenProperties
    <3>2. QED
      BY <2>1, <2>2, <3>1, ElementOfSeq, LenProperties DEF NextTask, Queued
  <2>4. x \in Frame /\ ~IsCallee(x)
    BY <2>3 DEF Frame, IsCallee, IInv, Placement
  <2>5. QED
    BY <2>2, <2>4, AncestryTake
<1>5. ASSUME NEW t \in Threads, FinishTask(t) \/ FinishInline(t) \/ Return(t)
      PROVE  Ancestry'
  <2>1. stack[t] # <<>> /\ Pop(t)
    BY <1>5 DEF FinishTask, FinishInline, Return, InTask, IInv, Tops, TopAt
  <2>2. CallsKept
    BY <1>5 DEF FinishTask, FinishInline, Return, CallsKept, IInv, TypeOK
  <2>3. QED
    BY <2>1, <2>2, AncestryPop
<1>6. CASE \E t \in Threads : Wait(t) \/ LeaveRunner(t) \/ SpuriousWakeup(t) \/ Throw(t)
  BY <1>6, SameStacks DEF Wait, LeaveRunner, SpuriousWakeup, Throw, CallsKept
<1>7. CASE Handle \/ Shutdown \/ JoinWorkers
  BY <1>7, SameStacks DEF Handle, Shutdown, JoinWorkers, CallsKept
<1>8. QED
  BY <1>1, <1>2, <1>3, <1>4, <1>5, <1>6, <1>7 DEF Next

-----------------------------------------------------------------------------
LEMMA NextDestroying == ASSUME IInv, Destroying, [Next]_vars PROVE Destroying'
<1> USE MainIsAThread DEF Destroying
<1>1. pc \in [Threads -> PC]
  BY DEF IInv, TypeOK
<1>2. CASE UNCHANGED vars \/ Terminated
  BY <1>2 DEF vars, Terminated
<1>3. CASE Shutdown \/ JoinWorkers
  BY <1>1, <1>3 DEF Shutdown, JoinWorkers, NotifyAll, shared
<1>4. ASSUME continue_running' = 0, ~Shutdown, ~JoinWorkers, ~UNCHANGED vars, ~Terminated
      PROVE  continue_running = 0 /\ pc'[Main] = pc[Main]
  <2>1. continue_running = 0
    BY <1>4 DEF Next, ParallelFor, ParallelForInline, Wait, LeaveRunner, TakeTask,
       SpuriousWakeup, Throw, FinishTask, FinishInline, Return, Handle, shared
  <2>2. pc[Main] \in {"joining", "exited"}
    BY <2>1
  <2>3. CASE Handle
    BY <2>1, <2>3 DEF Handle
  <2>4. CASE \E t \in Threads, g \in Groups : ParallelFor(t, g) \/ ParallelForInline(t, g)
    BY <1>1, <2>1, <2>2, <2>4 DEF ParallelFor, ParallelForInline, InBody
  <2>5. CASE \E t \in Threads : Wait(t) \/ LeaveRunner(t) \/ SpuriousWakeup(t) \/ Throw(t)
    BY <1>1, <2>1, <2>2, <2>5 DEF Wait, LeaveRunner, SpuriousWakeup, Throw, AtLock
  <2>6. CASE \E t \in Threads : FinishInline(t) \/ Return(t)
    BY <1>1, <2>1, <2>2, <2>6 DEF FinishInline, Return
  <2>7. ASSUME NEW t \in Threads, TakeTask(t) PROVE pc'[Main] = pc[Main]
    <3>1. PICK awake \in AfterNotify(n_sleeping', tasks') : pc' = [awake EXCEPT ![t] = "body"]
      BY <2>7 DEF TakeTask
    <3>2. Wakes(awake)
      BY <1>1, <3>1, AfterNotifyWakes
    <3>3. t # Main
      BY <2>2, <2>7 DEF TakeTask, AtLock
    <3>4. QED
      BY <2>2, <3>1, <3>2, <3>3 DEF Wakes
  <2>8. ASSUME NEW t \in Threads, FinishTask(t) PROVE pc'[Main] = pc[Main]
    <3>1. t # Main
      BY <2>2, <2>8 DEF FinishTask, InTask
    <3>2. QED
      BY <1>1, <2>2, <2>8, <3>1 DEF FinishTask, NotifyAll
  <2>9. QED
    BY <1>4, <2>1, <2>3, <2>4, <2>5, <2>6, <2>7, <2>8 DEF Next
<1>5. QED
  BY <1>2, <1>3, <1>4

-----------------------------------------------------------------------------
CalleeGroups ==
  {g \in Groups : \E t \in Threads : \E k \in 1..Len(stack[t]) :
     IsCallee(stack[t][k]) /\ stack[t][k][1] = g}

LEMMA RunningCallIsCallee ==
  ASSUME IInv, NEW g \in Groups, Running(CallFrame(g))
  PROVE  g \in CalleeGroups
<1>1. PICK f : f = CallFrame(g)
  OBVIOUS
<1>2. f \notin Task /\ f[1] = g
  BY <1>1, FrameFacts DEF CallFrame
<1>3. PICK t \in Threads : \E k \in DOMAIN stack[t] : stack[t][k] = f
  BY <1>1 DEF Running
<1>4. DOMAIN stack[t] = 1..Len(stack[t])
  BY LenProperties DEF IInv, TypeOK
<1>5. QED
  BY <1>2, <1>3, <1>4 DEF CalleeGroups, IsCallee

\* While Main is in no call, no call is being made by anybody: the group with
\* the fewest ancestors would have been called from one with fewer still.
LEMMA NobodyCalls ==
  ASSUME IInv, Ancestry, stack[Main] = <<>>
  PROVE  CalleeGroups = {}
<1>1. PICK anc \in [Groups -> SUBSET Groups] : CallersBelow(anc) /\ OnlyMade(anc)
  BY DEF Ancestry
<1>2. ASSUME NEW g \in CalleeGroups
      PROVE  \E h \in CalleeGroups : anc[h] \subseteq anc[g] /\ anc[h] # anc[g]
  <2>10. PICK t \in Threads : \E k \in 1..Len(stack[t]) :
               IsCallee(stack[t][k]) /\ stack[t][k][1] = g
    BY <1>2 DEF CalleeGroups
  <2>1. PICK k \in 1..Len(stack[t]) : IsCallee(stack[t][k]) /\ stack[t][k][1] = g
    BY <2>10
  <2>2. Len(stack[Main]) = 0 /\ Main \in Threads
    BY EmptySeq, MainIsAThread
  <2>3. k # 1 /\ stack[t][k - 1] \in Task
    BY <2>1, <2>2 DEF IInv, Shape
  <2>4. PICK x : x = stack[t][k - 1]
    OBVIOUS
  <2>5. k - 1 \in 1..Len(stack[t]) /\ DOMAIN stack[t] = 1..Len(stack[t])
    <3>1. stack[t] \in Seq(Frame)
      BY DEF IInv, TypeOK
    <3>2. Len(stack[t]) \in Nat /\ DOMAIN stack[t] = 1..Len(stack[t])
      BY <3>1, LenProperties
    <3>3. QED
      BY <2>3, <3>2
  <2>6. x \in Task /\ x[1] \in Groups /\ Running(x)
    BY <2>3, <2>4, <2>5, FrameFacts DEF Running
  <2>7. anc[x[1]] \subseteq anc[g] /\ anc[x[1]] # anc[g]
    BY <1>1, <2>1, <2>3, <2>4 DEF CallersBelow
  <2>8. x[1] \in CalleeGroups
    <3>1. CASE x[1] \in Inline
      BY <2>4, <2>5, <2>6, <3>1 DEF CalleeGroups, IsCallee
    <3>2. CASE x[1] \notin Inline
      BY <2>6, <3>2, RunningCallIsCallee DEF IInv, Placement, Frames
    <3>3. QED
      BY <3>1, <3>2
  <2>9. QED
    BY <2>7, <2>8
<1>3. SUFFICES ASSUME CalleeGroups # {} PROVE FALSE
  OBVIOUS
<1> DEFINE R == StrictSubsetOrdering(Groups)
           T == {anc[g] : g \in CalleeGroups}
<1>4. IsWellFoundedOn(R, SUBSET Groups)
  <2>1. IsFiniteSet(Groups)
    BY ConstantsAssumption
  <2>2. FiniteSubsetsOf(Groups) = SUBSET Groups
    BY <2>1, FS_FiniteSubsetsOfFinite
  <2>3. QED
    BY <2>2, FS_StrictSubsetOrderingWellFounded, Zenon
<1>5. T \subseteq SUBSET Groups /\ T # {}
  BY <1>3 DEF CalleeGroups
<1>6. \E a \in T : \A b \in T : <<b, a>> \notin R
  <2> HIDE DEF R, T
  <2>1. QED
    BY <1>4, <1>5, WFMin, Zenon
<1>7. PICK g \in CalleeGroups : \A b \in T : <<b, anc[g]>> \notin R
  BY <1>6, Zenon
<1>8. PICK h \in CalleeGroups : anc[h] \subseteq anc[g] /\ anc[h] # anc[g]
  BY <1>2
<1>9. anc[h] \in T /\ anc[h] \in SUBSET Groups /\ anc[g] \in SUBSET Groups
  BY DEF CalleeGroups
<1>10. <<anc[h], anc[g]>> \in R
  BY <1>8, <1>9 DEF StrictSubsetOrdering
<1>11. QED
  BY <1>7, <1>9, <1>10

\* The error message of the destructor cannot be printed: the manager is only
\* destroyed when no call is in progress on any thread.
THEOREM DestructorTheorem == Spec => []DestructorFindsNoTasks
<1>1. Init => Ancestry /\ Destroying
  BY InitAncestry DEF Init, Destroying
<1>2. IInv /\ Ancestry /\ Destroying /\ [Next]_vars => Ancestry' /\ Destroying'
  BY NextAncestry, NextDestroying
<1>3. IInv /\ Ancestry /\ Destroying => DestructorFindsNoTasks
  <2> SUFFICES ASSUME IInv, Ancestry, Destroying, continue_running = 0
               PROVE  tasks = <<>> /\ \A t \in Threads : stack[t] = <<>>
    BY DEF DestructorFindsNoTasks
  <2>1. stack[Main] = <<>>
    BY MainIsAThread DEF Destroying, IInv, Tops, TopAt
  <2>2. CalleeGroups = {}
    BY <2>1, NobodyCalls
  <2>3. \A x \in Task : ~Running(x) /\ ~Queued(x)
    <3> SUFFICES ASSUME NEW x \in Task, Running(x) \/ Queued(x) PROVE FALSE
      OBVIOUS
    <3>1. x[1] \in Groups /\ call[x[1]] = "active" /\ (Queued(x) => x[1] \notin Inline)
      BY FrameFacts DEF IInv, Placement
    <3>2. CASE x[1] \in Inline
      BY <2>2, <3>1, <3>2 DEF Running, CalleeGroups, IsCallee, IInv, TypeOK
    <3>3. CASE x[1] \notin Inline
      BY <2>2, <3>1, <3>3, RunningCallIsCallee DEF IInv, Frames
    <3>4. QED
      BY <3>2, <3>3
  <2>4. \A t \in Threads : stack[t] = <<>>
    <3> SUFFICES ASSUME NEW t \in Threads, stack[t] # <<>> PROVE FALSE
      OBVIOUS
    <3>1. StackTyped
      BY DEF IInv, TypeOK, StackTyped
    <3>2. PICK f : f = Top(t)
      OBVIOUS
    <3>3. f \in Frame /\ Running(f)
      BY <3>1, <3>2, TopFacts
    <3>4. f \notin Task
      BY <2>3, <3>3
    <3>5. f[1] \in Groups /\ f = CallFrame(f[1])
      BY <3>3, <3>4, FrameFacts
    <3>6. QED
      BY <2>2, <3>3, <3>5, RunningCallIsCallee
  <2>5. tasks = <<>>
    <3> SUFFICES ASSUME tasks # <<>> PROVE FALSE
      OBVIOUS
    <3>1. tasks \in Seq(Task)
      BY DEF IInv, TypeOK
    <3>2. Len(tasks) \in DOMAIN tasks
      BY <3>1, EmptySeq, LenProperties
    <3>3. QED
      BY <2>3, <3>1, <3>2, ElementOfSeq, LenProperties DEF Queued
  <2>6. QED
    BY <2>4, <2>5
<1>4. QED
  BY <1>1, <1>2, <1>3, Invariance, PTL DEF Spec

-----------------------------------------------------------------------------
(***************************************************************************)
(* No wake-up is lost, for any number of workers and calls.                *)
(*                                                                         *)
(* NoLostWakeup is not inductive: the thread on its way to the lock may be *)
(* a caller whose counter reaches 0 before it gets there.  What saves the  *)
(* sleeping workers is that only a pop can deprive a caller of its queued  *)
(* tasks, and every pop that leaves tasks behind calls a worker first.     *)
(***************************************************************************)
Pending == \E x \in Task : Queued(x)

\* Thread u will take a task unless another does: it is a worker, or a caller of
\* whose tasks one is queued.
Coming(u) ==
  /\ AtLock(u)
  /\ stack[u] = <<>> \/ \E x \in Task : Queued(x) /\ x[1] = Top(u)[1]

AsleepWaits == \A t \in Threads : pc[t] = "asleep" => AwaitedCounter(t) > 0
WorkersCalled == Pending /\ Sleepers(NewPendingTask) # {} => \E u \in Threads : Coming(u)
CallersCalled ==
  Pending /\ Sleepers(TaskGroupFinished) # {} =>
    \E u \in Threads : AtLock(u) /\ AwaitedCounter(u) > 0

WInv == AsleepWaits /\ WorkersCalled /\ CallersCalled

-----------------------------------------------------------------------------
QueueEmptiness == QueueTyped => (Pending <=> tasks # <<>>)

LEMMA PendingNow == QueueEmptiness
<1> SUFFICES ASSUME QueueTyped PROVE Pending <=> tasks # <<>>
  BY DEF QueueEmptiness
<1>1. Len(tasks) \in Nat /\ DOMAIN tasks = 1 .. Len(tasks)
  BY LenProperties DEF QueueTyped
<1>2. CASE tasks = <<>>
  BY <1>1, <1>2 DEF Pending, Queued
<1>3. CASE tasks # <<>>
  <2>1. Len(tasks) \in 1 .. Len(tasks)
    BY <1>1, <1>3, EmptySeq DEF QueueTyped
  <2>2. tasks[Len(tasks)] \in Task
    BY <2>1, ElementOfSeq DEF QueueTyped
  <2>3. QED
    BY <1>1, <1>3, <2>1, <2>2 DEF Pending, Queued
<1>4. QED
  BY <1>2, <1>3

LEMMA PendingNext == QueueEmptiness'
  BY PendingNow, PTL

\* The call that a waiting caller waits for.
LEMMA CallersGroup ==
  ASSUME IInv, NEW u \in Threads, pc[u] \in {"runner", "asleep", "woken"}, stack[u] # <<>>
  PROVE  /\ Top(u)[1] \in Groups /\ call[Top(u)[1]] = "active" /\ Top(u)[1] \notin Inline
         /\ AwaitedCounter(u) = siblings_counter[Top(u)[1]]
<1>1. StackTyped /\ Top(u) \notin Task
  BY DEF IInv, TypeOK, StackTyped, Tops, TopAt, RunnerTop
<1>2. Top(u) \in Frame /\ Running(Top(u))
  BY <1>1, TopFacts
<1>3. PICK f : f = Top(u)
  OBVIOUS
<1>4. f[1] \in Groups /\ f = CallFrame(f[1])
  BY <1>1, <1>2, <1>3, FrameFacts
<1>5. QED
  BY <1>2, <1>3, <1>4 DEF IInv, Frames, AwaitedCounter

\* While tasks are queued the destructor has not run, and a caller with queued
\* tasks has not counted them down.
LEMMA ComingAwaits ==
  ASSUME IInv, DestructorFindsNoTasks, Pending, NEW u \in Threads, Coming(u)
  PROVE  AwaitedCounter(u) > 0
<1>1. CASE stack[u] = <<>>
  <2>1. tasks # <<>>
    BY PendingNow DEF QueueEmptiness, IInv, TypeOK, QueueTyped
  <2>2. continue_running \in {0, 1} /\ continue_running # 0
    BY <2>1 DEF DestructorFindsNoTasks, IInv, TypeOK
  <2>3. QED
    BY <1>1, <2>2 DEF AwaitedCounter
<1>2. CASE stack[u] # <<>>
  <2>1. PICK x \in Task : Queued(x) /\ x[1] = Top(u)[1]
    BY <1>2 DEF Coming
  <2>2. PICK g : g = Top(u)[1]
    OBVIOUS
  <2>3. /\ g \in Groups /\ call[g] = "active" /\ g \notin Inline
        /\ AwaitedCounter(u) = siblings_counter[g]
    BY <1>2, <2>2, CallersGroup DEF Coming, AtLock
  <2>4. x \in UnfinishedTasks(g)
    <3>1. outcome[x] = Unfinished
      BY <2>1 DEF IInv, Placement
    <3>2. QED
      BY <2>1, <2>2, <2>3, <3>1, TasksOfFacts DEF UnfinishedTasks
  <2>5. IsFiniteSet(UnfinishedTasks(g)) /\ Cardinality(UnfinishedTasks(g)) \in Nat
    BY <2>3, UnfinishedFinite
  <2>6. Cardinality(UnfinishedTasks(g)) # 0
    BY <2>4, <2>5, FS_EmptySet
  <2>7. QED
    BY <2>3, <2>5, <2>6 DEF IInv, SiblingsCountUnfinished
<1>3. QED
  BY <1>1, <1>2

LEMMA InitWInv == Init => WInv
<1> SUFFICES ASSUME Init PROVE WInv
  OBVIOUS
<1>1. \A t \in Threads : pc[t] # "asleep"
  BY DEF Init
<1>2. QED
  BY <1>1 DEF WInv, AsleepWaits, WorkersCalled, CallersCalled, Sleepers

\* What a thread waits for follows from its stack and the counters.
LEMMA AwaitedKept ==
  ASSUME NEW u, stack'[u] = stack[u]
  PROVE  /\ AwaitedCv(u)' = AwaitedCv(u) /\ Top(u)' = Top(u)
         /\ AwaitedCounter(u)' = IF stack[u] = <<>> THEN continue_running'
                                 ELSE siblings_counter'[Top(u)[1]]
  BY DEF AwaitedCv, AwaitedCounter, Top

-----------------------------------------------------------------------------
\* Steps of thread t that leave the queue and the counters alone, by which it
\* neither leaves the lock for good with work to do nor goes to sleep on some.
LEMMA QuietWInv ==
  ASSUME IInv, DestructorFindsNoTasks, WInv, NEW t \in Threads,
         tasks' = tasks, siblings_counter' = siblings_counter,
         continue_running' = continue_running,
         \A u \in Threads \ {t} : stack'[u] = stack[u] /\ pc'[u] = pc[u],
         pc'[t] = "asleep" => tasks = <<>> /\ AwaitedCounter(t)' > 0,
         AtLock(t) => tasks = <<>> \/ AwaitedCounter(t) = 0
  PROVE  WInv'
<1>1. /\ Pending' <=> Pending
      /\ \A x : Queued(x)' <=> Queued(x)
      /\ Pending => tasks # <<>>
  BY PendingNow DEF Pending, Queued, QueueEmptiness, IInv, TypeOK, QueueTyped
<1>2. \A u \in Threads \ {t} :
        /\ AwaitedCv(u)' = AwaitedCv(u) /\ AwaitedCounter(u)' = AwaitedCounter(u)
        /\ AtLock(u)' <=> AtLock(u)
        /\ Coming(u)' <=> Coming(u)
  BY <1>1, AwaitedKept DEF AwaitedCounter, AtLock, Coming
<1>3. AsleepWaits'
  BY <1>2 DEF WInv, AsleepWaits
<1>4. \A u \in Threads : Pending /\ (AwaitedCounter(u) > 0 \/ Coming(u)) /\ AtLock(u) => u # t
  <2> SUFFICES ASSUME Pending, AtLock(t), AwaitedCounter(t) > 0 \/ Coming(t) PROVE FALSE
    OBVIOUS
  <2>1. AwaitedCounter(t) = 0
    BY <1>1
  <2>2. QED
    BY <2>1, ComingAwaits
<1>5. \A cv : Pending => \A u \in Sleepers(cv)' : u \in Sleepers(cv)
  BY <1>1, <1>2 DEF Sleepers
<1>6. WorkersCalled'
  <2> SUFFICES ASSUME Pending, Sleepers(NewPendingTask)' # {} PROVE \E u \in Threads : Coming(u)'
    BY <1>1 DEF WorkersCalled
  <2>1. PICK u \in Threads : Coming(u)
    BY <1>5 DEF WInv, WorkersCalled
  <2>2. QED
    BY <1>2, <1>4, <2>1 DEF Coming
<1>7. CallersCalled'
  <2> SUFFICES ASSUME Pending, Sleepers(TaskGroupFinished)' # {}
               PROVE  \E u \in Threads : AtLock(u)' /\ AwaitedCounter(u)' > 0
    BY <1>1 DEF CallersCalled
  <2>1. PICK u \in Threads : AtLock(u) /\ AwaitedCounter(u) > 0
    BY <1>5 DEF WInv, CallersCalled
  <2>2. QED
    BY <1>2, <1>4, <2>1
<1>8. QED
  BY <1>3, <1>6, <1>7 DEF WInv

LEMMA OneThreadWInv ==
  ASSUME IInv, DestructorFindsNoTasks, WInv, NEW t \in Threads,
         \/ Wait(t) \/ LeaveRunner(t) \/ SpuriousWakeup(t) \/ Throw(t) \/ FinishInline(t)
         \/ Return(t) \/ \E g \in Groups : ParallelForInline(t, g)
  PROVE  WInv'
<1>1. pc \in [Threads -> PC] /\ stack \in [Threads -> Seq(Frame)] /\ n_sleeping \in [CondVar -> Nat]
  BY DEF IInv, TypeOK
<1>2. CASE Wait(t)
  BY <1>1, <1>2, AwaitedKept, QuietWInv DEF Wait, shared, AwaitedCounter
<1>3. CASE LeaveRunner(t)
  BY <1>1, <1>3, QuietWInv DEF LeaveRunner, NothingLeft, shared
<1>4. CASE SpuriousWakeup(t)
  BY <1>1, <1>4, QuietWInv DEF SpuriousWakeup, AtLock, shared
<1>5. CASE Throw(t)
  BY <1>1, <1>5, QuietWInv DEF Throw, InTask, AtLock, shared
<1>6. CASE FinishInline(t)
  BY <1>1, <1>6, QuietWInv DEF FinishInline, InTask, AtLock, Pop, shared
<1>7. CASE Return(t)
  BY <1>1, <1>7, QuietWInv DEF Return, AtLock, Pop, shared
<1>8. CASE \E g \in Groups : ParallelForInline(t, g)
  BY <1>1, <1>8, QuietWInv DEF ParallelForInline, InBody, AtLock, Push, shared
<1>9. QED
  BY <1>2, <1>3, <1>4, <1>5, <1>6, <1>7, <1>8

LEMMA MainWInv ==
  ASSUME IInv, DestructorFindsNoTasks, WInv, Handle \/ Shutdown \/ JoinWorkers
  PROVE  WInv'
<1>1. pc \in [Threads -> PC] /\ Main \in Threads
  BY MainIsAThread DEF IInv, TypeOK
<1>2. CASE Handle \/ JoinWorkers
  BY <1>1, <1>2, QuietWInv DEF Handle, JoinWorkers, AtLock, shared
<1>3. CASE Shutdown
  <2>1. \A u \in Threads : pc'[u] # "asleep"
    BY <1>1, <1>3 DEF Shutdown, NotifyAll, DestructorWakes, AwaitedCv
  <2>2. QED
    BY <2>1 DEF WInv, AsleepWaits, WorkersCalled, CallersCalled, Sleepers
<1>4. QED
  BY <1>2, <1>3

\* The caller is on its way to its own tasks; if it queued none, nothing changed.
LEMMA ParallelForWInv ==
  ASSUME IInv, DestructorFindsNoTasks, WInv, NEW t \in Threads, NEW g \in Groups, ParallelFor(t, g)
  PROVE  WInv'
<1>1. /\ pc[t] = "body" /\ call[g] = "new" /\ g \notin Inline
      /\ siblings_counter' = [siblings_counter EXCEPT ![g] = NTasks[g]]
      /\ tasks' = tasks \o [i \in 1 .. NTasks[g] |-> <<g, i>>]
      /\ continue_running' = continue_running
      /\ Push(t, CallFrame(g)) /\ pc' = [pc EXCEPT ![t] = "runner"]
  BY DEF ParallelFor, InBody, QueuedCount
<1>2. /\ pc \in [Threads -> PC] /\ siblings_counter \in [Groups -> Nat]
      /\ StackTyped /\ QueueTyped
  BY DEF IInv, TypeOK, StackTyped, QueueTyped
<1>3. \A x : Queued(x)' <=> Queued(x) \/ x \in TasksOf(g)
  BY <1>1, <1>2, QueueGroup
<1>4. /\ \A u \in Threads \ {t} : stack'[u] = stack[u] /\ pc'[u] = pc[u]
      /\ pc'[t] = "runner" /\ stack'[t] # <<>> /\ Top(t)' = CallFrame(g)
  BY <1>1, <1>2, PushFacts, FrameFacts
<1>5. \A u \in Threads \ {t} :
        pc[u] \in {"runner", "asleep", "woken"} =>
          AwaitedCv(u)' = AwaitedCv(u) /\ AwaitedCounter(u)' = AwaitedCounter(u)
  <2> SUFFICES ASSUME NEW u \in Threads \ {t}, pc[u] \in {"runner", "asleep", "woken"}
               PROVE  AwaitedCv(u)' = AwaitedCv(u) /\ AwaitedCounter(u)' = AwaitedCounter(u)
    OBVIOUS
  <2>1. stack[u] # <<>> => /\ Top(u)[1] # g /\ Top(u)[1] \in Groups
    BY <1>1, CallersGroup
  <2>2. QED
    BY <1>1, <1>2, <1>4, <2>1, AwaitedKept DEF AwaitedCounter
<1>6. AsleepWaits'
  BY <1>4, <1>5 DEF WInv, AsleepWaits
<1>7. CASE NTasks[g] = 0
  <2>1. TasksOf(g) = {}
    BY <1>7 DEF TasksOf
  <2>2. /\ \A x : Queued(x)' <=> Queued(x)
        /\ Pending' <=> Pending
    BY <1>3, <2>1 DEF Pending
  <2>3. \A cv : \A u \in Sleepers(cv)' : u \in Sleepers(cv)
    BY <1>4, <1>5 DEF Sleepers
  <2>4. \A u \in Threads : AtLock(u) => u # t /\ AtLock(u)' /\ AwaitedCounter(u)' = AwaitedCounter(u)
    BY <1>1, <1>4, <1>5 DEF AtLock
  <2>5. \A u \in Threads : Coming(u) => Coming(u)'
    BY <1>4, <2>2, <2>4, AwaitedKept DEF Coming
  <2>6. WorkersCalled'
    BY <2>2, <2>3, <2>5 DEF WInv, WorkersCalled
  <2>7. CallersCalled'
    BY <2>2, <2>3, <2>4 DEF WInv, CallersCalled
  <2>8. QED
    BY <1>6, <2>6, <2>7 DEF WInv
<1>8. CASE NTasks[g] # 0
  <2>1. NTasks[g] \in Nat \ {0}
    BY <1>8, ConstantsAssumption
  <2>2. <<g, 1>> \in TasksOf(g) /\ TasksOf(g) \subseteq Task
    BY <2>1, TasksOfFacts
  <2>3. CallFrame(g)[1] = g /\ <<g, 1>>[1] = g
    BY FrameFacts
  <2>4. AtLock(t)'
    BY <1>4 DEF AtLock
  <2>5. Coming(t)'
    BY <1>3, <1>4, <2>2, <2>3, <2>4 DEF Coming
  <2>6. AwaitedCounter(t)' > 0
    <3>1. AwaitedCounter(t)' = siblings_counter'[g]
      BY <1>4, <2>3 DEF AwaitedCounter
    <3>2. QED
      BY <1>1, <1>2, <2>1, <3>1
  <2>7. QED
    BY <1>6, <2>4, <2>5, <2>6 DEF WInv, WorkersCalled, CallersCalled
<1>9. QED
  BY <1>7, <1>8

\* A pop that leaves tasks behind leaves a worker on its way to the lock, or no
\* worker in Wait; then a caller that sleeps, if there is one, is woken.
LEMMA TakeTaskWInv ==
  ASSUME IInv, IInv', DestructorFindsNoTasks, WInv, NEW t \in Threads, TakeTask(t)
  PROVE  WInv'
<1>1. PICK awake \in AfterNotify(n_sleeping', tasks') : pc' = [awake EXCEPT ![t] = "body"]
  BY DEF TakeTask
<1>2. /\ AtLock(t) /\ tasks # <<>> /\ Push(t, NextTask)
      /\ siblings_counter' = siblings_counter /\ continue_running' = continue_running
  BY DEF TakeTask
<1>3. /\ pc \in [Threads -> PC] /\ stack \in [Threads -> Seq(Frame)]
      /\ continue_running \in {0, 1} /\ QueueTyped'
      /\ n_sleeping' \in [CondVar -> Nat]
  BY DEF IInv, TypeOK, QueueTyped
<1>4. Wakes(awake)
  BY <1>1, <1>3, AfterNotifyWakes
<1>5. /\ pc'[t] = "body"
      /\ \A u \in Threads \ {t} : /\ stack'[u] = stack[u] /\ pc'[u] = awake[u]
                                  /\ pc'[u] = pc[u] \/ (pc[u] = "asleep" /\ pc'[u] = "woken")
  BY <1>1, <1>2, <1>3, <1>4 DEF Wakes, Push
<1>6. \A u \in Threads \ {t} :
        AwaitedCv(u)' = AwaitedCv(u) /\ AwaitedCounter(u)' = AwaitedCounter(u)
  BY <1>2, <1>5, AwaitedKept DEF AwaitedCounter
<1>7. AsleepWaits'
  BY <1>5, <1>6 DEF WInv, AsleepWaits
<1>8. \A cv \in CondVar : n_sleeping'[cv] = Cardinality(Waiters(cv)')
  BY DEF IInv, WaiterCounts
<1>9. \A cv \in CondVar : n_sleeping'[cv] > 0 <=> Waiters(cv)' # {}
  <2>1. (\A cv : IsFiniteSet(Waiters(cv)) /\ Cardinality(Waiters(cv)) \in Nat)'
    <3> DEFINE Counted == \A cv : IsFiniteSet(Waiters(cv)) /\ Cardinality(Waiters(cv)) \in Nat
    <3>1. Counted
      BY WaitersFinite
    <3> HIDE DEF Counted
    <3>2. Counted'
      <4>1. IsFiniteSet(Threads)
        BY ConstantsAssumption, FS_AddElement DEF Threads
      <4>2. \A cv : Waiters(cv)' \subseteq Threads
        BY DEF Waiters
      <4>3. QED
        BY <4>1, <4>2, FS_Subset, FS_CardinalityType DEF Counted
    <3>3. QED
      BY <3>2 DEF Counted
  <2>2. QED
    BY <1>8, <2>1, FS_EmptySet
<1>10. NewPendingTask \in CondVar /\ TaskGroupFinished \in CondVar
       /\ NewPendingTask # TaskGroupFinished
  BY DEF CondVar, NewPendingTask, TaskGroupFinished
<1>11. CASE ~Pending'
  BY <1>7, <1>11 DEF WInv, WorkersCalled, CallersCalled
<1>12. CASE Pending' /\ n_sleeping'[NewPendingTask] > 0
  <2>1. awake \in NotifyOne(NewPendingTask)
    BY <1>1, <1>3, <1>12, PendingNext DEF AfterNotify, QueueEmptiness
  <2>2. \E u \in Threads \ {t} : AtLock(u)' /\ stack[u] = <<>>
    <3>1. CASE Sleepers(NewPendingTask) = {}
      <4>1. awake = pc
        BY <2>1, <3>1 DEF NotifyOne
      <4>2. PICK u \in Threads : InWait(u)' /\ AwaitedCv(u)' = NewPendingTask
        BY <1>9, <1>10, <1>12 DEF Waiters
      <4>3. u # t
        BY <1>5, <4>2 DEF InWait
      <4>4. pc'[u] = pc[u] /\ AwaitedCv(u) = NewPendingTask
        BY <1>5, <1>6, <4>1, <4>2, <4>3
      <4>5. pc[u] # "asleep"
        BY <3>1, <4>4 DEF Sleepers
      <4>6. AtLock(u)'
        BY <4>2, <4>4, <4>5 DEF InWait, AtLock
      <4>7. QED
        BY <1>10, <4>3, <4>4, <4>6 DEF AwaitedCv
    <3>2. CASE Sleepers(NewPendingTask) # {}
      <4>1. PICK u \in Sleepers(NewPendingTask) : awake = [pc EXCEPT ![u] = "woken"]
        BY <2>1, <3>2 DEF NotifyOne
      <4>2. u \in Threads /\ pc[u] = "asleep" /\ stack[u] = <<>>
        BY <1>10, <4>1 DEF Sleepers, AwaitedCv
      <4>3. u # t
        BY <1>2, <4>2 DEF AtLock
      <4>4. AtLock(u)'
        BY <1>3, <1>5, <4>1, <4>2, <4>3 DEF AtLock
      <4>5. QED
        BY <4>2, <4>3, <4>4
    <3>3. QED
      BY <3>1, <3>2
  <2>3. PICK u \in Threads \ {t} : AtLock(u)' /\ stack[u] = <<>>
    BY <2>2
  <2>4. Coming(u)'
    BY <1>5, <2>3 DEF Coming
  <2>5. AwaitedCounter(u)' > 0
    <3>1. continue_running = 1
      BY <1>2, <1>3 DEF DestructorFindsNoTasks
    <3>2. QED
      BY <1>6, <2>3, <3>1 DEF AwaitedCounter
  <2>6. QED
    BY <1>7, <2>3, <2>4, <2>5 DEF WInv, WorkersCalled, CallersCalled
<1>13. CASE Pending' /\ ~(n_sleeping'[NewPendingTask] > 0)
  <2>1. Sleepers(NewPendingTask)' = {}
    BY <1>9, <1>10, <1>13 DEF Sleepers, Waiters, InWait
  <2>2. CASE Sleepers(TaskGroupFinished)' = {}
    BY <1>7, <2>1, <2>2 DEF WInv, WorkersCalled, CallersCalled
  <2>3. CASE Sleepers(TaskGroupFinished)' # {}
    <3>1. n_sleeping'[TaskGroupFinished] > 0
      BY <1>9, <1>10, <2>3 DEF Sleepers, Waiters, InWait
    <3>2. awake \in NotifyOne(TaskGroupFinished)
      BY <1>1, <1>3, <1>13, <3>1, PendingNext DEF AfterNotify, QueueEmptiness
    <3>3. Sleepers(TaskGroupFinished) # {}
      <4>1. PICK s \in Threads : pc'[s] = "asleep" /\ AwaitedCv(s)' = TaskGroupFinished
        BY <2>3 DEF Sleepers
      <4>2. s # t /\ pc[s] = "asleep" /\ AwaitedCv(s) = TaskGroupFinished
        BY <1>5, <1>6, <4>1
      <4>3. QED
        BY <4>2 DEF Sleepers
    <3>4. PICK u \in Sleepers(TaskGroupFinished) : awake = [pc EXCEPT ![u] = "woken"]
      BY <3>2, <3>3 DEF NotifyOne
    <3>5. u \in Threads /\ pc[u] = "asleep" /\ u # t
      BY <1>2, <3>4 DEF Sleepers, AtLock
    <3>6. AtLock(u)' /\ AwaitedCounter(u)' > 0
      BY <1>3, <1>5, <1>6, <3>4, <3>5 DEF AtLock, WInv, AsleepWaits
    <3>7. QED
      BY <1>7, <2>1, <3>5, <3>6 DEF WInv, WorkersCalled, CallersCalled
  <2>4. QED
    BY <2>2, <2>3
<1>14. QED
  BY <1>11, <1>12, <1>13

\* The last task of a call wakes every caller that sleeps, and a thread that is
\* coming still has what it comes for.
LEMMA FinishTaskWInv ==
  ASSUME IInv, IInv', DestructorFindsNoTasks, WInv, NEW t \in Threads, FinishTask(t)
  PROVE  WInv'
<1>1. PICK g : g = Top(t)[1]
  OBVIOUS
<1>2. /\ InTask(t) /\ Pop(t) /\ tasks' = tasks /\ continue_running' = continue_running
      /\ siblings_counter' = [siblings_counter EXCEPT ![g] = @ - 1]
      /\ pc' = [(IF siblings_counter'[g] = 0 THEN NotifyAll({TaskGroupFinished}) ELSE pc)
                EXCEPT ![t] = "runner"]
  BY <1>1 DEF FinishTask, Countdown, LastTaskWakes
<1>3. /\ pc \in [Threads -> PC] /\ stack \in [Threads -> Seq(Frame)]
      /\ siblings_counter \in [Groups -> Nat] /\ siblings_counter' \in [Groups -> Nat]
      /\ g \in Groups /\ pc[t] = "body"
  BY <1>1, <1>2, InTaskFacts DEF IInv, TypeOK, InTask
<1>4. /\ Pending' <=> Pending
      /\ \A x : Queued(x)' <=> Queued(x)
  BY <1>2 DEF Pending, Queued
<1>5. /\ pc'[t] = "runner"
      /\ \A u \in Threads \ {t} : /\ stack'[u] = stack[u]
                                  /\ pc'[u] = pc[u] \/ (pc[u] = "asleep" /\ pc'[u] = "woken")
  <2>1. Wakes(NotifyAll({TaskGroupFinished}))
    BY <1>3, NotifyAllWakes
  <2>2. QED
    BY <1>2, <1>3, <2>1 DEF Wakes, Pop
<1>6. \A u \in Threads : Coming(u) => Coming(u)'
  <2> SUFFICES ASSUME NEW u \in Threads, Coming(u) PROVE Coming(u)'
    OBVIOUS
  <2>1. u # t
    BY <1>3 DEF Coming, AtLock
  <2>2. QED
    BY <1>4, <1>5, <2>1, AwaitedKept DEF Coming, AtLock
<1>7. \A u \in Threads \ {t} : AwaitedCv(u)' = AwaitedCv(u) /\ Top(u)' = Top(u)
  BY <1>5, AwaitedKept
<1>8. \A cv : \A u \in Sleepers(cv)' : u \in Sleepers(cv) /\ u # t
  BY <1>5, <1>7 DEF Sleepers
<1>9. WorkersCalled'
  BY <1>4, <1>6, <1>8 DEF WInv, WorkersCalled
<1>10. \A u \in Threads \ {t} : stack[u] = <<>> => AwaitedCounter(u)' = AwaitedCounter(u)
  BY <1>2, <1>5, AwaitedKept DEF AwaitedCounter
<1>11. CASE siblings_counter'[g] = 0
  <2>1. \A u \in Threads \ {t} : pc'[u] = "asleep" => AwaitedCv(u) # TaskGroupFinished
    BY <1>2, <1>3, <1>11 DEF NotifyAll
  <2>2. CallersCalled'
    BY <1>7, <1>8, <2>1 DEF CallersCalled, Sleepers
  <2>3. AsleepWaits'
    <3>1. \A u \in Threads : pc'[u] = "asleep" => u # t /\ pc[u] = "asleep" /\ stack[u] = <<>>
      BY <1>5, <2>1 DEF AwaitedCv
    <3>2. QED
      BY <1>10, <3>1 DEF WInv, AsleepWaits
  <2>4. QED
    BY <1>9, <2>2, <2>3 DEF WInv
<1>12. CASE siblings_counter'[g] # 0
  <2>1. siblings_counter'[g] > 0
    BY <1>3, <1>12
  <2>2. \A u \in Threads \ {t} : /\ pc[u] \in {"runner", "asleep", "woken"}
                                 /\ AwaitedCounter(u) > 0
                                 => AwaitedCounter(u)' > 0
    <3> SUFFICES ASSUME NEW u \in Threads \ {t}, pc[u] \in {"runner", "asleep", "woken"},
                        AwaitedCounter(u) > 0, stack[u] # <<>>
                 PROVE  AwaitedCounter(u)' > 0
      BY <1>10
    <3>1. /\ Top(u)[1] \in Groups
          /\ AwaitedCounter(u) = siblings_counter[Top(u)[1]]
          /\ AwaitedCounter(u)' = siblings_counter'[Top(u)[1]]
      BY <1>5, CallersGroup, AwaitedKept
    <3>2. QED
      BY <1>2, <1>3, <2>1, <3>1
  <2>3. AsleepWaits'
    <3>1. \A u \in Threads : pc'[u] = "asleep" => u # t /\ pc[u] = "asleep"
      BY <1>5
    <3>2. QED
      BY <2>2, <3>1 DEF WInv, AsleepWaits
  <2>4. CallersCalled'
    <3> SUFFICES ASSUME Pending, Sleepers(TaskGroupFinished)' # {}
                 PROVE  \E u \in Threads : AtLock(u)' /\ AwaitedCounter(u)' > 0
      BY <1>4 DEF CallersCalled
    <3>1. PICK u \in Threads : AtLock(u) /\ AwaitedCounter(u) > 0
      BY <1>8 DEF WInv, CallersCalled
    <3>2. u # t /\ AtLock(u)'
      BY <1>3, <1>5, <3>1 DEF AtLock
    <3>3. QED
      BY <2>2, <3>1, <3>2 DEF AtLock
  <2>5. QED
    BY <1>9, <2>3, <2>4 DEF WInv
<1>13. QED
  BY <1>11, <1>12

LEMMA NextWInv == IInv /\ IInv' /\ DestructorFindsNoTasks /\ WInv /\ [Next]_vars => WInv'
<1> SUFFICES ASSUME IInv, IInv', DestructorFindsNoTasks, WInv, [Next]_vars PROVE WInv'
  OBVIOUS
<1>1. CASE UNCHANGED vars \/ Terminated
  <2>1. UNCHANGED vars
    BY <1>1 DEF Terminated
  <2>2. QED
    BY <2>1 DEF vars, WInv, AsleepWaits, WorkersCalled, CallersCalled, Pending, Queued,
                Sleepers, Coming, AtLock, AwaitedCv, AwaitedCounter, Top
<1>2. CASE \E t \in Threads, g \in Groups : ParallelFor(t, g) \/ ParallelForInline(t, g)
  BY <1>2, ParallelForWInv, OneThreadWInv
<1>3. CASE \E t \in Threads :
             \/ Wait(t) \/ LeaveRunner(t) \/ TakeTask(t)
             \/ SpuriousWakeup(t) \/ Throw(t) \/ FinishTask(t) \/ FinishInline(t)
             \/ Return(t)
  BY <1>3, OneThreadWInv, TakeTaskWInv, FinishTaskWInv
<1>4. CASE Handle \/ Shutdown \/ JoinWorkers
  BY <1>4, MainWInv
<1>5. QED
  BY <1>1, <1>2, <1>3, <1>4 DEF Next

\* ParallelFor notifies nobody (task_manager.cc:161) and a pop wakes one thread at
\* most (task_manager.cc:92): still, while a task is queued and some thread sleeps
\* in Wait, another thread is on its way to the lock and will take a task.
THEOREM NoLostWakeupTheorem == Spec => []NoLostWakeup
<1>1. Init => WInv
  BY InitWInv
<1>2. IInv /\ IInv' /\ DestructorFindsNoTasks /\ WInv /\ [Next]_vars => WInv'
  BY NextWInv
<1>3. IInv /\ DestructorFindsNoTasks /\ WInv => NoLostWakeup
  <2> SUFFICES ASSUME IInv, DestructorFindsNoTasks, WInv, tasks # <<>>,
                      NEW t \in Threads, pc[t] = "asleep"
               PROVE  \E u \in Threads : AtLock(u) /\ AwaitedCounter(u) > 0
    BY DEF NoLostWakeup
  <2>1. Pending
    BY PendingNow DEF QueueEmptiness, IInv, TypeOK, QueueTyped
  <2>2. t \in Sleepers(NewPendingTask) \/ t \in Sleepers(TaskGroupFinished)
    BY DEF Sleepers, AwaitedCv
  <2>3. CASE t \in Sleepers(TaskGroupFinished)
    BY <2>1, <2>3 DEF WInv, CallersCalled
  <2>4. CASE t \in Sleepers(NewPendingTask)
    <3>1. PICK u \in Threads : Coming(u)
      BY <2>1, <2>4 DEF WInv, WorkersCalled
    <3>2. QED
      BY <2>1, <3>1, ComingAwaits DEF Coming
  <2>5. QED
    BY <2>2, <2>3, <2>4
<1>4. QED
  BY <1>1, <1>2, <1>3, Invariance, DestructorTheorem, PTL DEF Spec

-----------------------------------------------------------------------------
(***************************************************************************)
(* The pool implements ForkJoin, for any number of workers and calls.      *)
(*                                                                         *)
(* A body of ForkJoin is joining the call whose frame lies on top of its   *)
(* own, and a thread that unwinds an exception does so out of the body on  *)
(* top of its stack: since no frame is on two stacks, both are functions   *)
(* of the body, and a push or a pop changes them for one body only.        *)
(***************************************************************************)
Bodies == Task \cup {Main}

\* Thread t runs body b, which is suspended in no call.
RunsBody(t, b) == IF stack[t] = <<>> THEN t = Main /\ b = Main ELSE Top(t) = b

\* Frame f lies on top of body b.
Above(b, f) ==
  \/ \E t \in Threads : \E k \in 1 .. Len(stack[t]) - 1 : stack[t][k] = b /\ stack[t][k + 1] = f
  \/ b = Main /\ stack[Main] # <<>> /\ f = stack[Main][1]

OnTop(t, b) == {stack[t][k + 1] : k \in {k \in 1 .. Len(stack[t]) - 1 : stack[t][k] = b}}
FirstOf(b) == IF b = Main /\ stack[Main] # <<>> THEN {stack[Main][1]} ELSE {}
FramesAbove(b) == (UNION {OnTop(t, b) : t \in Threads}) \cup FirstOf(b)

UnwindingFrom(b) == {t \in Threads : thrown[t] # NoExc /\ RunsBody(t, b)}

-----------------------------------------------------------------------------
\* The mapped variables joining and inflight, in these terms.

LEMMA FramesAboveDef ==
  /\ \A b, f : f \in FramesAbove(b) <=> Above(b, f)
  /\ \A b, f : f \in FramesAbove(b)' <=> Above(b, f)'
<1>1. /\ \A t, b, f : f \in OnTop(t, b) <=>
           \E k \in 1 .. Len(stack[t]) - 1 : stack[t][k] = b /\ stack[t][k + 1] = f
      /\ \A t, b, f : f \in OnTop(t, b)' <=>
           \E k \in 1 .. Len(stack'[t]) - 1 : stack'[t][k] = b /\ stack'[t][k + 1] = f
  BY DEF OnTop
<1>2. /\ \A b, f : f \in FirstOf(b) <=> b = Main /\ stack[Main] # <<>> /\ f = stack[Main][1]
      /\ \A b, f : f \in FirstOf(b)' <=> b = Main /\ stack'[Main] # <<>> /\ f = stack'[Main][1]
  BY DEF FirstOf
<1>3. ASSUME NEW b, NEW f
      PROVE  /\ f \in FramesAbove(b) <=> (\E t \in Threads : f \in OnTop(t, b)) \/ f \in FirstOf(b)
             /\ f \in FramesAbove(b)' <=>
                  (\E t \in Threads : f \in OnTop(t, b)') \/ f \in FirstOf(b)'
  <2>1. /\ f \in UNION {OnTop(t, b) : t \in Threads} <=> \E t \in Threads : f \in OnTop(t, b)
        /\ f \in UNION {OnTop(t, b)' : t \in Threads} <=> \E t \in Threads : f \in OnTop(t, b)'
    BY Zenon
  <2>2. QED
    BY <2>1 DEF FramesAbove
<1>4. QED
  BY <1>1, <1>2, <1>3 DEF Above

LEMMA JoiningOfDef ==
  /\ \A b : JoiningOf(b) = IF FramesAbove(b) = {} THEN NoGroup
                           ELSE (CHOOSE f \in FramesAbove(b) : TRUE)[1]
  /\ \A b : JoiningOf(b)' = IF FramesAbove(b)' = {} THEN NoGroup
                            ELSE (CHOOSE f \in FramesAbove(b)' : TRUE)[1]
  BY DEF JoiningOf, FramesAbove, OnTop, FirstOf

\* One frame at most lies on top of a body.
LEMMA AboveUnique ==
  ASSUME StackTyped, StackUnique, NEW b \in Bodies, NEW f, NEW h, Above(b, f), Above(b, h)
  PROVE  f = h
<1>1. \A t \in Threads : \A k \in 1 .. Len(stack[t]) - 1 :
        /\ k \in DOMAIN stack[t] /\ k + 1 \in DOMAIN stack[t] /\ stack[t][k] \in Frame
  <2> SUFFICES ASSUME NEW t \in Threads, NEW k \in 1 .. Len(stack[t]) - 1
               PROVE  k \in DOMAIN stack[t] /\ k + 1 \in DOMAIN stack[t] /\ stack[t][k] \in Frame
    OBVIOUS
  <2>1. stack[t] \in Seq(Frame)
    BY DEF StackTyped
  <2>2. Len(stack[t]) \in Nat /\ DOMAIN stack[t] = 1 .. Len(stack[t])
    BY <2>1, LenProperties
  <2>3. k \in 1 .. Len(stack[t]) /\ k + 1 \in 1 .. Len(stack[t])
    BY <2>2
  <2>4. QED
    BY <2>1, <2>2, <2>3, ElementOfSeq
<1>2. CASE b = Main
  BY <1>1, <1>2, MainAssumption DEF Above
<1>3. CASE b # Main
  <2>a. PICK t \in Threads :
          \E k \in 1 .. Len(stack[t]) - 1 : stack[t][k] = b /\ stack[t][k + 1] = f
    BY <1>3 DEF Above
  <2>b. PICK u \in Threads :
          \E k \in 1 .. Len(stack[u]) - 1 : stack[u][k] = b /\ stack[u][k + 1] = h
    BY <1>3 DEF Above
  <2>1. PICK k \in 1 .. Len(stack[t]) - 1 : stack[t][k] = b /\ stack[t][k + 1] = f
    BY <2>a
  <2>2. PICK l \in 1 .. Len(stack[u]) - 1 : stack[u][l] = b /\ stack[u][l + 1] = h
    BY <2>b
  <2>3. t = u /\ k = l
    BY <1>1, <2>1, <2>2 DEF StackUnique
  <2>4. QED
    BY <2>1, <2>2, <2>3
<1>4. QED
  BY <1>2, <1>3

LEMMA JoiningFacts ==
  ASSUME StackTyped, StackUnique, NEW b \in Bodies
  PROVE  /\ \A f : Above(b, f) => JoiningOf(b) = f[1]
         /\ (\A f : ~Above(b, f)) => JoiningOf(b) = NoGroup
<1>1. \A f : f \in FramesAbove(b) <=> Above(b, f)
  BY FramesAboveDef
<1>2. ASSUME NEW f, Above(b, f) PROVE JoiningOf(b) = f[1]
  <2>1. f \in FramesAbove(b) /\ \A h \in FramesAbove(b) : h = f
    BY <1>1, <1>2, AboveUnique
  <2>2. PICK h : h = CHOOSE k \in FramesAbove(b) : TRUE
    OBVIOUS
  <2>3. h = f
    BY <2>1, <2>2
  <2>4. QED
    BY <2>1, <2>2, <2>3, JoiningOfDef
<1>3. (\A f : ~Above(b, f)) => FramesAbove(b) = {}
  BY <1>1
<1>4. QED
  BY <1>2, <1>3, JoiningOfDef

LEMMA JoiningKept ==
  ASSUME NEW b, \A f : Above(b, f)' <=> Above(b, f)
  PROVE  JoiningOf(b)' = JoiningOf(b)
<1>1. FramesAbove(b)' = FramesAbove(b)
  BY FramesAboveDef
<1>2. QED
  BY <1>1, JoiningOfDef

\* A body that a thread runs has nothing on top of it, and no other thread runs it.
LEMMA RunsBodyFacts ==
  ASSUME StackTyped, StackUnique, NEW t \in Threads, NEW b \in Bodies, RunsBody(t, b)
  PROVE  /\ \A f : ~Above(b, f)
         /\ \A u \in Threads : RunsBody(u, b) => u = t
<1>1. \A u \in Threads : /\ Len(stack[u]) \in Nat /\ DOMAIN stack[u] = 1 .. Len(stack[u])
                         /\ \A k \in 1 .. Len(stack[u]) : stack[u][k] \in Frame
  <2> SUFFICES ASSUME NEW u \in Threads
               PROVE  /\ Len(stack[u]) \in Nat /\ DOMAIN stack[u] = 1 .. Len(stack[u])
                      /\ \A k \in 1 .. Len(stack[u]) : stack[u][k] \in Frame
    OBVIOUS
  <2>1. stack[u] \in Seq(Frame)
    BY DEF StackTyped
  <2>2. QED
    BY <2>1, LenProperties, ElementOfSeq
<1>2. \A u \in Threads : stack[u] # <<>> =>
        Len(stack[u]) \in DOMAIN stack[u] /\ Top(u) = stack[u][Len(stack[u])] /\ Top(u) \in Frame
  BY <1>1, TopFacts DEF Top
<1>3. ASSUME NEW f, Above(b, f) PROVE FALSE
  <2>1. CASE b = Main /\ stack[Main] # <<>> /\ f = stack[Main][1]
    BY <1>2, <2>1, MainAssumption DEF RunsBody
  <2>2. CASE \E u \in Threads : \E k \in 1 .. Len(stack[u]) - 1 :
               stack[u][k] = b /\ stack[u][k + 1] = f
    <3>1. PICK u \in Threads : \E k \in 1 .. Len(stack[u]) - 1 : stack[u][k] = b
      BY <2>2
    <3>2. PICK k \in 1 .. Len(stack[u]) - 1 : stack[u][k] = b
      BY <3>1
    <3>3. k \in DOMAIN stack[u] /\ k # Len(stack[u]) /\ b \in Frame
      BY <1>1, <3>2
    <3>4. stack[t] # <<>> /\ Top(t) = b
      BY <3>3, MainAssumption DEF RunsBody
    <3>5. t = u /\ k = Len(stack[t])
      BY <1>2, <3>2, <3>3, <3>4 DEF StackUnique
    <3>6. QED
      BY <3>3, <3>5
  <2>3. QED
    BY <1>3, <2>1, <2>2 DEF Above
<1>4. ASSUME NEW u \in Threads, RunsBody(u, b) PROVE u = t
  <2>1. CASE b = Main
    BY <1>2, <1>4, <2>1, MainAssumption DEF RunsBody
  <2>2. CASE b # Main
    <3>1. stack[t] # <<>> /\ Top(t) = b /\ stack[u] # <<>> /\ Top(u) = b
      BY <1>4, <2>2 DEF RunsBody
    <3>2. QED
      BY <1>2, <3>1 DEF StackUnique
  <2>3. QED
    BY <2>1, <2>2
<1>5. QED
  BY <1>3, <1>4

\* A pushed frame lies on top of the body the thread was running, if any.
LEMMA PushAbove ==
  ASSUME StackTyped, NEW t \in Threads, NEW f \in Frame, Push(t, f)
  PROVE  \A b, h : Above(b, h)' <=> Above(b, h) \/ (RunsBody(t, b) /\ h = f)
<1>1. /\ Len(stack[t]) \in Nat
      /\ stack'[t] # <<>>
      /\ Len(stack'[t]) = Len(stack[t]) + 1
      /\ \A k \in 1 .. Len(stack[t]) : stack'[t][k] = stack[t][k]
      /\ stack'[t][Len(stack[t]) + 1] = f
      /\ \A u \in Threads \ {t} : stack'[u] = stack[u]
  BY PushFacts
<1>2. (stack[t] = <<>> <=> Len(stack[t]) = 0) /\ Main \in Threads
  BY EmptySeq, MainIsAThread DEF StackTyped
<1> SUFFICES ASSUME NEW b, NEW h
             PROVE  Above(b, h)' <=> Above(b, h) \/ (RunsBody(t, b) /\ h = f)
  OBVIOUS
<1> DEFINE On(u) == \E k \in 1 .. Len(stack[u]) - 1 : stack[u][k] = b /\ stack[u][k + 1] = h
           First == b = Main /\ stack[Main] # <<>> /\ h = stack[Main][1]
<1>3. \A u \in Threads \ {t} : On(u)' <=> On(u)
  BY <1>1
<1>4. On(t)' <=> On(t) \/ (stack[t] # <<>> /\ Top(t) = b /\ h = f)
  <2> DEFINE n == Len(stack[t])
  <2>1. On(t)' <=> \E k \in 1 .. n : stack'[t][k] = b /\ stack'[t][k + 1] = h
    BY <1>1, SMTT(30)
  <2>2. \A k \in 1 .. n - 1 : stack'[t][k] = stack[t][k] /\ stack'[t][k + 1] = stack[t][k + 1]
    BY <1>1
  <2>3. n # 0 => n \in 1 .. n /\ stack'[t][n] = Top(t) /\ stack'[t][n + 1] = f
    BY <1>1 DEF Top
  <2>4. \A k \in 1 .. n : k \in 1 .. n - 1 \/ (n # 0 /\ k = n)
    BY <1>1
  <2>5. 1 .. n - 1 \subseteq 1 .. n
    BY <1>1
  <2>6. On(t) <=> \E k \in 1 .. n - 1 : stack[t][k] = b /\ stack[t][k + 1] = h
    OBVIOUS
  <2> HIDE DEF On, n
  <2>7. QED
    BY <1>2, <2>1, <2>2, <2>3, <2>4, <2>5, <2>6 DEF n
<1>5. First' <=> First \/ (stack[t] = <<>> /\ t = Main /\ b = Main /\ h = f)
  <2>1. CASE t # Main
    BY <1>1, <1>2, <2>1
  <2>2. CASE t = Main /\ stack[t] = <<>>
    BY <1>1, <1>2, <2>2
  <2>3. CASE t = Main /\ stack[t] # <<>>
    <3>1. 1 \in 1 .. Len(stack[t])
      BY <1>1, <1>2, <2>3
    <3>2. QED
      BY <1>1, <2>3, <3>1
  <2>4. QED
    BY <2>1, <2>2, <2>3
<1>6. (Above(b, h) <=> (\E u \in Threads : On(u)) \/ First)
      /\ (Above(b, h)' <=> (\E u \in Threads : On(u)') \/ First')
  BY DEF Above
<1> HIDE DEF On, First
<1>7. QED
  BY <1>3, <1>4, <1>5, <1>6 DEF RunsBody

\* What is popped lay on top of the body that the thread goes on with, if any.
LEMMA PopAbove ==
  ASSUME StackTyped, NEW t \in Threads, stack[t] # <<>>, Pop(t)
  PROVE  \A b, h : Above(b, h) <=> Above(b, h)' \/ (RunsBody(t, b)' /\ h = Top(t))
<1>1. /\ Len(stack[t]) \in Nat \ {0}
      /\ Len(stack'[t]) = Len(stack[t]) - 1
      /\ stack'[t] = <<>> <=> Len(stack[t]) = 1
      /\ \A k \in 1 .. Len(stack[t]) - 1 : stack'[t][k] = stack[t][k]
      /\ \A u \in Threads \ {t} : stack'[u] = stack[u]
  BY PopFacts
<1>2. Main \in Threads
  BY MainIsAThread
<1> SUFFICES ASSUME NEW b, NEW h
             PROVE  Above(b, h) <=> Above(b, h)' \/ (RunsBody(t, b)' /\ h = Top(t))
  OBVIOUS
<1> DEFINE On(u) == \E k \in 1 .. Len(stack[u]) - 1 : stack[u][k] = b /\ stack[u][k + 1] = h
           First == b = Main /\ stack[Main] # <<>> /\ h = stack[Main][1]
<1>3. \A u \in Threads \ {t} : On(u)' <=> On(u)
  BY <1>1
<1>4. On(t) <=> On(t)' \/ (stack'[t] # <<>> /\ Top(t)' = b /\ h = Top(t))
  <2> DEFINE n == Len(stack[t]) - 1
  <2>1. On(t)' <=> \E k \in 1 .. n - 1 : stack'[t][k] = b /\ stack'[t][k + 1] = h
    BY <1>1
  <2>2. \A k \in 1 .. n - 1 : stack'[t][k] = stack[t][k] /\ stack'[t][k + 1] = stack[t][k + 1]
    BY <1>1
  <2>3. n # 0 => /\ n \in 1 .. n /\ stack[t][n] = Top(t)' /\ stack[t][n + 1] = Top(t)
    BY <1>1 DEF Top
  <2>4. \A k \in 1 .. n : k \in 1 .. n - 1 \/ (n # 0 /\ k = n)
    BY <1>1
  <2>5. 1 .. n - 1 \subseteq 1 .. n
    BY <1>1
  <2>6. On(t) <=> \E k \in 1 .. n : stack[t][k] = b /\ stack[t][k + 1] = h
    OBVIOUS
  <2>7. stack'[t] # <<>> <=> n # 0
    BY <1>1
  <2> HIDE DEF On, n
  <2>8. QED
    BY <2>1, <2>2, <2>3, <2>4, <2>5, <2>6, <2>7
<1>5. First <=> First' \/ (stack'[t] = <<>> /\ t = Main /\ b = Main /\ h = Top(t))
  <2>1. CASE t # Main
    BY <1>1, <1>2, <2>1
  <2>2. CASE t = Main /\ stack'[t] = <<>>
    BY <1>1, <1>2, <2>2 DEF Top
  <2>3. CASE t = Main /\ stack'[t] # <<>>
    <3>1. 1 \in 1 .. Len(stack[t]) - 1
      BY <1>1, <1>2, <2>3
    <3>2. QED
      BY <1>1, <2>3, <3>1
  <2>4. QED
    BY <2>1, <2>2, <2>3
<1>6. (Above(b, h) <=> (\E u \in Threads : On(u)) \/ First)
      /\ (Above(b, h)' <=> (\E u \in Threads : On(u)') \/ First')
  BY DEF Above
<1> HIDE DEF On, First
<1>7. QED
  BY <1>3, <1>4, <1>5, <1>6 DEF RunsBody

\* A body's exception is that of the thread that runs it.
LEMMA InflightFacts ==
  ASSUME StackTyped, StackUnique, NEW b \in Bodies
  PROVE  /\ \A t \in Threads : RunsBody(t, b) => InflightOf(b) = thrown[t]
         /\ (\A t \in Threads : RunsBody(t, b) => thrown[t] = NoExc) => InflightOf(b) = NoExc
<1>1. InflightOf(b) = IF UnwindingFrom(b) = {} THEN NoExc
                      ELSE thrown[CHOOSE t \in UnwindingFrom(b) : TRUE]
  BY DEF InflightOf, UnwindingFrom, RunsBody
<1>2. ASSUME NEW t \in Threads, RunsBody(t, b) PROVE InflightOf(b) = thrown[t]
  <2>1. \A u \in Threads : RunsBody(u, b) => u = t
    BY <1>2, RunsBodyFacts
  <2>2. CASE thrown[t] = NoExc
    <3>1. UnwindingFrom(b) = {}
      BY <2>1, <2>2 DEF UnwindingFrom
    <3>2. QED
      BY <1>1, <2>2, <3>1
  <2>3. CASE thrown[t] # NoExc
    <3>1. t \in UnwindingFrom(b) /\ \A u \in UnwindingFrom(b) : u = t
      BY <1>2, <2>1, <2>3 DEF UnwindingFrom
    <3>2. PICK u : u = CHOOSE v \in UnwindingFrom(b) : TRUE
      OBVIOUS
    <3>3. u = t
      BY <3>1, <3>2
    <3>4. QED
      BY <1>1, <3>1, <3>2, <3>3
  <2>4. QED
    BY <2>2, <2>3
<1>3. (\A t \in Threads : RunsBody(t, b) => thrown[t] = NoExc) => UnwindingFrom(b) = {}
  BY DEF UnwindingFrom
<1>4. QED
  BY <1>1, <1>2, <1>3

LEMMA InflightKept ==
  ASSUME NEW b,
         \A t \in Threads : /\ thrown'[t] # NoExc /\ RunsBody(t, b)' <=>
                                 thrown[t] # NoExc /\ RunsBody(t, b)
                            /\ thrown[t] # NoExc /\ RunsBody(t, b) => thrown'[t] = thrown[t]
  PROVE  InflightOf(b)' = InflightOf(b)
<1>1. /\ InflightOf(b) = IF UnwindingFrom(b) = {} THEN NoExc
                         ELSE thrown[CHOOSE t \in UnwindingFrom(b) : TRUE]
      /\ InflightOf(b)' = IF UnwindingFrom(b)' = {} THEN NoExc
                          ELSE thrown'[CHOOSE t \in UnwindingFrom(b)' : TRUE]
  BY DEF InflightOf, UnwindingFrom, RunsBody
<1>2. UnwindingFrom(b)' = UnwindingFrom(b)
  BY DEF UnwindingFrom
<1>3. CASE UnwindingFrom(b) = {}
  BY <1>1, <1>2, <1>3
<1>4. CASE UnwindingFrom(b) # {}
  <2>1. PICK u : u = CHOOSE v \in UnwindingFrom(b) : TRUE
    OBVIOUS
  <2>2. u \in UnwindingFrom(b)
    BY <1>4, <2>1
  <2>3. thrown'[u] = thrown[u]
    BY <2>2 DEF UnwindingFrom
  <2>4. QED
    BY <1>1, <1>2, <1>4, <2>1, <2>3
<1>5. QED
  BY <1>3, <1>4

-----------------------------------------------------------------------------
\* Only code that may be interrupted by an exception unwinds.
Unwinding == \A t \in Threads : thrown[t] # NoExc => pc[t] = "body"

\* An active call keeps an exception of one of its tasks once there is one.
ThrownBy(g) == {outcome[x] : x \in TasksOf(g)} \ {Unfinished, Ok}
Kept ==
  \A g \in Groups \ Inline : call[g] = "active" =>
    IF ThrownBy(g) = {} THEN eptr[g] = NoExc ELSE eptr[g] \in ThrownBy(g)

RInv == IInv /\ Unwinding /\ Kept

LEMMA InitRInv == Init => RInv
<1> SUFFICES ASSUME Init PROVE RInv
  OBVIOUS
<1>1. Unwinding /\ Kept
  BY DEF Init, Unwinding, Kept
<1>2. QED
  BY <1>1, InitIInv DEF RInv

LEMMA UnwindingStep ==
  ASSUME IInv, Unwinding, Next
  PROVE  Unwinding'
<1>1. pc \in [Threads -> PC] /\ thrown \in [Threads -> Exception \cup {NoExc}]
  BY DEF IInv, TypeOK
<1> SUFFICES ASSUME NEW u \in Threads, thrown'[u] # NoExc PROVE pc'[u] = "body"
  BY DEF Unwinding
<1> USE DEF Unwinding
<1>2. ASSUME NEW t \in Threads, AtLock(t), thrown' = thrown,
             \A v \in Threads \ {t} : pc'[v] = pc[v] \/ pc[v] = "asleep"
      PROVE  pc'[u] = "body"
  BY <1>2 DEF AtLock
<1>3. CASE \E t \in Threads, g \in Groups : ParallelFor(t, g) \/ ParallelForInline(t, g)
  BY <1>1, <1>3 DEF ParallelFor, ParallelForInline, InBody
<1>4. CASE \E t \in Threads : Wait(t) \/ LeaveRunner(t) \/ SpuriousWakeup(t)
  BY <1>1, <1>4 DEF Wait, LeaveRunner, SpuriousWakeup, AtLock
<1>5. ASSUME NEW t \in Threads, TakeTask(t) PROVE pc'[u] = "body"
  <2>1. PICK awake \in AfterNotify(n_sleeping', tasks') : pc' = [awake EXCEPT ![t] = "body"]
    BY <1>5 DEF TakeTask
  <2>2. Wakes(awake)
    BY <1>1, <2>1, AfterNotifyWakes
  <2>3. QED
    BY <1>2, <1>5, <2>1, <2>2 DEF TakeTask, Wakes
<1>6. CASE \E t \in Threads : Throw(t) \/ FinishInline(t) \/ Return(t)
  BY <1>1, <1>6 DEF Throw, FinishInline, Return, InTask
<1>7. ASSUME NEW t \in Threads, FinishTask(t) PROVE pc'[u] = "body"
  <2>1. PICK awake : /\ awake = pc \/ awake = NotifyAll(LastTaskWakes)
                     /\ pc' = [awake EXCEPT ![t] = "runner"]
    BY <1>7 DEF FinishTask
  <2>2. Wakes(awake)
    BY <1>1, <2>1, NotifyAllWakes DEF Wakes
  <2>3. u # t /\ thrown[u] # NoExc
    BY <1>1, <1>7 DEF FinishTask
  <2>4. QED
    BY <2>1, <2>2, <2>3 DEF Wakes
<1>8. CASE Shutdown
  <2>1. Wakes(NotifyAll(DestructorWakes))
    BY <1>1, NotifyAllWakes
  <2>2. QED
    BY <1>8, <2>1 DEF Shutdown, InBody, Wakes
<1>9. CASE Handle \/ JoinWorkers \/ Terminated
  BY <1>1, <1>9, MainIsAThread DEF Handle, JoinWorkers, Terminated, vars
<1>10. QED
  BY <1>3, <1>4, <1>5, <1>6, <1>7, <1>8, <1>9 DEF Next

\* The exceptions of other groups than that of the task that ends.
LEMMA ThrownByKept ==
  ASSUME NEW g \in Groups, \A x \in TasksOf(g) : outcome'[x] = outcome[x]
  PROVE  ThrownBy(g)' = ThrownBy(g)
  BY DEF ThrownBy, TasksOf

LEMMA KeptStep ==
  ASSUME IInv, Kept, Next
  PROVE  Kept'
<1>1. /\ call \in [Groups -> {"new", "active", "returned"}]
      /\ eptr \in [Groups -> Exception \cup {NoExc}]
  BY DEF IInv, TypeOK
<1> SUFFICES ASSUME NEW h \in Groups \ Inline, call'[h] = "active"
             PROVE  IF ThrownBy(h)' = {} THEN eptr'[h] = NoExc ELSE eptr'[h] \in ThrownBy(h)'
  BY DEF Kept
<1>2. ASSUME eptr'[h] = eptr[h], \A x \in TasksOf(h) : outcome'[x] = outcome[x], call[h] = "active"
      PROVE  IF ThrownBy(h)' = {} THEN eptr'[h] = NoExc ELSE eptr'[h] \in ThrownBy(h)'
  BY <1>2, ThrownByKept DEF Kept
<1>3. ASSUME NEW t \in Threads, NEW g \in Groups, ParallelFor(t, g)
      PROVE  IF ThrownBy(h)' = {} THEN eptr'[h] = NoExc ELSE eptr'[h] \in ThrownBy(h)'
  <2>1. /\ eptr' = [eptr EXCEPT ![g] = NoExc] /\ call' = [call EXCEPT ![g] = "active"]
        /\ outcome' = outcome /\ call[g] = "new"
    BY <1>3 DEF ParallelFor
  <2>2. CASE h = g
    <3>1. \A x \in TasksOf(h) : outcome'[x] = Unfinished
      BY <2>1, <2>2, TasksOfFacts DEF IInv, Untouched
    <3>2. ThrownBy(h)' = {}
      BY <3>1 DEF ThrownBy
    <3>3. QED
      BY <1>1, <2>1, <2>2, <3>2
  <2>3. CASE h # g
    BY <1>1, <1>2, <2>1, <2>3
  <2>4. QED
    BY <2>2, <2>3
<1>4. CASE \E t \in Threads, g \in Groups : ParallelForInline(t, g)
  BY <1>1, <1>2, <1>4 DEF ParallelForInline, shared
<1>5. CASE \E t \in Threads : Wait(t) \/ LeaveRunner(t) \/ TakeTask(t) \/ SpuriousWakeup(t) \/ Throw(t)
  BY <1>1, <1>2, <1>5 DEF Wait, LeaveRunner, TakeTask, SpuriousWakeup, Throw, shared
<1>6. ASSUME NEW t \in Threads, FinishTask(t)
      PROVE  IF ThrownBy(h)' = {} THEN eptr'[h] = NoExc ELSE eptr'[h] \in ThrownBy(h)'
  <2>1. PICK x : x = Top(t)
    OBVIOUS
  <2>2. PICK g : g = x[1]
    OBVIOUS
  <2>3. /\ InTask(t) /\ g \notin Inline
        /\ eptr' = [eptr EXCEPT ![g] = KeptException(g, thrown[t])]
        /\ outcome' = [outcome EXCEPT ![x] = Ending(t)]
        /\ call' = call
    BY <1>6, <2>1, <2>2 DEF FinishTask
  <2>4. x \in Task /\ g \in Groups /\ outcome[x] = Unfinished
        /\ Ending(t) \in Exception \cup {Ok} /\ Ending(t) # Unfinished
    BY <2>1, <2>2, <2>3, InTaskFacts
  <2>5. outcome'[x] = Ending(t) /\ \A y \in Task \ {x} : outcome'[y] = outcome[y]
    BY <2>3, <2>4, EndingTask
  <2>6. \A k \in Groups : TasksOf(k) = {y \in Task : y[1] = k}
    BY TasksOfFacts
  <2>7. CASE h # g
    BY <1>1, <1>2, <2>2, <2>3, <2>5, <2>6, <2>7
  <2>8. CASE h = g
    <3>1. eptr'[h] = KeptException(g, thrown[t]) /\ call[h] = "active"
      BY <1>1, <2>3, <2>8
    <3>2. IF ThrownBy(h) = {} THEN eptr[h] = NoExc ELSE eptr[h] \in ThrownBy(h)
      BY <3>1 DEF Kept
    <3>3. x \in TasksOf(h) /\ TasksOf(h) \subseteq Task
      BY <2>2, <2>4, <2>6, <2>8
    <3>4. ThrownBy(h)' = ThrownBy(h) \cup ({Ending(t)} \ {Ok})
      <4>1. /\ \A e : e \in ThrownBy(h)' <=>
                 e \notin {Unfinished, Ok} /\ \E y \in TasksOf(h) : outcome'[y] = e
            /\ \A e : e \in ThrownBy(h) <=>
                 e \notin {Unfinished, Ok} /\ \E y \in TasksOf(h) : outcome[y] = e
        BY DEF ThrownBy, TasksOf
      <4>2. \A e : e \in ThrownBy(h)' <=> e \in ThrownBy(h) \/ (e = Ending(t) /\ e # Ok)
        BY <2>4, <2>5, <3>3, <4>1
      <4>3. QED
        BY <4>2
    <3>5. NoExc \notin ThrownBy(h)
      <4>1. \A y \in Task : outcome[y] \in Exception \cup {Unfinished, Ok}
        BY DEF IInv, TypeOK
      <4>2. QED
        BY <3>3, <4>1, ConstantsAssumption DEF ThrownBy
    <3>6. CASE thrown[t] = NoExc
      BY <2>8, <3>1, <3>2, <3>4, <3>6 DEF KeptException, Ending
    <3>7. CASE thrown[t] # NoExc
      <4>1. Ending(t) = thrown[t] /\ Ending(t) # Ok
        <5>1. thrown[t] \in Exception \cup {NoExc}
          BY DEF IInv, TypeOK
        <5>2. QED
          BY <3>7, <5>1, ConstantsAssumption DEF Ending
      <4>2. QED
        BY <2>8, <3>1, <3>2, <3>4, <3>5, <3>7, <4>1 DEF KeptException
    <3>8. QED
      BY <3>6, <3>7
  <2>9. QED
    BY <2>7, <2>8
<1>7. ASSUME NEW t \in Threads, FinishInline(t)
      PROVE  IF ThrownBy(h)' = {} THEN eptr'[h] = NoExc ELSE eptr'[h] \in ThrownBy(h)'
  <2>1. PICK x : x = Top(t)
    OBVIOUS
  <2>2. /\ InTask(t) /\ x[1] \in Inline /\ eptr' = eptr
        /\ outcome' = [outcome EXCEPT ![x] = Ending(t)]
        /\ call' = [call EXCEPT ![x[1]] = "returned"]
    BY <1>7, <2>1 DEF FinishInline, shared
  <2>3. x \in Task /\ Ending(t) # Unfinished
    BY <2>1, <2>2, InTaskFacts
  <2>4. \A y \in Task \ {x} : outcome'[y] = outcome[y]
    BY <2>2, <2>3, EndingTask
  <2>5. TasksOf(h) = {y \in Task : y[1] = h}
    BY TasksOfFacts
  <2>6. QED
    BY <1>1, <1>2, <2>2, <2>4, <2>5
<1>8. CASE \E t \in Threads : Return(t)
  BY <1>1, <1>2, <1>8 DEF Return, shared
<1>9. CASE Handle \/ Shutdown \/ JoinWorkers \/ Terminated
  BY <1>2, <1>9 DEF Handle, Shutdown, JoinWorkers, Terminated, shared, vars
<1>10. QED
  BY <1>3, <1>4, <1>5, <1>6, <1>7, <1>8, <1>9 DEF Next

LEMMA NextRInv == RInv /\ [Next]_vars => RInv'
<1> SUFFICES ASSUME RInv, [Next]_vars PROVE RInv'
  OBVIOUS
<1>1. IInv'
  BY NextIInv DEF RInv
<1>2. CASE Next
  BY <1>1, <1>2, UnwindingStep, KeptStep DEF RInv
<1>3. CASE UNCHANGED vars
  BY <1>1, <1>3 DEF vars, RInv, Unwinding, Kept, ThrownBy
<1>4. QED
  BY <1>2, <1>3

-----------------------------------------------------------------------------
\* The names of ForkJoin, with the substitution.

LEMMA SameTasks ==
  /\ FJ!Task = Task /\ FJ!Body = Bodies
  /\ \A g : FJ!TasksOf(g) = TasksOf(g)
  BY DEF FJ!Task, FJ!TasksOf, FJ!Body, Task, TasksOf, Bodies

BodyOf(t) == IF stack[t] = <<>> THEN Main ELSE Top(t)

LEMMA BodyOfFacts ==
  ASSUME IInv, NEW t \in Threads, pc[t] = "body"
  PROVE  /\ BodyOf(t) \in Bodies /\ RunsBody(t, BodyOf(t)) /\ FJ!Active(BodyOf(t))
         /\ \A f : ~Above(BodyOf(t), f)
         /\ \A u \in Threads : RunsBody(u, BodyOf(t)) => u = t
         /\ \A b : RunsBody(t, b) => b = BodyOf(t)
         /\ InflightOf(BodyOf(t)) = thrown[t]
<1>1. StackTyped /\ StackUnique /\ BodyTop(t)
  BY DEF IInv, TypeOK, StackTyped, Tops, TopAt
<1>2. BodyOf(t) \in Bodies /\ RunsBody(t, BodyOf(t)) /\ \A b : RunsBody(t, b) => b = BodyOf(t)
  BY <1>1 DEF BodyOf, BodyTop, Bodies, RunsBody
<1>3. /\ \A f : ~Above(BodyOf(t), f)
      /\ \A u \in Threads : RunsBody(u, BodyOf(t)) => u = t
  BY <1>1, <1>2, RunsBodyFacts
<1>4. JoiningOf(BodyOf(t)) = NoGroup
  BY <1>1, <1>2, <1>3, JoiningFacts
<1>5. InflightOf(BodyOf(t)) = thrown[t]
  BY <1>1, <1>2, InflightFacts
<1>6. stack[t] # <<>> => /\ BodyOf(t) \in Task /\ Running(BodyOf(t))
                         /\ outcome[BodyOf(t)] = Unfinished
  BY <1>1, InTaskFacts DEF BodyOf, InTask
<1>7. FJ!Active(BodyOf(t))
  BY <1>2, <1>4, <1>6 DEF FJ!Active, BodyOf, Bodies
<1>8. QED
  BY <1>2, <1>3, <1>5, <1>7

\* Steps that change no stack, no outcome, no call and no exception are stutters.
LEMMA StutterStep ==
  ASSUME UNCHANGED <<stack, outcome, call, thrown>>
  PROVE  UNCHANGED FJ!vars
  BY DEF FJ!vars, Running, JoiningOf, InflightOf, Top
\* What lies on a body decides what it is joining, now and in the next state.
JoiningByAbove ==
  StackTyped /\ StackUnique => \A b \in Bodies :
    /\ \A f : Above(b, f) => JoiningOf(b) = f[1]
    /\ \A t \in Threads : RunsBody(t, b) => JoiningOf(b) = NoGroup

LEMMA JoiningNow == JoiningByAbove
  BY JoiningFacts, RunsBodyFacts DEF JoiningByAbove

LEMMA JoiningNext == JoiningByAbove'
  BY JoiningNow, PTL

\* The effect of a push and of a pop on the mapped variables.
LEMMA PushMaps ==
  ASSUME StackTyped, StackUnique, NEW t \in Threads, NEW f \in Frame, ~Running(f), Push(t, f),
         thrown' = thrown, thrown[t] = NoExc
  PROVE  /\ \A b \in Bodies : RunsBody(t, b) => JoiningOf(b)' = f[1]
         /\ \A b : ~RunsBody(t, b) => JoiningOf(b)' = JoiningOf(b)
         /\ \A b : InflightOf(b)' = InflightOf(b)
         /\ \A y : Running(y)' <=> Running(y) \/ y = f
<1>1. /\ StackTyped' /\ StackUnique' /\ \A u \in Threads \ {t} : stack'[u] = stack[u]
      /\ \A y : Running(y)' <=> Running(y) \/ y = f
  BY PushFacts, PushRunning
<1>2. \A b, h : Above(b, h)' <=> Above(b, h) \/ (RunsBody(t, b) /\ h = f)
  BY PushAbove
<1>3. ASSUME NEW b \in Bodies, RunsBody(t, b) PROVE JoiningOf(b)' = f[1]
  <2>1. Above(b, f)'
    BY <1>2, <1>3
  <2>2. QED
    BY <1>1, <2>1, JoiningNext DEF JoiningByAbove
<1>4. ASSUME NEW b, ~RunsBody(t, b) PROVE JoiningOf(b)' = JoiningOf(b)
  <2>1. \A h : Above(b, h)' <=> Above(b, h)
    BY <1>2, <1>4
  <2>2. QED
    BY <2>1, JoiningKept
<1>5. ASSUME NEW b PROVE InflightOf(b)' = InflightOf(b)
  <2>1. \A u \in Threads \ {t} : RunsBody(u, b)' <=> RunsBody(u, b)
    BY <1>1 DEF RunsBody, Top
  <2>2. QED
    BY <2>1, InflightKept
<1>6. QED
  BY <1>1, <1>3, <1>4, <1>5

LEMMA PopMaps ==
  ASSUME StackTyped, StackUnique, NEW t \in Threads, stack[t] # <<>>, Pop(t)
  PROVE  /\ \A b \in Bodies : RunsBody(t, b)' =>
              JoiningOf(b) = Top(t)[1] /\ JoiningOf(b)' = NoGroup
         /\ \A b : ~RunsBody(t, b)' => JoiningOf(b)' = JoiningOf(b)
         /\ \A y : Running(y)' <=> Running(y) /\ y # Top(t)
         /\ StackTyped' /\ StackUnique'
         /\ \A u \in Threads \ {t} : stack'[u] = stack[u]
<1>1. /\ StackTyped' /\ StackUnique' /\ \A u \in Threads \ {t} : stack'[u] = stack[u]
      /\ \A y : Running(y)' <=> Running(y) /\ y # Top(t)
  BY PopFacts, PopRunning
<1>2. \A b, h : Above(b, h) <=> Above(b, h)' \/ (RunsBody(t, b)' /\ h = Top(t))
  BY PopAbove
<1>3. ASSUME NEW b \in Bodies, RunsBody(t, b)'
      PROVE  JoiningOf(b) = Top(t)[1] /\ JoiningOf(b)' = NoGroup
  <2>1. Above(b, Top(t))
    BY <1>2, <1>3
  <2>2. JoiningOf(b) = Top(t)[1]
    BY <2>1, JoiningNow DEF JoiningByAbove
  <2>3. JoiningOf(b)' = NoGroup
    BY <1>1, <1>3, JoiningNext DEF JoiningByAbove
  <2>4. QED
    BY <2>2, <2>3
<1>4. ASSUME NEW b, ~RunsBody(t, b)' PROVE JoiningOf(b)' = JoiningOf(b)
  <2>1. \A h : Above(b, h)' <=> Above(b, h)
    BY <1>2, <1>4
  <2>2. QED
    BY <2>1, JoiningKept
<1>5. QED
  BY <1>1, <1>3, <1>4

\* A thread at the top of TaskRunner's loop runs no body.
RunnersRunNone ==
  StackTyped => \A t \in Threads : RunnerTop(t) => \A c \in Bodies : ~RunsBody(t, c)

LEMMA RunnerNow == RunnersRunNone
<1> USE DEF RunnersRunNone
<1> SUFFICES ASSUME StackTyped, NEW t \in Threads, RunnerTop(t), NEW c \in Bodies, RunsBody(t, c)
             PROVE  FALSE
  OBVIOUS
<1>1. CASE stack[t] = <<>>
  BY <1>1 DEF RunsBody, RunnerTop
<1>2. CASE stack[t] # <<>>
  BY <1>2, TopFacts, MainAssumption DEF RunsBody, RunnerTop, Bodies
<1>3. QED
  BY <1>1, <1>2

LEMMA RunnerNext == RunnersRunNone'
  BY RunnerNow, PTL

-----------------------------------------------------------------------------
\* A call is made by a body, and its frame, or the one task of an inline call,
\* is put on that body.
LEMMA ForkMaps ==
  ASSUME RInv, NEW t \in Threads, NEW g \in Groups, NEW f \in Frame,
         InBody(t), call[g] = "new", call' = [call EXCEPT ![g] = "active"],
         Push(t, f), ~Running(f), f[1] = g, thrown' = thrown, outcome' = outcome,
         \A x \in Task : x = f <=> g \in Inline /\ x \in TasksOf(g)
  PROVE  FJ!Fork(BodyOf(t), g)
<1>1. PICK b : b = BodyOf(t)
  OBVIOUS
<1>2. pc[t] = "body" /\ thrown[t] = NoExc
  BY DEF InBody
<1>3. /\ IInv /\ StackTyped /\ StackUnique
      /\ call \in [Groups -> {"new", "active", "returned"}]
  BY DEF RInv, IInv, TypeOK, StackTyped
<1>4. /\ b \in Bodies /\ RunsBody(t, b) /\ FJ!Active(b)
      /\ \A c : RunsBody(t, c) => c = b
      /\ InflightOf(b) = NoExc
  BY <1>1, <1>2, <1>3, BodyOfFacts
<1>5. /\ \A c \in Bodies : JoiningOf(c)' = IF c = b THEN g ELSE JoiningOf(c)
      /\ \A c \in Bodies : InflightOf(c)' = InflightOf(c)
      /\ \A x \in Task : Running(x)' <=> Running(x) \/ x = f
  BY <1>2, <1>3, <1>4, PushMaps
<1>6. \A h \in Groups : call'[h] = IF h = g THEN "active" ELSE call[h]
  BY <1>3
<1>7. /\ TasksOf(g) \subseteq Task
      /\ {x \in Task : Running(x)' \/ outcome'[x] # Unfinished}
           = {x \in Task : Running(x) \/ outcome[x] # Unfinished}
             \cup (IF g \in Inline THEN TasksOf(g) ELSE {})
  BY <1>5, TasksOfFacts
<1>8. {h \in Groups : call'[h] # "new"} = {h \in Groups : call[h] # "new"} \cup {g}
  BY <1>6
<1>9. [c \in Bodies |-> JoiningOf(c)'] = [[c \in Bodies |-> JoiningOf(c)] EXCEPT ![b] = g]
  BY <1>4, <1>5
<1>10. [c \in Bodies |-> InflightOf(c)'] = [c \in Bodies |-> InflightOf(c)]
  BY <1>5
<1>11. FJ!Fork(b, g)
  BY <1>4, <1>7, <1>8, <1>9, <1>10, SameTasks DEF FJ!Fork, Bodies
<1>12. QED
  BY <1>1, <1>11

LEMMA ParallelForMaps ==
  ASSUME RInv, NEW t \in Threads, NEW g \in Groups, ParallelFor(t, g)
  PROVE  FJ!Fork(BodyOf(t), g)
<1>1. /\ InBody(t) /\ call[g] = "new" /\ g \notin Inline
      /\ call' = [call EXCEPT ![g] = "active"] /\ Push(t, CallFrame(g))
      /\ thrown' = thrown /\ outcome' = outcome
  BY DEF ParallelFor
<1>2. CallFrame(g) \in Frame /\ CallFrame(g) \notin Task /\ CallFrame(g)[1] = g
  BY FrameFacts
<1>3. ~Running(CallFrame(g))
  BY <1>1 DEF RInv, IInv, Frames
<1>4. QED
  BY <1>1, <1>2, <1>3, ForkMaps

LEMMA ParallelForInlineMaps ==
  ASSUME RInv, NEW t \in Threads, NEW g \in Groups, ParallelForInline(t, g)
  PROVE  FJ!Fork(BodyOf(t), g)
<1>1. /\ InBody(t) /\ call[g] = "new" /\ g \in Inline
      /\ call' = [call EXCEPT ![g] = "active"] /\ Push(t, <<g, 1>>)
      /\ thrown' = thrown /\ outcome' = outcome
  BY DEF ParallelForInline
<1>2. PICK f : f = <<g, 1>>
  OBVIOUS
<1>3. /\ f \in Task /\ f \in Frame /\ f[1] = g
      /\ \A x \in Task : x = f <=> x \in TasksOf(g)
  <2>1. NTasks[g] = 1
    BY <1>1, ConstantsAssumption
  <2>2. \A x : x \in TasksOf(g) <=> x = f
    BY <1>2, <2>1 DEF TasksOf
  <2>3. f \in Task
    BY <2>2, TasksOfFacts
  <2>4. QED
    BY <1>2, <2>2, <2>3, FrameFacts
<1>4. ~Running(f)
  BY <1>1, <1>3 DEF RInv, IInv, Placement
<1>5. QED
  BY <1>1, <1>2, <1>3, <1>4, ForkMaps

\* A task is started by a thread that is not running a body: its frame is put
\* on that of a call, or on nothing.
LEMMA TakeTaskMaps ==
  ASSUME RInv, NEW t \in Threads, TakeTask(t)
  PROVE  \E x \in Task : FJ!Start(x)
<1>1. PICK x : x = NextTask
  OBVIOUS
<1>2. /\ AtLock(t) /\ tasks # <<>> /\ Push(t, x)
      /\ thrown' = thrown /\ call' = call /\ outcome' = outcome
  BY <1>1 DEF TakeTask
<1>3. /\ IInv /\ StackTyped /\ StackUnique /\ RunnerTop(t)
  BY <1>2 DEF RInv, IInv, TypeOK, StackTyped, Tops, TopAt, AtLock
<1>4. x \in Task /\ Queued(x)
  <2>1. tasks \in Seq(Task)
    BY <1>3 DEF IInv, TypeOK
  <2>2. Len(tasks) \in Nat \ {0} /\ DOMAIN tasks = 1 .. Len(tasks)
    BY <1>2, <2>1, LenProperties, EmptySeq
  <2>3. Len(tasks) \in DOMAIN tasks
    BY <2>2
  <2>4. QED
    BY <1>1, <2>1, <2>2, <2>3, ElementOfSeq DEF NextTask, Queued
<1>5. /\ ~Running(x) /\ outcome[x] = Unfinished /\ call[x[1]] = "active" /\ x[1] \in Groups
      /\ x \in Frame
  BY <1>3, <1>4, FrameFacts DEF IInv, Placement
<1>6. thrown[t] = NoExc
  BY <1>2 DEF RInv, Unwinding, AtLock
<1>7. \A c \in Bodies : ~RunsBody(t, c)
  BY <1>3, RunnerNow DEF RunnersRunNone
<1>8. /\ \A c \in Bodies : JoiningOf(c)' = JoiningOf(c) /\ InflightOf(c)' = InflightOf(c)
      /\ \A y \in Task : Running(y)' <=> Running(y) \/ y = x
  BY <1>2, <1>3, <1>5, <1>6, <1>7, PushMaps
<1>9. {y \in Task : Running(y)' \/ outcome'[y] # Unfinished}
        = {y \in Task : Running(y) \/ outcome[y] # Unfinished} \cup {x}
  BY <1>2, <1>4, <1>8
<1>10. /\ [c \in Bodies |-> JoiningOf(c)'] = [c \in Bodies |-> JoiningOf(c)]
       /\ [c \in Bodies |-> InflightOf(c)'] = [c \in Bodies |-> InflightOf(c)]
  BY <1>8
<1>11. FJ!Start(x)
  BY <1>2, <1>5, <1>9, <1>10 DEF FJ!Start, Bodies
<1>12. QED
  BY <1>4, <1>11
\* The thread that runs a body decides what it unwinds with.
InflightByThread ==
  StackTyped /\ StackUnique => \A b \in Bodies :
    /\ \A t \in Threads : RunsBody(t, b) => InflightOf(b) = thrown[t]
    /\ (\A t \in Threads : ~RunsBody(t, b)) => InflightOf(b) = NoExc

LEMMA InflightNow == InflightByThread
  BY InflightFacts DEF InflightByThread

LEMMA InflightNext == InflightByThread'
  BY InflightNow, PTL

\* What one thread does to its own stack and exception changes the exceptions
\* of the bodies it stops or starts running, and no other.
LEMMA OtherInflight ==
  ASSUME NEW t \in Threads, NEW b,
         \A u \in Threads \ {t} : stack'[u] = stack[u] /\ thrown'[u] = thrown[u],
         thrown[t] = NoExc \/ ~RunsBody(t, b), thrown'[t] = NoExc \/ ~RunsBody(t, b)'
  PROVE  InflightOf(b)' = InflightOf(b)
<1>1. \A u \in Threads \ {t} : RunsBody(u, b)' <=> RunsBody(u, b)
  BY DEF RunsBody, Top
<1>2. QED
  BY <1>1, InflightKept

LEMMA ThrowMaps ==
  ASSUME RInv, NEW t \in Threads, Throw(t)
  PROVE  \E x \in Task : FJ!Raise(x)
<1>1. PICK x : x = Top(t)
  OBVIOUS
<1>2. /\ InTask(t) /\ thrown[t] = NoExc /\ x \in Throwers
      /\ thrown' = [thrown EXCEPT ![t] = x]
      /\ stack' = stack /\ call' = call /\ outcome' = outcome
  BY <1>1 DEF Throw
<1>3. /\ IInv /\ StackTyped /\ StackUnique /\ StackTyped' /\ StackUnique'
      /\ thrown \in [Threads -> Exception \cup {NoExc}]
  BY <1>2 DEF RInv, IInv, TypeOK, StackTyped, StackUnique
<1>4. x \in Task /\ x = BodyOf(t)
  BY <1>1, <1>2, <1>3, InTaskFacts DEF BodyOf, InTask
<1>5. /\ x \in Bodies /\ RunsBody(t, x) /\ FJ!Active(x)
      /\ \A c : RunsBody(t, c) => c = x
      /\ InflightOf(x) = NoExc
  BY <1>2, <1>3, <1>4, BodyOfFacts DEF InTask
<1>6. /\ \A c, h : Above(c, h)' <=> Above(c, h)
      /\ \A c : \A u \in Threads : RunsBody(u, c)' <=> RunsBody(u, c)
      /\ \A y : Running(y)' <=> Running(y)
  BY <1>2 DEF Above, RunsBody, Top, Running
<1>7. \A c \in Bodies : JoiningOf(c)' = JoiningOf(c)
  BY <1>6, JoiningKept
<1>8. InflightOf(x)' = x
  BY <1>2, <1>3, <1>5, <1>6, InflightNext DEF InflightByThread
<1>9. \A c \in Bodies : c # x => InflightOf(c)' = InflightOf(c)
  BY <1>2, <1>3, <1>5, <1>6, OtherInflight
<1>10. [c \in Bodies |-> InflightOf(c)'] = [[c \in Bodies |-> InflightOf(c)] EXCEPT ![x] = x]
  BY <1>5, <1>8, <1>9
<1>11. [c \in Bodies |-> JoiningOf(c)'] = [c \in Bodies |-> JoiningOf(c)]
  BY <1>7
<1>12. {y \in Task : Running(y)' \/ outcome'[y] # Unfinished}
         = {y \in Task : Running(y) \/ outcome[y] # Unfinished}
  BY <1>2, <1>6
<1>13. FJ!Raise(x)
  BY <1>2, <1>5, <1>10, <1>11, <1>12 DEF FJ!Raise, Bodies
<1>14. QED
  BY <1>4, <1>13

\* A queued task lies on the frame of a call, or on nothing: its end changes no
\* body but its own.
LEMMA FinishTaskMaps ==
  ASSUME RInv, NEW t \in Threads, FinishTask(t)
  PROVE  \E x \in Task : FJ!Finish(x)
<1>1. PICK x : x = Top(t)
  OBVIOUS
<1>2. /\ InTask(t) /\ x[1] \notin Inline /\ stack[t] # <<>> /\ Pop(t)
      /\ thrown' = [thrown EXCEPT ![t] = NoExc]
      /\ outcome' = [outcome EXCEPT ![x] = Ending(t)]
      /\ call' = call
  BY <1>1 DEF FinishTask, InTask
<1>3. /\ IInv /\ StackTyped /\ StackUnique /\ Shape
      /\ thrown \in [Threads -> Exception \cup {NoExc}]
  BY DEF RInv, IInv, TypeOK, StackTyped
<1>4. x \in Task /\ x = BodyOf(t) /\ Running(x) /\ Ending(t) # Unfinished
  BY <1>1, <1>2, <1>3, InTaskFacts DEF BodyOf
<1>5. /\ x \in Bodies /\ RunsBody(t, x) /\ FJ!Active(x)
      /\ \A c : RunsBody(t, c) => c = x
      /\ InflightOf(x) = thrown[t]
  BY <1>2, <1>3, <1>4, BodyOfFacts DEF InTask
<1>6. /\ StackTyped' /\ StackUnique' /\ \A u \in Threads \ {t} : stack'[u] = stack[u]
      /\ \A c : ~RunsBody(t, c)' => JoiningOf(c)' = JoiningOf(c)
      /\ \A y : Running(y)' <=> Running(y) /\ y # x
  BY <1>1, <1>2, <1>3, PopMaps
<1>7. \A c \in Bodies : ~RunsBody(t, c)'
  <2>1. RunnerTop(t)'
    BY <1>1, <1>2, <1>3, <1>4, ShapePop DEF IsCallee
  <2>2. QED
    BY <1>6, <2>1, RunnerNext DEF RunnersRunNone
<1>8. \A c \in Bodies : JoiningOf(c)' = JoiningOf(c)
  BY <1>6, <1>7
<1>9. InflightOf(x)' = NoExc
  <2>1. \A u \in Threads : ~RunsBody(u, x)'
    <3>1. \A u \in Threads \ {t} : RunsBody(u, x)' <=> RunsBody(u, x)
      BY <1>6 DEF RunsBody, Top
    <3>2. \A u \in Threads : RunsBody(u, x) => u = t
      BY <1>3, <1>5, RunsBodyFacts
    <3>3. QED
      BY <1>5, <1>7, <3>1, <3>2
  <2>2. QED
    BY <1>5, <1>6, <2>1, InflightNext DEF InflightByThread
<1>10. \A c \in Bodies : c # x => InflightOf(c)' = InflightOf(c)
  BY <1>2, <1>3, <1>5, <1>6, OtherInflight
<1>11. [c \in Bodies |-> InflightOf(c)'] = [[c \in Bodies |-> InflightOf(c)] EXCEPT ![x] = NoExc]
  BY <1>5, <1>9, <1>10
<1>12. [c \in Bodies |-> JoiningOf(c)'] = [c \in Bodies |-> JoiningOf(c)]
  BY <1>8
<1>13. \A y \in Task \ {x} : outcome'[y] = outcome[y]
  BY <1>2, <1>3, <1>4, EndingTask
<1>14. outcome'[x] # Unfinished
  BY <1>2, <1>3, <1>4, EndingTask
<1>15. {y \in Task : Running(y)' \/ outcome'[y] # Unfinished}
         = {y \in Task : Running(y) \/ outcome[y] # Unfinished}
  BY <1>4, <1>6, <1>13, <1>14
<1>16. FJ!Ending(x) = Ending(t)
  BY <1>5 DEF FJ!Ending, Ending, Bodies
<1>17. FJ!Finish(x)
  BY <1>2, <1>5, <1>11, <1>12, <1>15, <1>16 DEF FJ!Finish, Bodies
<1>18. QED
  BY <1>4, <1>17
\* The body a thread goes on with after a pop, and what it was joining.
LEMMA Resumes ==
  ASSUME RInv, NEW t \in Threads, stack[t] # <<>>, Pop(t), IsCallee(Top(t))
  PROVE  \E b \in Bodies :
           /\ RunsBody(t, b)' /\ \A c : RunsBody(t, c)' => c = b
           /\ JoiningOf(b) = Top(t)[1] /\ JoiningOf(b)' = NoGroup
           /\ \A c : c # b => JoiningOf(c)' = JoiningOf(c)
           /\ b # Top(t)
<1>1. StackTyped /\ StackUnique /\ Shape
  BY DEF RInv, IInv, TypeOK, StackTyped
<1>2. /\ \A b \in Bodies : RunsBody(t, b)' => JoiningOf(b) = Top(t)[1] /\ JoiningOf(b)' = NoGroup
      /\ \A b : ~RunsBody(t, b)' => JoiningOf(b)' = JoiningOf(b)
      /\ \A y : Running(y)' <=> Running(y) /\ y # Top(t)
  BY <1>1, PopMaps
<1>3. BodyTop(t)'
  BY <1>1, ShapePop
<1>4. Top(t) \in Frame
  BY <1>1, TopFacts
<1>5. CASE stack'[t] = <<>>
  <2>1. Main \in Bodies /\ RunsBody(t, Main)' /\ \A c : RunsBody(t, c)' => c = Main
    BY <1>3, <1>5 DEF RunsBody, BodyTop, Bodies
  <2>2. Main # Top(t)
    BY <1>4, MainAssumption
  <2>3. QED
    BY <1>2, <2>1, <2>2
<1>6. CASE stack'[t] # <<>>
  <2>1. PICK b : b = Top(t)'
    OBVIOUS
  <2>2. b \in Bodies /\ RunsBody(t, b)' /\ \A c : RunsBody(t, c)' => c = b
    BY <1>3, <1>6, <2>1 DEF RunsBody, BodyTop, Bodies
  <2>3. b # Top(t)
    <3>1. /\ Len(stack[t]) \in Nat \ {0} /\ DOMAIN stack[t] = 1 .. Len(stack[t])
          /\ Len(stack'[t]) = Len(stack[t]) - 1
          /\ stack'[t] = <<>> <=> Len(stack[t]) = 1
          /\ \A k \in 1 .. Len(stack[t]) - 1 : stack'[t][k] = stack[t][k]
      BY <1>1, PopFacts
    <3>2. /\ Len(stack[t]) - 1 \in DOMAIN stack[t] /\ Len(stack[t]) \in DOMAIN stack[t]
          /\ b = stack[t][Len(stack[t]) - 1]
      BY <1>6, <2>1, <3>1 DEF Top
    <3>3. QED
      BY <1>1, <3>1, <3>2 DEF StackUnique, Top
  <2>4. QED
    BY <1>2, <2>2, <2>3
<1>7. QED
  BY <1>5, <1>6

LEMMA FinishInlineMaps ==
  ASSUME RInv, NEW t \in Threads, FinishInline(t)
  PROVE  \E b \in Bodies, x \in Task : FJ!FinishInline(b, x)
<1>1. PICK x : x = Top(t)
  OBVIOUS
<1>2. /\ InTask(t) /\ x[1] \in Inline /\ stack[t] # <<>> /\ Pop(t)
      /\ outcome' = [outcome EXCEPT ![x] = Ending(t)]
      /\ call' = [call EXCEPT ![x[1]] = "returned"]
      /\ thrown' = thrown
  BY <1>1 DEF FinishInline, InTask
<1>3. /\ IInv /\ StackTyped /\ StackUnique
      /\ call \in [Groups -> {"new", "active", "returned"}]
  BY DEF RInv, IInv, TypeOK, StackTyped
<1>4. /\ x \in Task /\ x = BodyOf(t) /\ Running(x) /\ Ending(t) # Unfinished
      /\ x[1] \in Groups /\ call[x[1]] = "active"
  BY <1>1, <1>2, <1>3, InTaskFacts DEF BodyOf
<1>5. /\ x \in Bodies /\ RunsBody(t, x) /\ FJ!Active(x)
      /\ \A c : RunsBody(t, c) => c = x
      /\ InflightOf(x) = thrown[t]
  BY <1>2, <1>3, <1>4, BodyOfFacts DEF InTask
<1>6. PICK b \in Bodies :
        /\ RunsBody(t, b)' /\ \A c : RunsBody(t, c)' => c = b
        /\ JoiningOf(b) = x[1] /\ JoiningOf(b)' = NoGroup
        /\ \A c : c # b => JoiningOf(c)' = JoiningOf(c)
        /\ b # x
  BY <1>1, <1>2, Resumes DEF IsCallee
<1>7. /\ StackTyped' /\ StackUnique' /\ \A u \in Threads \ {t} : stack'[u] = stack[u]
      /\ \A y : Running(y)' <=> Running(y) /\ y # x
  BY <1>1, <1>2, <1>3, PopMaps
<1>8. InflightOf(b)' = thrown[t]
  BY <1>2, <1>6, <1>7, InflightNext DEF InflightByThread
<1>9. InflightOf(x)' = NoExc
  <2>1. \A u \in Threads : ~RunsBody(u, x)'
    <3>1. \A u \in Threads \ {t} : RunsBody(u, x)' <=> RunsBody(u, x)
      BY <1>7 DEF RunsBody, Top
    <3>2. \A u \in Threads : RunsBody(u, x) => u = t
      BY <1>3, <1>5, RunsBodyFacts
    <3>3. QED
      BY <1>6, <3>1, <3>2
  <2>2. QED
    BY <1>5, <1>7, <2>1, InflightNext DEF InflightByThread
<1>10. \A c \in Bodies : c # x /\ c # b => InflightOf(c)' = InflightOf(c)
  BY <1>2, <1>5, <1>6, <1>7, OtherInflight
<1>11. [c \in Bodies |-> InflightOf(c)']
         = [[c \in Bodies |-> InflightOf(c)] EXCEPT ![x] = NoExc, ![b] = InflightOf(x)]
  BY <1>5, <1>6, <1>8, <1>9, <1>10
<1>12. [c \in Bodies |-> JoiningOf(c)'] = [[c \in Bodies |-> JoiningOf(c)] EXCEPT ![b] = NoGroup]
  BY <1>6
<1>13. outcome'[x] # Unfinished /\ \A y \in Task \ {x} : outcome'[y] = outcome[y]
  BY <1>2, <1>3, <1>4, EndingTask
<1>14. {y \in Task : Running(y)' \/ outcome'[y] # Unfinished}
         = {y \in Task : Running(y) \/ outcome[y] # Unfinished}
  BY <1>4, <1>7, <1>13
<1>15. {h \in Groups : call'[h] # "new"} = {h \in Groups : call[h] # "new"}
  BY <1>2, <1>3, <1>4
<1>16. FJ!Ending(x) = Ending(t)
  BY <1>5 DEF FJ!Ending, Ending, Bodies
<1>17. FJ!FinishInline(b, x)
  BY <1>2, <1>5, <1>6, <1>11, <1>12, <1>14, <1>15, <1>16 DEF FJ!FinishInline, Bodies
<1>18. QED
  BY <1>4, <1>17

\* A call whose counter is 0 has no unfinished task, and the exception pointer it
\* reads without the lock holds one of theirs if there is one.
LEMMA ReturnMaps ==
  ASSUME RInv, NEW t \in Threads, Return(t)
  PROVE  \E b \in Bodies, g \in Groups : FJ!Join(b, g)
<1>1. PICK f : f = Top(t)
  OBVIOUS
<1>2. PICK g : g = f[1]
  OBVIOUS
<1>3. /\ pc[t] = "returned" /\ Pop(t)
      /\ thrown' = [thrown EXCEPT ![t] = eptr[g]]
      /\ call' = [call EXCEPT ![g] = "returned"]
      /\ outcome' = outcome
  BY <1>1, <1>2 DEF Return
<1>4. /\ IInv /\ StackTyped /\ StackUnique
      /\ stack[t] # <<>> /\ f \notin Task /\ siblings_counter[g] = 0
      /\ call \in [Groups -> {"new", "active", "returned"}]
      /\ thrown \in [Threads -> Exception \cup {NoExc}]
  BY <1>1, <1>2, <1>3 DEF RInv, IInv, TypeOK, StackTyped, Tops, TopAt
<1>5. g \in Groups /\ f = CallFrame(g) /\ Running(f)
  BY <1>1, <1>2, <1>4, TopFacts, FrameFacts
<1>6. call[g] = "active" /\ g \notin Inline
  BY <1>4, <1>5 DEF IInv, Frames
<1>7. UnfinishedTasks(g) = {}
  <2>1. Cardinality(UnfinishedTasks(g)) = 0
    BY <1>4, <1>5, <1>6 DEF IInv, SiblingsCountUnfinished
  <2>2. QED
    BY <1>5, <2>1, UnfinishedFinite, FS_EmptySet
<1>8. PICK b \in Bodies :
        /\ RunsBody(t, b)' /\ \A c : RunsBody(t, c)' => c = b
        /\ JoiningOf(b) = g /\ JoiningOf(b)' = NoGroup
        /\ \A c : c # b => JoiningOf(c)' = JoiningOf(c)
  BY <1>1, <1>2, <1>3, <1>4, Resumes DEF IsCallee
<1>9. /\ StackTyped' /\ StackUnique' /\ \A u \in Threads \ {t} : stack'[u] = stack[u]
      /\ \A y : Running(y)' <=> Running(y) /\ y # f
  BY <1>1, <1>3, <1>4, PopMaps
<1>10. thrown[t] = NoExc
  BY <1>3 DEF RInv, Unwinding
<1>11. InflightOf(b)' = eptr[g]
  BY <1>3, <1>4, <1>8, <1>9, InflightNext DEF InflightByThread
<1>12. \A c \in Bodies : c # b => InflightOf(c)' = InflightOf(c)
  BY <1>3, <1>4, <1>8, <1>9, <1>10, OtherInflight
<1>13. [c \in Bodies |-> InflightOf(c)'] = [[c \in Bodies |-> InflightOf(c)] EXCEPT ![b] = eptr[g]]
  BY <1>11, <1>12
<1>14. [c \in Bodies |-> JoiningOf(c)'] = [[c \in Bodies |-> JoiningOf(c)] EXCEPT ![b] = NoGroup]
  BY <1>8
<1>15. {y \in Task : Running(y)' \/ outcome'[y] # Unfinished}
         = {y \in Task : Running(y) \/ outcome[y] # Unfinished}
  BY <1>3, <1>4, <1>9
<1>16. {h \in Groups : call'[h] # "new"} = {h \in Groups : call[h] # "new"}
  BY <1>3, <1>4, <1>6
<1>17. FJ!Thrown(g) = ThrownBy(g)
  BY SameTasks DEF FJ!Thrown, ThrownBy
<1>18. IF ThrownBy(g) = {} THEN eptr[g] = NoExc ELSE eptr[g] \in ThrownBy(g)
  BY <1>5, <1>6 DEF RInv, Kept
<1>19. \A x \in TasksOf(g) : outcome[x] # Unfinished
  BY <1>7 DEF UnfinishedTasks
<1>20. FJ!Join(b, g)
  BY <1>3, <1>8, <1>13, <1>14, <1>15, <1>16, <1>17, <1>18, <1>19, SameTasks DEF FJ!Join, Bodies
<1>21. QED
  BY <1>5, <1>20

LEMMA HandleMaps ==
  ASSUME RInv, Handle
  PROVE  FJ!Handle
<1>1. /\ stack[Main] = <<>> /\ thrown[Main] # NoExc
      /\ thrown' = [thrown EXCEPT ![Main] = NoExc]
      /\ stack' = stack /\ call' = call /\ outcome' = outcome
  BY DEF Handle
<1>2. /\ IInv /\ StackTyped /\ StackUnique /\ StackTyped' /\ StackUnique'
      /\ thrown \in [Threads -> Exception \cup {NoExc}]
  BY <1>1 DEF RInv, IInv, TypeOK, StackTyped, StackUnique
<1>3. Main \in Threads /\ Main \in Bodies
  BY MainIsAThread DEF Bodies
<1>4. RunsBody(Main, Main) /\ \A c : RunsBody(Main, c) => c = Main
  BY <1>1 DEF RunsBody
<1>5. /\ \A c, h : Above(c, h)' <=> Above(c, h)
      /\ \A c : \A u \in Threads : RunsBody(u, c)' <=> RunsBody(u, c)
      /\ \A y : Running(y)' <=> Running(y)
  BY <1>1 DEF Above, RunsBody, Top, Running
<1>6. \A c \in Bodies : JoiningOf(c)' = JoiningOf(c)
  BY <1>5, JoiningKept
<1>7. InflightOf(Main) = thrown[Main]
  BY <1>2, <1>3, <1>4, InflightNow DEF InflightByThread
<1>8. InflightOf(Main)' = NoExc
  BY <1>1, <1>2, <1>3, <1>4, <1>5, InflightNext DEF InflightByThread
<1>9. \A c \in Bodies : c # Main => InflightOf(c)' = InflightOf(c)
  BY <1>1, <1>2, <1>3, <1>4, <1>5, OtherInflight
<1>10. [c \in Bodies |-> InflightOf(c)'] = [[c \in Bodies |-> InflightOf(c)] EXCEPT ![Main] = NoExc]
  BY <1>8, <1>9
<1>11. [c \in Bodies |-> JoiningOf(c)'] = [c \in Bodies |-> JoiningOf(c)]
  BY <1>6
<1>12. {y \in Task : Running(y)' \/ outcome'[y] # Unfinished}
         = {y \in Task : Running(y) \/ outcome[y] # Unfinished}
  BY <1>1, <1>5
<1>13. QED
  BY <1>1, <1>3, <1>7, <1>10, <1>11, <1>12 DEF FJ!Handle, Bodies

-----------------------------------------------------------------------------
LEMMA InitMaps == Init => FJ!Init
<1> SUFFICES ASSUME Init PROVE FJ!Init
  OBVIOUS
<1>1. \A t \in Threads : stack[t] = <<>> /\ Len(stack[t]) = 0 /\ DOMAIN stack[t] = {}
                         /\ thrown[t] = NoExc
  BY EmptySeq DEF Init
<1>2. StackTyped /\ StackUnique
  BY InitIInv DEF IInv, TypeOK, StackTyped
<1>3. \A x : ~Running(x)
  BY <1>1 DEF Running
<1>4. ASSUME NEW b, NEW f PROVE ~Above(b, f)
  BY <1>1, MainIsAThread DEF Above
<1>5. \A b \in Bodies : JoiningOf(b) = NoGroup
  BY <1>2, <1>4, JoiningFacts
<1>6. \A b \in Bodies : InflightOf(b) = NoExc
  BY <1>1, <1>2, InflightFacts
<1>7. {x \in Task : Running(x) \/ outcome[x] # Unfinished} = {}
  BY <1>3 DEF Init
<1>8. {g \in Groups : call[g] # "new"} = {}
  BY DEF Init
<1>9. outcome = [x \in Task |-> Unfinished]
  BY DEF Init
<1>10. QED
  BY <1>5, <1>6, <1>7, <1>8, <1>9, SameTasks DEF FJ!Init, Bodies

\* A step of the pool is a step of ForkJoin or leaves its variables alone.
LEMMA StepMaps == RInv /\ [Next]_vars => [FJ!Next]_FJ!vars
<1> SUFFICES ASSUME RInv, [Next]_vars PROVE FJ!Next \/ UNCHANGED FJ!vars
  OBVIOUS
<1>1. ASSUME NEW t \in Threads, NEW g \in Groups, ParallelFor(t, g) \/ ParallelForInline(t, g)
      PROVE  FJ!Next
  <2>1. FJ!Fork(BodyOf(t), g)
    BY <1>1, ParallelForMaps, ParallelForInlineMaps
  <2>2. BodyOf(t) \in Bodies
    BY <1>1, BodyOfFacts DEF ParallelFor, ParallelForInline, InBody, RInv
  <2>3. QED
    BY <2>1, <2>2, SameTasks DEF FJ!Next
<1>2. ASSUME NEW t \in Threads, TakeTask(t) \/ Throw(t) \/ FinishTask(t)
      PROVE  FJ!Next
  BY <1>2, TakeTaskMaps, ThrowMaps, FinishTaskMaps, SameTasks DEF FJ!Next
<1>3. ASSUME NEW t \in Threads, FinishInline(t) \/ Return(t)
      PROVE  FJ!Next
  BY <1>3, FinishInlineMaps, ReturnMaps, SameTasks DEF FJ!Next
<1>4. CASE Handle
  BY <1>4, HandleMaps DEF FJ!Next
<1>5. CASE \/ \E t \in Threads : Wait(t) \/ LeaveRunner(t) \/ SpuriousWakeup(t)
           \/ Shutdown \/ JoinWorkers \/ Terminated \/ UNCHANGED vars
  <2>1. UNCHANGED <<stack, outcome, call, thrown>>
    BY <1>5 DEF Wait, LeaveRunner, SpuriousWakeup, Shutdown, JoinWorkers, Terminated, vars
  <2>2. QED
    BY <2>1, StutterStep
<1>6. QED
  BY <1>1, <1>2, <1>3, <1>4, <1>5 DEF Next

\* Every behaviour of the pool is one of ForkJoin, whatever the number of threads
\* and the nesting of calls: ParallelFor (task_manager.cc:120) returns only when
\* all its tasks have finished, though other threads run them and its own thread
\* runs those of others meanwhile, and it rethrows exactly if one of them threw,
\* with an exception that one of them threw.
THEOREM RefinementTheorem == Spec => ImplementsForkJoin
<1>1. Init => RInv
  BY InitRInv
<1>2. RInv /\ [Next]_vars => RInv'
  BY NextRInv
<1>3. Init => FJ!Init
  BY InitMaps
<1>4. RInv /\ [Next]_vars => [FJ!Next]_FJ!vars
  BY StepMaps
<1>5. QED
  BY <1>1, <1>2, <1>3, <1>4, PTL DEF Spec, ImplementsForkJoin, FJ!Spec

-----------------------------------------------------------------------------
(***************************************************************************)
(* The split of a range (TaskSplit): for every word size, thread count and *)
(* ordered range, the chunks func is called on are disjoint, within the    *)
(* limits, and cover the range.                                            *)
(***************************************************************************)

\* The end of a task or chunk is past its start, within the bound and at most
\* chunk_size away, even when start + chunk_size wraps around.
LEMMA GetTaskEndIdxCorrect ==
  ASSUME NEW i \in Word, NEW c \in Word \ {0}, NEW bound \in Word, i < bound
  PROVE  /\ GetTaskEndIdx(i, c, bound) \in Word
         /\ i < GetTaskEndIdx(i, c, bound)
         /\ GetTaskEndIdx(i, c, bound) <= bound
         /\ GetTaskEndIdx(i, c, bound) - i <= c
  BY WordAssumption DEF GetTaskEndIdx, Plus, Word

LEMMA QuotientBound ==
  ASSUME NEW x \in Nat, NEW y \in Nat \ {0}
  PROVE  x \div y \in Nat /\ x \div y <= x
  OBVIOUS

\* split_size is a word, and never 0: every iteration of the split advances.
LEMMA SplitSizeCorrect ==
  ASSUME SplitTypeOK, min_work_chunk # 0
  PROVE  SplitSize \in Word \ {0}
<1> DEFINE n == kTaskRedudencyFactor * NumThreads
           range == Minus(end_idx, start_idx)
           sum == Minus(Plus(range, n), 1)
<1>1. range \in Word /\ n \in Word \ {0}
  BY WordAssumption DEF SplitTypeOK, Word, Minus, kTaskRedudencyFactor
<1> HIDE DEF range, n
<1>2. sum \in Word
  BY <1>1, WordAssumption DEF Word, Plus, Minus
<1> HIDE DEF sum
<1>3. sum \div n \in Word
  BY <1>1, <1>2, QuotientBound, WordAssumption DEF Word
<1>4. DivCeil(Minus(end_idx, start_idx), kTaskRedudencyFactor * NumThreads)
        = sum \div n
  BY DEF DivCeil, range, sum, n
<1>5. QED
  BY <1>3, <1>4 DEF SplitSize, SplitTypeOK, Word

-----------------------------------------------------------------------------
Disjoint(r, s) == r[2] <= s[1] \/ s[2] <= r[1]

ArgsOK ==
  /\ start_idx <= end_idx
  /\ max_chunk_size_for_lambda # 0 /\ min_work_chunk # 0

\* Where the loops are: what is queued lies below task_idx, and what was run
\* lies in the part that is queued.
Bounds ==
  /\ start_idx <= task_idx /\ task_idx <= end_idx
  /\ \A p \in open_tasks : start_idx <= p[1] /\ p[1] <= p[2] /\ p[2] <= task_idx
  /\ \A r \in calls : /\ start_idx <= r[1] /\ r[1] < r[2] /\ r[2] <= end_idx
                      /\ r[2] - r[1] <= max_chunk_size_for_lambda
                      /\ IsInline \/ r[2] <= task_idx
  /\ IsInline => open_tasks = {} /\ calls \subseteq {<<start_idx, end_idx>>}

\* What tasks still hold is disjoint from each other and from what was run.
Separate ==
  /\ \A p, q \in open_tasks : p # q => Disjoint(p, q)
  /\ \A r \in calls, p \in open_tasks : Disjoint(r, p)
  /\ \A r, s \in calls : r # s => Disjoint(r, s)

Held(k) == \E r \in calls \cup open_tasks : r[1] <= k /\ k < r[2]

\* Everything below the split loop's cursor is run or held by a task.
Covered ==
  ~IsInline /\ ~failed =>
    \A k \in Word : start_idx <= k /\ k < task_idx => Held(k)

SplitInv == SplitTypeOK /\ ArgsOK /\ Bounds /\ Separate /\ Covered

LEMMA SplitInitInv == SplitInit => SplitInv
<1> SUFFICES ASSUME SplitInit PROVE SplitInv
  OBVIOUS
<1>1. SplitTypeOK /\ ArgsOK
  BY DEF SplitInit, SplitTypeOK, ArgsOK, Word
<1>2. Bounds /\ Separate
  BY DEF SplitInit, Bounds, Separate, Word
<1>3. Covered
  BY DEF SplitInit, Covered, Word
<1>4. QED
  BY <1>1, <1>2, <1>3 DEF SplitInv

LEMMA RunInlineStep == SplitInv /\ RunInline => SplitInv'
<1> SUFFICES ASSUME SplitInv, RunInline PROVE SplitInv'
  OBVIOUS
<1> USE DEF SplitInv, RunInline, args
<1>1. IsInline' /\ end_idx = start_idx + 1
  BY WordAssumption DEF IsInline, Plus, SplitTypeOK, ArgsOK, Word
<1>2. SplitTypeOK' /\ ArgsOK'
  BY DEF SplitTypeOK, ArgsOK
<1>3. Bounds'
  BY <1>1 DEF Bounds, SplitTypeOK, ArgsOK, Word
<1>4. Separate'
  BY DEF Separate, Bounds
<1>5. Covered'
  BY <1>1 DEF Covered
<1>6. QED
  BY <1>2, <1>3, <1>4, <1>5

LEMMA QueueTaskStep == SplitInv /\ QueueTask => SplitInv'
<1> SUFFICES ASSUME SplitInv, QueueTask PROVE SplitInv'
  OBVIOUS
<1> USE DEF SplitInv
<1> DEFINE e == GetTaskEndIdx(task_idx, SplitSize, end_idx)
<1>1. /\ e \in Word /\ task_idx < e /\ e <= end_idx
      /\ task_idx \in Word /\ end_idx \in Word /\ start_idx \in Word
  BY SplitSizeCorrect, GetTaskEndIdxCorrect DEF QueueTask, MoreToQueue, SplitTypeOK, ArgsOK
<1>2. /\ open_tasks' = open_tasks \cup {<<task_idx, e>>} /\ task_idx' = e
      /\ UNCHANGED <<args, calls, failed>> /\ ~IsInline
  BY DEF QueueTask
<1> HIDE DEF e
<1>3. SplitTypeOK' /\ ArgsOK' /\ ~IsInline'
  BY <1>1, <1>2 DEF SplitTypeOK, ArgsOK, IsInline, args
<1>4. Bounds'
  <2>1. start_idx' <= task_idx' /\ task_idx' <= end_idx'
    BY <1>1, <1>2 DEF Bounds, args, Word
  <2>2. \A p \in open_tasks' : start_idx' <= p[1] /\ p[1] <= p[2] /\ p[2] <= task_idx'
    BY <1>1, <1>2 DEF Bounds, args, Word, SplitTypeOK
  <2>3. \A r \in calls' : /\ start_idx' <= r[1] /\ r[1] < r[2] /\ r[2] <= end_idx'
                          /\ r[2] - r[1] <= max_chunk_size_for_lambda'
                          /\ r[2] <= task_idx'
    BY <1>1, <1>2 DEF Bounds, args, Word, SplitTypeOK
  <2>4. QED
    BY <2>1, <2>2, <2>3, <1>3 DEF Bounds
<1>5. Separate'
  <2>1. \A p \in open_tasks : Disjoint(p, <<task_idx, e>>) /\ Disjoint(<<task_idx, e>>, p)
    BY <1>1 DEF Bounds, Disjoint, SplitTypeOK, Word
  <2>2. \A r \in calls : Disjoint(r, <<task_idx, e>>)
    BY <1>1, <1>2 DEF Bounds, Disjoint, SplitTypeOK, Word
  <2>3. QED
    BY <1>2, <2>1, <2>2 DEF Separate
<1>6. Covered'
  <2> SUFFICES ASSUME ~failed, NEW k \in Word, start_idx <= k, k < e
               PROVE  Held(k)'
    BY <1>1, <1>2, <1>3 DEF Covered, args
  <2>1. CASE k < task_idx
    BY <2>1, <1>2 DEF Covered, Held
  <2>2. CASE task_idx <= k
    <3>1. <<task_idx, e>> \in calls' \cup open_tasks'
      BY <1>2
    <3>2. <<task_idx, e>>[1] <= k /\ k < <<task_idx, e>>[2]
      BY <2>2
    <3>3. QED
      BY <3>1, <3>2 DEF Held
  <2>3. QED
    BY <2>1, <2>2, <1>1 DEF Word
<1>7. QED
  BY <1>3, <1>4, <1>5, <1>6

LEMMA RunChunkStep ==
  ASSUME NEW task \in open_tasks, SplitInv, RunChunk(task)
  PROVE  SplitInv'
<1> USE DEF SplitInv
<1> DEFINE i == task[1]
           hi == task[2]
           e == GetTaskEndIdx(i, max_chunk_size_for_lambda, hi)
<1>1. /\ i \in Word /\ hi \in Word /\ i < hi /\ task = <<i, hi>>
      /\ start_idx <= i /\ hi <= task_idx /\ ~IsInline
      /\ {start_idx, end_idx, task_idx, max_chunk_size_for_lambda} \subseteq Word
  BY DEF RunChunk, SplitTypeOK, Bounds
<1>2. /\ e \in Word /\ i < e /\ e <= hi /\ e - i <= max_chunk_size_for_lambda
  BY <1>1, GetTaskEndIdxCorrect DEF SplitTypeOK, ArgsOK
<1>3. /\ UNCHANGED <<args, task_idx>>
      /\ calls' = calls \cup {<<i, e>>}
      /\ \/ open_tasks' = (open_tasks \ {task}) \cup {<<e, hi>>} /\ failed' = failed
         \/ open_tasks' = open_tasks \ {task} /\ failed' = TRUE
  BY DEF RunChunk
<1> HIDE DEF i, hi, e
<1>4. SplitTypeOK' /\ ArgsOK' /\ ~IsInline'
  <2>1. ArgsOK' /\ ~IsInline'
    BY <1>1, <1>3 DEF ArgsOK, IsInline, args
  <2>2. open_tasks' \subseteq Word \X Word /\ calls' \subseteq Word \X Word
    BY <1>1, <1>2, <1>3 DEF SplitTypeOK
  <2>3. failed' \in BOOLEAN
    BY <1>3 DEF SplitTypeOK
  <2>4. QED
    BY <2>1, <2>2, <2>3, <1>3 DEF SplitTypeOK, args
<1>5. Bounds'
  <2>1. \A p \in open_tasks' : start_idx' <= p[1] /\ p[1] <= p[2] /\ p[2] <= task_idx'
    BY <1>1, <1>2, <1>3 DEF Bounds, args, Word
  <2>2. \A r \in calls' : /\ start_idx' <= r[1] /\ r[1] < r[2] /\ r[2] <= end_idx'
                          /\ r[2] - r[1] <= max_chunk_size_for_lambda'
                          /\ r[2] <= task_idx'
    <3>1. /\ start_idx <= i /\ i < e /\ e <= end_idx
          /\ e - i <= max_chunk_size_for_lambda /\ e <= task_idx
      BY <1>1, <1>2 DEF Bounds, Word
    <3>2. QED
      BY <3>1, <1>1, <1>3 DEF Bounds, args
  <2>3. QED
    BY <2>1, <2>2, <1>3, <1>4 DEF Bounds, args
<1>6. Separate'
  <2>1. \A p \in open_tasks \ {task} :
          /\ Disjoint(p, <<e, hi>>) /\ Disjoint(<<e, hi>>, p)
          /\ Disjoint(<<i, e>>, p)
    <3> SUFFICES ASSUME NEW p \in open_tasks, p # task
                 PROVE  /\ Disjoint(p, <<e, hi>>) /\ Disjoint(<<e, hi>>, p)
                        /\ Disjoint(<<i, e>>, p)
      OBVIOUS
    <3>1. Disjoint(p, <<i, hi>>) /\ p[1] \in Word /\ p[2] \in Word
      BY <1>1 DEF Separate, SplitTypeOK
    <3>2. QED
      BY <3>1, <1>1, <1>2 DEF Disjoint, Word
  <2>2. \A r \in calls : /\ Disjoint(r, <<e, hi>>)
                         /\ Disjoint(r, <<i, e>>) /\ Disjoint(<<i, e>>, r)
    <3> SUFFICES ASSUME NEW r \in calls
                 PROVE  /\ Disjoint(r, <<e, hi>>)
                        /\ Disjoint(r, <<i, e>>) /\ Disjoint(<<i, e>>, r)
      OBVIOUS
    <3>1. Disjoint(r, <<i, hi>>) /\ r[1] \in Word /\ r[2] \in Word /\ r[1] < r[2]
      BY <1>1 DEF Separate, SplitTypeOK, Bounds
    <3>2. QED
      BY <3>1, <1>1, <1>2 DEF Disjoint, Word
  <2>3. Disjoint(<<i, e>>, <<e, hi>>)
    BY <1>2 DEF Disjoint, Word
  <2>4. open_tasks' \subseteq (open_tasks \ {task}) \cup {<<e, hi>>}
    BY <1>3
  <2>5. \A p, q \in open_tasks' : p # q => Disjoint(p, q)
    BY <2>1, <2>4 DEF Separate
  <2>6. \A r \in calls', p \in open_tasks' : Disjoint(r, p)
    BY <2>1, <2>2, <2>3, <2>4, <1>3 DEF Separate
  <2>7. \A r, s \in calls' : r # s => Disjoint(r, s)
    BY <2>2, <1>3 DEF Separate
  <2>8. QED
    BY <2>5, <2>6, <2>7 DEF Separate
<1>7. Covered'
  <2> SUFFICES ASSUME ~failed', NEW k \in Word, start_idx <= k, k < task_idx
               PROVE  Held(k)'
    BY <1>3, <1>4 DEF Covered, args
  <2>1. /\ ~failed /\ open_tasks' = (open_tasks \ {task}) \cup {<<e, hi>>}
        /\ calls' = calls \cup {<<i, e>>}
    BY <1>3
  <2>2. PICK r \in calls \cup open_tasks : r[1] <= k /\ k < r[2]
    BY <2>1, <1>1 DEF Covered, Held
  <2>3. CASE r # task
    BY <2>1, <2>2, <2>3 DEF Held
  <2>4. CASE r = task
    <3>1. i <= k /\ k < hi
      BY <2>2, <2>4, <1>1
    <3>2. \/ <<i, e>>[1] <= k /\ k < <<i, e>>[2]
          \/ <<e, hi>>[1] <= k /\ k < <<e, hi>>[2]
      BY <3>1, <1>1, <1>2 DEF Word
    <3>3. <<i, e>> \in calls' \cup open_tasks' /\ <<e, hi>> \in calls' \cup open_tasks'
      BY <2>1
    <3>4. QED
      BY <3>2, <3>3 DEF Held
  <2>5. QED
    BY <2>3, <2>4
<1>8. QED
  BY <1>4, <1>5, <1>6, <1>7

LEMMA SplitNextInv == SplitInv /\ [SplitNext]_split_vars => SplitInv'
<1> SUFFICES ASSUME SplitInv, [SplitNext]_split_vars PROVE SplitInv'
  OBVIOUS
<1>1. CASE RunInline
  BY <1>1, RunInlineStep
<1>2. CASE QueueTask
  BY <1>2, QueueTaskStep
<1>3. ASSUME NEW task \in open_tasks, RunChunk(task) PROVE SplitInv'
  BY <1>3, RunChunkStep
<1>4. CASE UNCHANGED split_vars
  BY <1>4 DEF split_vars, args, SplitInv, SplitTypeOK, ArgsOK, Bounds, Separate, Covered, Held,
              IsInline
<1>5. QED
  BY <1>1, <1>2, <1>3, <1>4 DEF SplitNext, SplitOver

-----------------------------------------------------------------------------
\* No index is ever passed to func twice, nor one outside the range, nor a
\* chunk longer than the caller allowed.
THEOREM NoIndexTwiceTheorem == SplitSpec => []NoIndexTwice
<1>1. SplitInv => NoIndexTwice
  BY DEF SplitInv, Bounds, Separate, Disjoint, NoIndexTwice
<1>2. QED
  BY <1>1, SplitInitInv, SplitNextInv, PTL DEF SplitSpec

\* Unless func throws, every index of the range has been passed to it when the
\* tasks are done (a finished task holds an empty range).
THEOREM NoIndexForgottenTheorem == SplitSpec => []NoIndexForgotten
<1>1. SplitInv => NoIndexForgotten
  <2> SUFFICES ASSUME SplitInv, AllQueued, ~failed, IsInline => calls # {},
                      NEW k \in AllIndices
               PROVE  \E r \in calls \cup open_tasks : k \in Indices(r)
    BY DEF NoIndexForgotten
  <2>1. k \in Word /\ start_idx <= k /\ k < end_idx
    BY WordAssumption DEF SplitInv, SplitTypeOK, AllIndices, Word
  <2>2. CASE IsInline
    <3>1. <<start_idx, end_idx>> \in calls
      BY <2>2 DEF SplitInv, Bounds
    <3>2. QED
      BY <3>1 DEF Indices, AllIndices
  <2>3. CASE ~IsInline
    <3>1. PICK r \in calls \cup open_tasks : r[1] <= k /\ k < r[2]
      BY <2>1, <2>3 DEF SplitInv, Covered, Held, AllQueued, MoreToQueue, SplitTypeOK, Word
    <3>2. r[1] \in Word /\ r[2] \in Word
      BY DEF SplitInv, SplitTypeOK
    <3>3. QED
      BY <2>1, <3>1, <3>2 DEF Indices, Word
  <2>4. QED
    BY <2>2, <2>3
<1>2. QED
  BY <1>1, SplitInitInv, SplitNextInv, PTL DEF SplitSpec

-----------------------------------------------------------------------------
TaskLimit == kTaskRedudencyFactor * NumThreads
SumFits == (end_idx - start_idx) + TaskLimit <= Size

\* While the split goes on, no task was cut short by the end of the range.
Counted ==
  /\ IsFiniteSet(open_tasks)
  /\ SumFits => Cardinality(open_tasks) <= TaskLimit
  /\ SumFits /\ task_idx < end_idx =>
       task_idx = start_idx + Cardinality(open_tasks) * SplitSize

LEMMA LimitTyped == TaskLimit \in Nat /\ 0 < TaskLimit /\ TaskLimit < Size
  BY WordAssumption DEF TaskLimit, kTaskRedudencyFactor

\* DivCeil rounds up if its sum fits.
LEMMA CeilingBound ==
  ASSUME NEW x \in Nat, NEW y \in Nat, 0 < y
  PROVE  x <= y * ((x + y - 1) \div y)
  OBVIOUS

\* As many tasks as are allowed, of split_size each, cover the range.
LEMMA LimitCovers ==
  ASSUME SplitTypeOK, ArgsOK, SumFits
  PROVE  end_idx - start_idx <= TaskLimit * SplitSize
<1> DEFINE range == end_idx - start_idx
           even == (range + TaskLimit - 1) \div TaskLimit
<1>1. range \in Nat /\ range \in Word /\ Minus(end_idx, start_idx) = range
  BY WordAssumption DEF SplitTypeOK, ArgsOK, Word, Minus
<1>2. Minus(Plus(range, TaskLimit), 1) = range + TaskLimit - 1
  BY <1>1, LimitTyped, WordAssumption DEF SumFits, Plus, Minus
<1>3. DivCeil(Minus(end_idx, start_idx), kTaskRedudencyFactor * NumThreads) = even
  BY <1>1, <1>2 DEF DivCeil, TaskLimit
<1>4. range <= TaskLimit * even
  BY <1>1, LimitTyped, CeilingBound
<1>5. even \in Nat /\ SplitSize \in Nat /\ even <= SplitSize
  <2>1. range + TaskLimit - 1 \in Nat
    BY <1>1, LimitTyped
  <2>2. even \in Nat
    BY <2>1, LimitTyped, QuotientBound
  <2> HIDE DEF even
  <2>3. QED
    BY <1>3, <2>2 DEF SplitSize, SplitTypeOK, Word
<1> HIDE DEF even
<1>6. TaskLimit * even <= TaskLimit * SplitSize
  BY <1>5, LimitTyped
<1>7. QED
  BY <1>1, <1>4, <1>5, <1>6, LimitTyped

LEMMA QueueTaskCounted == SplitInv /\ Counted /\ QueueTask => Counted'
<1> SUFFICES ASSUME SplitInv, Counted, QueueTask PROVE Counted'
  OBVIOUS
<1> DEFINE e == GetTaskEndIdx(task_idx, SplitSize, end_idx)
           c == Cardinality(open_tasks)
<1>1. /\ SplitSize \in Word \ {0} /\ e \in Word /\ task_idx < e
      /\ task_idx \in Word /\ end_idx \in Word /\ start_idx \in Word /\ task_idx < end_idx
  BY SplitSizeCorrect, GetTaskEndIdxCorrect DEF QueueTask, MoreToQueue, SplitInv, SplitTypeOK, ArgsOK
<1>2. /\ open_tasks' = open_tasks \cup {<<task_idx, e>>} /\ task_idx' = e /\ UNCHANGED <<args, calls>>
  BY DEF QueueTask
<1>3. e < end_idx => e = task_idx + SplitSize
  BY <1>1, WordAssumption DEF GetTaskEndIdx, Plus, Word
<1>4. SplitSize' = SplitSize /\ SumFits' = SumFits
  BY <1>2 DEF SplitSize, SumFits, args
<1> HIDE DEF e
<1>5. <<task_idx, e>> \notin open_tasks
  BY <1>1 DEF SplitInv, Bounds, Word, SplitTypeOK
<1>6. c \in Nat /\ IsFiniteSet(open_tasks') /\ Cardinality(open_tasks') = c + 1
  BY <1>2, <1>5, FS_CardinalityType, FS_AddElement DEF Counted
<1> HIDE DEF c
<1>7. CASE SumFits
  <2>1. task_idx = start_idx + c * SplitSize
    BY <1>1, <1>7 DEF Counted, c
  <2>2. c * SplitSize < TaskLimit * SplitSize
    <3>1. c * SplitSize \in Nat /\ TaskLimit * SplitSize \in Nat
      BY <1>1, <1>6, LimitTyped DEF Word
    <3>2. QED
      BY <1>1, <1>7, <2>1, <3>1, LimitCovers DEF SplitInv, Word
  <2>3. c < TaskLimit
    <3>1. SUFFICES ASSUME TaskLimit <= c PROVE FALSE
      BY <1>6, LimitTyped
    <3>2. TaskLimit * SplitSize <= c * SplitSize
      BY <1>1, <1>6, <3>1, LimitTyped DEF Word
    <3>3. c * SplitSize \in Nat /\ TaskLimit * SplitSize \in Nat
      BY <1>1, <1>6, LimitTyped DEF Word
    <3>4. QED
      BY <2>2, <3>2, <3>3
  <2>4. (c + 1) * SplitSize = c * SplitSize + SplitSize
    BY <1>1, <1>6 DEF Word
  <2>5. c * SplitSize \in Nat
    BY <1>1, <1>6 DEF Word
  <2>6. e < end_idx => e = start_idx + (c + 1) * SplitSize
    BY <1>1, <1>3, <2>1, <2>4, <2>5 DEF Word
  <2>7. c + 1 <= TaskLimit
    BY <1>6, <2>3, LimitTyped
  <2>8. TaskLimit' = TaskLimit /\ start_idx' = start_idx /\ end_idx' = end_idx
    BY <1>2 DEF args, TaskLimit
  <2>9. QED
    BY <1>2, <1>4, <1>6, <2>6, <2>7, <2>8 DEF Counted
<1>8. CASE ~SumFits
  BY <1>4, <1>6, <1>8 DEF Counted
<1>9. QED
  BY <1>7, <1>8

LEMMA RunChunkCounted ==
  ASSUME NEW task \in open_tasks, SplitInv, Counted, RunChunk(task)
  PROVE  Counted'
<1> DEFINE left == open_tasks \ {task}
           c == Cardinality(open_tasks)
<1>1. c \in Nat /\ IsFiniteSet(left) /\ Cardinality(left) = c - 1
  BY FS_CardinalityType, FS_RemoveElement DEF Counted
<1>2. UNCHANGED <<args, task_idx>> /\ (open_tasks' = left \/ \E x : open_tasks' = left \cup {x})
  BY DEF RunChunk
<1>3. IsFiniteSet(open_tasks') /\ Cardinality(open_tasks') <= c /\ Cardinality(open_tasks') \in Nat
  <2>1. CASE open_tasks' = left
    BY <1>1, <2>1, FS_CardinalityType
  <2>2. ASSUME NEW x, open_tasks' = left \cup {x} PROVE Cardinality(open_tasks') <= c /\ IsFiniteSet(open_tasks')
    <3>1. /\ IsFiniteSet(left \cup {x})
          /\ Cardinality(left \cup {x}) =
               IF x \in left THEN Cardinality(left) ELSE Cardinality(left) + 1
      BY <1>1, FS_AddElement
    <3> HIDE DEF left, c
    <3>2. QED
      BY <1>1, <2>2, <3>1
  <2>3. QED
    BY <1>2, <2>1, <2>2, FS_CardinalityType
<1>4. (SumFits' <=> SumFits) /\ TaskLimit' = TaskLimit
  BY <1>2 DEF SumFits, args, TaskLimit
<1>5. ~(task_idx < end_idx) \/ IsInline
  BY DEF RunChunk, AllQueued, MoreToQueue
<1>6. ~IsInline
  BY DEF SplitInv, Bounds
<1>7. QED
  BY <1>1, <1>2, <1>3, <1>4, <1>5, <1>6, LimitTyped DEF Counted, args

LEMMA NextCounted == SplitInv /\ Counted /\ [SplitNext]_split_vars => Counted'
<1> SUFFICES ASSUME SplitInv, Counted, [SplitNext]_split_vars PROVE Counted'
  OBVIOUS
<1>1. CASE RunInline \/ UNCHANGED split_vars
  BY <1>1 DEF RunInline, split_vars, args, Counted, SumFits, SplitSize, TaskLimit
<1>2. CASE QueueTask
  BY <1>2, QueueTaskCounted
<1>3. ASSUME NEW task \in open_tasks, RunChunk(task) PROVE Counted'
  BY <1>3, RunChunkCounted
<1>4. QED
  BY <1>1, <1>2, <1>3 DEF SplitNext, SplitOver

\* The split queues at most kTaskRedudencyFactor tasks per thread, whatever the
\* range and the least chunk, as long as the sum in DivCeil does not wrap.
THEOREM FewTasksTheorem == SplitSpec => []FewTasks
<1>1. SplitInit => Counted
  <2> SUFFICES ASSUME SplitInit PROVE Counted
    OBVIOUS
  <2>1. IsFiniteSet(open_tasks) /\ Cardinality(open_tasks) = 0
    BY FS_EmptySet DEF SplitInit
  <2>2. SplitInv /\ SplitSize \in Word
    BY SplitInitInv, SplitSizeCorrect DEF SplitInv, ArgsOK
  <2>3. task_idx = start_idx + 0 * SplitSize
    BY <2>2 DEF SplitInit, Word
  <2>4. QED
    BY <2>1, <2>3, LimitTyped DEF Counted
<1>2. Counted => FewTasks
  BY DEF Counted, FewTasks, SumFits, TaskLimit
<1>3. QED
  BY <1>1, <1>2, SplitInitInv, SplitNextInv, NextCounted, PTL DEF SplitSpec
=============================================================================
