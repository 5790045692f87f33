------------------------------ MODULE ForkJoin ------------------------------
(***************************************************************************)
(* What TaskManager::ParallelFor promises to the code that calls it, with  *)
(* no thread, queue, mutex or condition variable in sight.                 *)
(*                                                                         *)
(* A body (the application's own code, Root, or the body of a task) calls  *)
(* ParallelFor, which forks a group of tasks, and is suspended until every *)
(* task of the group has finished.  Tasks start in any order and may fork  *)
(* groups of their own.  A body that threw an exception, or to which a     *)
(* joined group handed one, does nothing more than finish with it.         *)
(***************************************************************************)
EXTENDS Integers

CONSTANTS
  Groups,      \* the ParallelFor calls the program makes; each is made once
  NTasks,      \* NTasks[g]: the number of tasks call g is split into
  Inline,      \* the calls on a one-element range, run by the caller itself
  Throwers,    \* the tasks whose body may throw
  Root,        \* the application's own code
  NoGroup, NoExc, Unfinished, Ok

TasksOf(g) == {g} \X (1..NTasks[g])
Task == UNION {TasksOf(g) : g \in Groups}
Body == Task \cup {Root}

VARIABLES
  forked,      \* the calls made so far
  started,     \* the tasks whose body has begun
  outcome,     \* how each task's body ended: Unfinished, Ok or an exception
  joining,     \* the call each body is suspended in, or NoGroup
  inflight     \* the exception each body is unwinding with, or NoExc

vars == <<forked, started, outcome, joining, inflight>>

Init ==
  /\ forked = {}
  /\ started = {}
  /\ outcome = [x \in Task |-> Unfinished]
  /\ joining = [b \in Body |-> NoGroup]
  /\ inflight = [b \in Body |-> NoExc]

Active(b) ==
  /\ b = Root \/ (b \in started /\ outcome[b] = Unfinished)
  /\ joining[b] = NoGroup

\* Body b calls ParallelFor and is suspended in it.
Fork(b, g) ==
  /\ Active(b) /\ inflight[b] = NoExc
  /\ g \notin forked
  /\ forked' = forked \cup {g}
  /\ joining' = [joining EXCEPT ![b] = g]
  /\ started' = IF g \in Inline THEN started \cup TasksOf(g) ELSE started
  /\ UNCHANGED <<outcome, inflight>>

Start(x) ==
  /\ x[1] \in forked /\ x \notin started
  /\ started' = started \cup {x}
  /\ UNCHANGED <<forked, outcome, joining, inflight>>

Raise(x) ==
  /\ x \in Throwers /\ Active(x) /\ inflight[x] = NoExc
  /\ inflight' = [inflight EXCEPT ![x] = x]
  /\ UNCHANGED <<forked, started, outcome, joining>>

Ending(x) == IF inflight[x] = NoExc THEN Ok ELSE inflight[x]

Finish(x) ==
  /\ Active(x) /\ x[1] \notin Inline
  /\ outcome' = [outcome EXCEPT ![x] = Ending(x)]
  /\ inflight' = [inflight EXCEPT ![x] = NoExc]
  /\ UNCHANGED <<forked, started, joining>>

\* What the tasks of g threw.
Thrown(g) == {outcome[x] : x \in TasksOf(g)} \ {Unfinished, Ok}

\* Body b resumes: every task of the group has finished, and if any of them
\* threw, b is handed one of their exceptions.
Join(b, g) ==
  /\ joining[b] = g
  /\ \A x \in TasksOf(g) : outcome[x] # Unfinished
  /\ joining' = [joining EXCEPT ![b] = NoGroup]
  /\ \E e \in IF Thrown(g) = {} THEN {NoExc} ELSE Thrown(g) :
       inflight' = [inflight EXCEPT ![b] = e]
  /\ UNCHANGED <<forked, started, outcome>>

\* The one body of an inline call ends, and its caller resumes at once.
FinishInline(b, x) ==
  /\ Active(x) /\ x[1] \in Inline /\ joining[b] = x[1]
  /\ outcome' = [outcome EXCEPT ![x] = Ending(x)]
  /\ joining' = [joining EXCEPT ![b] = NoGroup]
  /\ inflight' = [inflight EXCEPT ![x] = NoExc, ![b] = inflight[x]]
  /\ UNCHANGED <<forked, started>>

\* The application deals with an exception that reached it.
Handle ==
  /\ inflight[Root] # NoExc
  /\ inflight' = [inflight EXCEPT ![Root] = NoExc]
  /\ UNCHANGED <<forked, started, outcome, joining>>

Next ==
  \/ \E b \in Body, g \in Groups : Fork(b, g) \/ Join(b, g)
  \/ \E x \in Task : Start(x) \/ Raise(x) \/ Finish(x)
  \/ \E b \in Body, x \in Task : FinishInline(b, x)
  \/ Handle

Spec == Init /\ [][Next]_vars
=============================================================================
