---------------------------- MODULE MCTaskManager ----------------------------
(***************************************************************************)
(* Instances of TaskManager for TLC: a and b are calls of two tasks, every *)
(* other call has one.  Which body makes which call is left open, so the   *)
(* calls come one after the other, nested, or both.                        *)
(***************************************************************************)
EXTENDS TaskManager

CONSTANTS a, b

Sizes == [g \in Groups |-> IF g \in {a, b} THEN 2 ELSE 1]

FirstTasksThrow == {<<g, 1>> : g \in Groups}
=============================================================================
