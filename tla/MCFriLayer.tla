------------------------------ MODULE MCFriLayer ------------------------------
(***************************************************************************)
(* Configurations for FriLayer: every list of up to four steps, the first  *)
(* of which may be 0.                                                      *)
(***************************************************************************)
EXTENDS FriLayer

StepListsValue ==
  {<<a>> : a \in 1 .. 3} \cup ((0 .. 2) \X (1 .. 3)) \cup ((0 .. 2) \X (1 .. 2) \X (1 .. 2))
    \cup ((0 .. 1) \X (1 .. 2) \X (1 .. 2) \X (1 .. 2))
===============================================================================
