----------------------------- MODULE MCFriQueries -----------------------------
(***************************************************************************)
(* Step lists for FriQueries, of one to three layers and then the last.    *)
(***************************************************************************)
EXTENDS FriQueries

StepListsValue ==
  {<<0>>, <<2>>, <<0, 1>>, <<0, 2>>, <<1, 1>>, <<1, 2>>, <<2, 1>>,
   <<0, 1, 2>>, <<0, 2, 1>>, <<1, 1, 1>>, <<1, 1, 2>>, <<0, 1, 1, 1>>}
===============================================================================
