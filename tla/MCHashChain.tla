----------------------------- MODULE MCHashChain -----------------------------
(***************************************************************************)
(* HashChain with messages that spell a counter and one that does not.     *)
(***************************************************************************)
EXTENDS HashChain
CONSTANT Other
CounterAndOther == {0, 1, Other}
=============================================================================
