------------------------------ MODULE MCProtocol ------------------------------
(***************************************************************************)
(* Step lists for Protocol: with and without a first step of zero, of one  *)
(* to three layers, and one that the prover stops at.                      *)
(***************************************************************************)
EXTENDS Protocol

StepListsValue == {<<0>>, <<2>>, <<0, 1>>, <<1, 2>>, <<0, 1, 2>>, <<1, 1, 1>>, <<1, 0>>}
===============================================================================
