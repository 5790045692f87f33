---------------------------- MODULE MCTracePools ----------------------------
(***************************************************************************)
(* Statements for TracePools: two CPU steps, two public cells and two      *)
(* instances of the builtin, at addresses 3 and 4 of a memory of eight.    *)
(***************************************************************************)
EXTENDS TracePools, TLC

Addr == 0 .. 7
MemoryFile == {[a \in Addr |-> 0], [a \in Addr |-> IF a = 3 THEN 5 ELSE a % 2]}
Entries == {<<1, 0>>, <<1, 1>>, <<2, 0>>, <<6, 0>>}
PublicMemory ==
  {<<e>> : e \in Entries} \cup {<<e, f>> : e \in Entries, f \in Entries}
    \cup {<<<<1, 0>>, <<2, 0>>, <<1, 0>>>>}
PrivateInput ==
  {<<>>, 0 :> 5, 0 :> 0, 1 :> 6, 0 :> 16, 0 :> 5 @@ 1 :> 1, 0 :> 5 @@ 1 :> 16}

\* Every shape of the memory, and every shape of the range-checked values.
InputsValue ==
  [access : [Steps -> {0, 1, 3, 5, 6, 7}], memory : MemoryFile, offset : {<<0, 1>>},
   public : PublicMemory, rc_min : {0}, rc_max : {2}, private : {<<>>, 0 :> 5, 0 :> 5 @@ 1 :> 1}]
  \cup
  {s \in [access : {<<1, 3>>}, memory : MemoryFile, offset : [Steps -> 0..3],
          public : {<<<<2, 0>>>>}, rc_min : 0..2, rc_max : 1..3, private : PrivateInput] :
     s.rc_min <= s.rc_max}
=============================================================================
