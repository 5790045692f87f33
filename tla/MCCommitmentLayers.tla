-------------------------- MODULE MCCommitmentLayers --------------------------
(***************************************************************************)
(* CommitmentLayers on tables of up to eight rows.                         *)
(***************************************************************************)
EXTENDS CommitmentLayers

\* Every way to cut a tree of the height into segments and layers.
Shapes(height, per_package, columns, max_integrity, friendly) ==
  {[height |-> height, log_segments |-> s, per_package |-> per_package,
    columns |-> columns, out_of_memory |-> o, friendly |-> f,
    max_integrity |-> max_integrity] :
      s \in 0 .. height, o \in 0 .. height, f \in friendly}

Sensible(c) == c.out_of_memory <= c.height - c.log_segments

EightRows ==
  {c \in Shapes(3, 1, 1, 0, {0, 3}) \cup Shapes(2, 2, 1, 0, {0, 1}) \cup Shapes(1, 4, 1, 0, {1}) :
     Sensible(c)}
\* Two columns, so that a row may be known in part, every set of integrity queries,
\* and every number of friendly layers.
FewRows ==
  {c \in Shapes(2, 1, 2, 8, {0, 2}) \cup Shapes(2, 1, 2, 1, {1, 3})
          \cup Shapes(1, 2, 2, 8, 0 .. 2) \cup Shapes(0, 2, 2, 4, {0, 1}) :
     Sensible(c)}

EightAndFewRows == EightRows \cup FewRows
=============================================================================
