------------------------------ MODULE MC_Convert ------------------------------
(***************************************************************************)
(* Graphs over three ops: a plain MatMul, a VariableV2 and the             *)
(* NGraphEncapsulate of a graph nGraph already rewrote; every command line *)
(* over the two input and three output options.                            *)
(***************************************************************************)
EXTENDS Convert

MC_Ops == {"MatMul", "VariableV2", "NGraphEncapsulate"}
MC_VariableOps == {"VariableV2"}
====
