----------------------------- MODULE MC_NgraphEnv -----------------------------
(***************************************************************************)
(* The user starts the process with the variable unset, '0' or '1'; three *)
(* helper calls: one to fail, one to pass after it, and one more.          *)
(***************************************************************************)
EXTENDS NgraphEnv

MC_Values == {"0", "1"}
MC_MaxCalls == 3
====
