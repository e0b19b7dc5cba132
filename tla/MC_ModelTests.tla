---------------------------- MODULE MC_ModelTests ----------------------------
(***************************************************************************)
(* Four model directories: MLP with a repository, two test folders and a  *)
(* getting_repo_ready.sh; resnet with a repository and one test folder;   *)
(* bert with a repository and a test folder without any patch; axpy with  *)
(* a graph file; vgg with a graph file and a stray third file.           *)
(***************************************************************************)
EXTENDS ModelTests

MC_Models == {"MLP", "resnet", "bert", "axpy", "vgg"}
MC_HasRepo == {"MLP", "resnet", "bert"}
MC_ReadyScript == {"MLP"}
MC_GoodGraph == {"axpy"}
MC_Folders == [m \in MC_Models |->
                  CASE m = "MLP"    -> {"test1", "test2"}
                    [] m = "resnet" -> {"test_rn"}
                    [] m = "bert"   -> {"test_nopatch"}
                    [] OTHER        -> {}]
\* every test folder but test_nopatch holds its own enable_ngraph.patch
MC_PatchInTest == [t \in {"test1", "test2", "test_rn", "test_nopatch"} |->
                      IF t = "test_nopatch" THEN "none" ELSE "test"]
\* Each patch overlaps only itself: test1's patch applies over a test2
\* patch left behind, and a leftover patch fails its own re-apply.
MC_Overlap == {<<t, t>> : t \in {"test1", "test2", "test_rn", "test_nopatch"}}
MC_MaxRuns == 2
====
