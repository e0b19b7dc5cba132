----------------------------- MODULE MC_BuildNgtf -----------------------------
(***************************************************************************)
(* Small instances of BuildNgtf: two directories for                      *)
(* --use_tensorflow_from_location, of which one passes the asserts, and   *)
(* two invocations in the same checkout, enough for one to die and the    *)
(* next to find what it left in artifacts/tensorflow.                      *)
(***************************************************************************)
EXTENDS BuildNgtf

MC_Locations == {"L1", "L2"}
MC_GoodLocations == {"L1"}
MC_ModesAll == {"location", "prebuilt", "source"}
MC_ModesNoSource == {"location", "prebuilt"}
MC_MaxRuns == 2
====
