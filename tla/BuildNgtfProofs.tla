---------------------------- MODULE BuildNgtfProofs ----------------------------
(***************************************************************************)
(* Proofs about BuildNgtf, the recipe of build_ngtf.py over invocations in *)
(* one checkout, for every set of locations and every bound on the runs.   *)
(***************************************************************************)
EXTENDS BuildNgtf, TLAPS

(***************************************************************************)
(* tf_src_dir is assigned only in the prebuilt branch: a prebuilt          *)
(* invocation has it at every step after pre_install, and a source build  *)
(* never has it.                                                           *)
(***************************************************************************)
BindInv ==
    /\ (mode = "prebuilt" /\ pc \in {"pre_clone", "cc", "ngraph", "bridge"})
           => tf_src_bound
    /\ mode = "source" => ~tf_src_bound
    /\ pc \in {"loc_install", "loc_copy"} => mode = "location"
    /\ pc \in {"pre_install", "pre_clone"} => mode = "prebuilt"
    /\ pc = "src_build" => mode = "source"

(***************************************************************************)
(* A prebuilt invocation past build_tensorflow_cc has built it from a      *)
(* complete tree, and never copies the python tree.                        *)
(***************************************************************************)
CCInv ==
    /\ (mode = "prebuilt" /\ pc \in {"ngraph", "bridge", "success"})
           => art_cc /\ art_src = "full"
    /\ pc = "copy_py" => mode # "prebuilt"

(***************************************************************************)
(* SourceNeverCompletes: a build from source never gets past               *)
(* build_tensorflow_cc.                                                    *)
(***************************************************************************)
SourceNeverCompletes ==
    mode = "source" => pc \notin {"ngraph", "bridge", "copy_py", "success"}

Inv == TypeOK /\ BindInv /\ CCInv /\ SourceNeverCompletes
-----------------------------------------------------------------------------
LEMMA InitInv == Init => Inv
<1> SUFFICES ASSUME Init PROVE Inv
    OBVIOUS
<1>1. TypeOK
    <2>1. runs \in 0..MaxRuns
        BY BuildAssumption DEF Init
    <2>2. /\ art_dir \in BOOLEAN /\ art_cc \in BOOLEAN
          /\ gcc48 \in BOOLEAN /\ tf_src_bound \in BOOLEAN
        <3>1. art_dir = FALSE /\ art_cc = FALSE /\ gcc48 = TRUE
              /\ tf_src_bound = FALSE
            BY DEF Init
        <3>2. QED
            BY <3>1, Zenon
    <2>3. /\ art_src \in {"none", "partial", "full"}
          /\ art_libs \in Locations \cup {"none"}
          /\ loc \in Locations \cup {"none"}
          /\ mode \in {"location", "prebuilt", "source"}
        BY DEF Init
    <2>4. pc \in PCs /\ reason \in Reasons
        BY DEF Init, PCs, Reasons
    <2>5. QED
        BY <2>1, <2>2, <2>3, <2>4 DEF TypeOK
<1>2. BindInv /\ CCInv /\ SourceNeverCompletes
    BY DEF Init, BindInv, CCInv, SourceNeverCompletes
<1>3. QED
    BY <1>1, <1>2 DEF Inv

LEMMA NextInv == Inv /\ [Next]_vars => Inv'
<1> SUFFICES ASSUME Inv, [Next]_vars PROVE Inv'
    OBVIOUS
<1> USE BuildAssumption DEF Inv, TypeOK, BindInv, CCInv,
        SourceNeverCompletes, PCs, Reasons, Running
<1>1. CASE Start
    <2>1. PICK m \in Modes, l \in Locations, g \in BOOLEAN :
              /\ mode' = m
              /\ loc' = IF m = "location" THEN l ELSE "none"
              /\ gcc48' = g
              /\ IF m = "location" /\ l \notin GoodLocations
                   THEN pc' = "aborted" /\ reason' = "assert"
                   ELSE pc' = "setup" /\ reason' = "none"
        BY <1>1 DEF Start
    <2>2. /\ runs' = runs + 1 /\ runs < MaxRuns /\ tf_src_bound' = FALSE
          /\ UNCHANGED <<art_dir, art_src, art_cc, art_libs>>
        BY <1>1 DEF Start, artVars
    <2>3. /\ gcc48' \in BOOLEAN /\ tf_src_bound' \in BOOLEAN
          /\ art_dir' \in BOOLEAN /\ art_cc' \in BOOLEAN
        BY <2>1, <2>2, Zenon
    <2>4. /\ runs' \in 0..MaxRuns /\ mode' \in {"location", "prebuilt", "source"}
          /\ loc' \in Locations \cup {"none"}
          /\ art_src' \in {"none", "partial", "full"}
          /\ art_libs' \in Locations \cup {"none"}
        BY <2>1, <2>2
    <2>5. CASE m = "location" /\ l \notin GoodLocations
        <3>1. pc' = "aborted" /\ reason' = "assert"
            BY <2>1, <2>5
        <3>2. QED
            BY <2>2, <2>3, <2>4, <3>1
    <2>6. CASE ~(m = "location" /\ l \notin GoodLocations)
        <3>1. pc' = "setup" /\ reason' = "none"
            BY <2>1, <2>6
        <3>2. QED
            BY <2>2, <2>3, <2>4, <3>1
    <2>7. QED
        BY <2>5, <2>6
<1>2. CASE Setup
    BY <1>2 DEF Setup, artVars, argVars
<1>3. CASE LocInstall
    BY <1>3 DEF LocInstall, argVars
<1>4. CASE LocCopy
    BY <1>4 DEF LocCopy, argVars
<1>5. CASE GccRejected
    BY <1>5 DEF GccRejected, artVars, argVars
<1>6. CASE PreInstall
    BY <1>6 DEF PreInstall, artVars, argVars
<1>7. CASE CloneBegin
    BY <1>7 DEF CloneBegin, argVars
<1>8. CASE CloneEnd
    BY <1>8 DEF CloneEnd, argVars
<1>9. CASE SrcBuild
    BY <1>9 DEF SrcBuild, artVars, argVars
<1>10. CASE UnboundRead
    BY <1>10 DEF UnboundRead, artVars, argVars
<1>11. CASE BuildCC
    <2>1. /\ pc = "cc" /\ tf_src_bound
          /\ UNCHANGED <<art_dir, art_src, art_libs, runs, mode, loc, gcc48,
                         tf_src_bound>>
        BY <1>11 DEF BuildCC, argVars
    <2>2. CASE art_src = "full"
        <3>1. art_cc' = TRUE /\ pc' = "ngraph" /\ reason' = reason
            BY <1>11, <2>2 DEF BuildCC
        <3>2. art_cc' /\ art_src' = "full"
            BY <2>1, <2>2, <3>1, Zenon
        <3>3. QED
            BY <2>1, <3>1, <3>2
    <2>3. CASE art_src # "full"
        <3>1. art_cc' = art_cc /\ pc' = "aborted" /\ reason' = "build"
            BY <1>11, <2>3 DEF BuildCC
        <3>2. QED
            BY <2>1, <3>1
    <2>4. QED
        BY <2>2, <2>3
<1>12. CASE NGraph
    BY <1>12 DEF NGraph, artVars, argVars
<1>13. CASE Bridge
    BY <1>13 DEF Bridge, artVars, argVars
<1>14. CASE CopyPy
    BY <1>14 DEF CopyPy, argVars
<1>15. CASE Crash
    BY <1>15 DEF Crash, artVars, argVars
<1>16. CASE UNCHANGED vars
    BY <1>16 DEF vars
<1>17. QED
    BY <1>1, <1>2, <1>3, <1>4, <1>5, <1>6, <1>7, <1>8, <1>9, <1>10, <1>11,
       <1>12, <1>13, <1>14, <1>15, <1>16 DEF Next

(***************************************************************************)
(* Type correctness of the build recipe for every set of locations.        *)
(***************************************************************************)
THEOREM TypeCorrect == Spec => []TypeOK
<1>1. Inv => TypeOK
    BY DEF Inv
<1>2. QED
    BY InitInv, NextInv, <1>1, PTL DEF Spec

(***************************************************************************)
(* PrebuiltSafety: a build with --use_prebuilt_tensorflow that succeeds    *)
(* has libtensorflow_cc built from a complete source tree, whatever       *)
(* earlier invocations left in artifacts/tensorflow.                       *)
(***************************************************************************)
THEOREM PrebuiltSafety == Spec => []PrebuiltHasCC
<1>1. Inv => PrebuiltHasCC
    BY DEF Inv, CCInv, PrebuiltHasCC
<1>2. QED
    BY InitInv, NextInv, <1>1, PTL DEF Spec

(***************************************************************************)
(* SourceBuildDies: the default build, from source, never completes:      *)
(* build_ngtf.py reads tf_src_dir at build_tensorflow_cc without ever     *)
(* assigning it on that path, so every such invocation dies there (with a *)
(* NameError, or earlier).                                                  *)
(***************************************************************************)
THEOREM SourceBuildDies == Spec => []SourceNeverCompletes
<1>1. Inv => SourceNeverCompletes
    BY DEF Inv
<1>2. QED
    BY InitInv, NextInv, <1>1, PTL DEF Spec
====
