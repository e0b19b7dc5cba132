------------------------------- MODULE BuildNgtf -------------------------------
(***************************************************************************)
(* The recipe of build_ngtf.py, over several invocations in one checkout. *)
(*                                                                         *)
(* TensorFlow comes from one of three places: a directory filled by       *)
(* build_tf.py (--use_tensorflow_from_location), the pip package plus its *)
(* source downloaded into artifacts/tensorflow                             *)
(* (--use_prebuilt_tensorflow), or a source build.  Then nGraph and the    *)
(* bridge are built.  artifacts/tensorflow outlives an invocation, and    *)
(* the script skips filling it when the directory already exists.  Every  *)
(* step can die (a failing command, an interrupt), leaving what it had    *)
(* written.  The steps of build_utils (downloads, cmake builds) are       *)
(* opaque: they succeed or the invocation dies.                            *)
(***************************************************************************)
EXTENDS Integers

CONSTANTS
    Locations,      \* directories that --use_tensorflow_from_location may name
    GoodLocations,  \* those holding artifacts/tensorflow with whl, framework, cc
    Modes,          \* the TensorFlow modes considered
    MaxRuns         \* bound on the number of invocations

ASSUME BuildAssumption ==
    /\ GoodLocations \subseteq Locations
    /\ "none" \notin Locations
    /\ Modes \subseteq {"location", "prebuilt", "source"}
    /\ MaxRuns \in Nat

VARIABLES
    \* artifacts/tensorflow, which survives the invocation:
    art_dir,      \* the directory exists
    art_src,      \* TF source cloned into it: "none", "partial", "full"
    art_cc,       \* libtensorflow_cc built from that source
    art_libs,     \* the location whose TF whl and libraries were copied in
    \* the invocation:
    runs,         \* invocations started
    mode,         \* its TensorFlow mode
    loc,          \* its --use_tensorflow_from_location
    pc,           \* the step it is at
    gcc48,        \* the gcc on the PATH is 4.8 (or the platform is Darwin)
    tf_src_bound, \* the local tf_src_dir has been assigned
    reason        \* why it died

vars == <<art_dir, art_src, art_cc, art_libs, runs, mode, loc, pc, gcc48,
          tf_src_bound, reason>>

\* What the invocation does not change of the build tree.
artVars == <<art_dir, art_src, art_cc, art_libs>>

\* The invocation's arguments and environment.
argVars == <<runs, mode, loc, gcc48>>

PCs == {"idle", "setup", "loc_install", "loc_copy", "pre_install",
        "pre_clone", "src_build", "cc", "ngraph", "bridge",
        "copy_py", "success", "aborted"}

Reasons == {"none", "assert", "gcc", "crash", "NameError", "build"}

\* The steps during which the invocation runs and can be interrupted.
Running == PCs \ {"idle", "success", "aborted"}
-----------------------------------------------------------------------------
Init ==
    /\ art_dir = FALSE
    /\ art_src = "none"
    /\ art_cc = FALSE
    /\ art_libs = "none"
    /\ runs = 0
    /\ mode = "source"
    /\ loc = "none"
    /\ pc = "idle"
    /\ gcc48 = TRUE
    /\ tf_src_bound = FALSE
    /\ reason = "none"

(***************************************************************************)
(* The argument checks: the two TF options exclude each other, and a      *)
(* --use_tensorflow_from_location directory must hold                      *)
(* artifacts/tensorflow with a TF whl, libtensorflow_framework and         *)
(* libtensorflow_cc, or an assert ends the invocation.                     *)
(***************************************************************************)
Start ==
    /\ pc \in {"idle", "success", "aborted"}
    /\ runs < MaxRuns
    /\ \E m \in Modes, l \in Locations, g \in BOOLEAN :
          /\ mode' = m
          /\ loc' = IF m = "location" THEN l ELSE "none"
          /\ gcc48' = g
          /\ IF m = "location" /\ l \notin GoodLocations
               THEN pc' = "aborted" /\ reason' = "assert"
               ELSE pc' = "setup" /\ reason' = "none"
    /\ runs' = runs + 1
    /\ tf_src_bound' = FALSE
    /\ UNCHANGED artVars

\* build_cmake, artifacts and the virtualenv are made; then the TF branch.
Setup ==
    /\ pc = "setup"
    /\ pc' = CASE mode = "location" -> "loc_install"
               [] mode = "prebuilt" -> "pre_install"
               [] OTHER             -> "src_build"
    /\ UNCHANGED <<artVars, argVars, tf_src_bound, reason>>

\* pip install of the location's whl; then artifacts/tensorflow is used as
\* it is if it exists ("TensorFlow already exists in artifacts"), else it
\* is created and filled.
LocInstall ==
    /\ pc = "loc_install"
    /\ pc' = IF art_dir THEN "ngraph" ELSE "loc_copy"
    /\ art_dir' = TRUE
    /\ UNCHANGED <<art_src, art_cc, art_libs, argVars, tf_src_bound, reason>>

\* copy_tf_to_artifacts: the location's whl and libraries.
LocCopy ==
    /\ pc = "loc_copy"
    /\ art_libs' = loc
    /\ pc' = "ngraph"
    /\ UNCHANGED <<art_dir, art_src, art_cc, argVars, tf_src_bound, reason>>

\* With a prebuilt TF a gcc other than 4.8 raises.
GccRejected ==
    /\ pc = "pre_install"
    /\ ~gcc48
    /\ pc' = "aborted"
    /\ reason' = "gcc"
    /\ UNCHANGED <<artVars, argVars, tf_src_bound>>

\* Mutation: an existing artifacts/tensorflow is taken as already built,
\* as the location branch does, and build_tensorflow_cc is skipped.
PreInstallReuse ==
    /\ pc = "pre_install"
    /\ gcc48
    /\ tf_src_bound' = TRUE
    /\ pc' = IF art_dir THEN "ngraph" ELSE "pre_clone"
    /\ UNCHANGED <<artVars, argVars, reason>>

\* pip install tensorflow==tf_version; tf_src_dir = artifacts/tensorflow;
\* the source is downloaded only if that directory does not exist.
PreInstall ==
    /\ pc = "pre_install"
    /\ gcc48
    /\ tf_src_bound' = TRUE
    /\ pc' = IF art_dir THEN "cc" ELSE "pre_clone"
    /\ UNCHANGED <<artVars, argVars, reason>>

\* download_repo: git clone creates artifacts/tensorflow, then fills it;
\* an interrupt between the two leaves a partial tree.
CloneBegin ==
    /\ pc = "pre_clone"
    /\ art_src = "none"
    /\ art_dir' = TRUE
    /\ art_src' = "partial"
    /\ UNCHANGED <<art_cc, art_libs, argVars, pc, tf_src_bound, reason>>

CloneEnd ==
    /\ pc = "pre_clone"
    /\ art_src = "partial"
    /\ art_src' = "full"
    /\ pc' = "cc"
    /\ UNCHANGED <<art_dir, art_cc, art_libs, argVars, tf_src_bound, reason>>

\* Building from source: download_repo and build_tensorflow in build_cmake.
SrcBuild ==
    /\ pc = "src_build"
    /\ pc' = "cc"
    /\ UNCHANGED <<artVars, argVars, tf_src_bound, reason>>

(***************************************************************************)
(* A read of tf_src_dir while it is unassigned raises NameError: the call  *)
(* build_tensorflow_cc(tf_src_dir, ...) and the bridge's TF_SRC_DIR flag   *)
(* outside location mode.  On the source-build path tf_src_dir is never   *)
(* assigned, so that path dies at the first read and never reaches         *)
(* install_tensorflow nor the copy of the python tree.                    *)
(***************************************************************************)
UnboundRead ==
    /\ pc \in {"cc", "bridge"}
    /\ mode # "location"
    /\ ~tf_src_bound
    /\ pc' = "aborted"
    /\ reason' = "NameError"
    /\ UNCHANGED <<artVars, argVars, tf_src_bound>>

\* The bazel build of libtensorflow_cc in tf_src_dir: it needs the whole
\* source tree, and fails otherwise.
BuildCC ==
    /\ pc = "cc"
    /\ tf_src_bound
    /\ IF art_src = "full"
         THEN art_cc' = TRUE /\ pc' = "ngraph" /\ UNCHANGED reason
         ELSE pc' = "aborted" /\ reason' = "build" /\ UNCHANGED art_cc
    /\ UNCHANGED <<art_dir, art_src, art_libs, argVars, tf_src_bound>>

\* download_repo and build_ngraph for nGraph, with its cmake flags.
NGraph ==
    /\ pc = "ngraph"
    /\ pc' = "bridge"
    /\ UNCHANGED <<artVars, argVars, tf_src_bound, reason>>

\* The bridge's cmake flags (TF_SRC_DIR is tf_src_dir unless a location is
\* used), build_ngraph_tf, and the check that its whl is in artifacts.
Bridge ==
    /\ pc = "bridge"
    /\ mode = "location" \/ tf_src_bound
    /\ pc' = IF mode = "prebuilt" THEN "success" ELSE "copy_py"
    /\ UNCHANGED <<artVars, argVars, tf_src_bound, reason>>

\* cp -r of the TF python tree into artifacts/tensorflow.
CopyPy ==
    /\ pc = "copy_py"
    /\ pc' = "success"
    /\ art_dir' = TRUE
    /\ UNCHANGED <<art_src, art_cc, art_libs, argVars, tf_src_bound, reason>>

\* A command fails or the build is interrupted: what it wrote stays.
Crash ==
    /\ pc \in Running
    /\ pc' = "aborted"
    /\ reason' = "crash"
    /\ UNCHANGED <<artVars, argVars, tf_src_bound>>

Next ==
    \/ Start \/ Setup \/ LocInstall \/ LocCopy \/ GccRejected \/ PreInstall
    \/ CloneBegin \/ CloneEnd \/ SrcBuild \/ UnboundRead \/ BuildCC
    \/ NGraph \/ Bridge \/ CopyPy \/ Crash

Spec == Init /\ [][Next]_vars
-----------------------------------------------------------------------------
TypeOK ==
    /\ art_dir \in BOOLEAN
    /\ art_src \in {"none", "partial", "full"}
    /\ art_cc \in BOOLEAN
    /\ art_libs \in Locations \cup {"none"}
    /\ runs \in 0..MaxRuns
    /\ mode \in {"location", "prebuilt", "source"}
    /\ loc \in Locations \cup {"none"}
    /\ pc \in PCs
    /\ gcc48 \in BOOLEAN
    /\ tf_src_bound \in BOOLEAN
    /\ reason \in Reasons

(***************************************************************************)
(* PrebuiltHasCC: a build with --use_prebuilt_tensorflow that succeeds    *)
(* has built libtensorflow_cc from a complete TensorFlow source tree in   *)
(* artifacts/tensorflow, even when that directory was left by an earlier  *)
(* invocation (a location build, or an interrupted clone) and so the      *)
(* download was skipped.                                                   *)
(***************************************************************************)
PrebuiltHasCC ==
    (pc = "success" /\ mode = "prebuilt") => art_cc /\ art_src = "full"

(***************************************************************************)
(* ArtifactsMatchRun: a build with --use_tensorflow_from_location that    *)
(* succeeds has the TensorFlow libraries of that location in              *)
(* artifacts/tensorflow, which the bridge's unit tests link against        *)
(* (UNIT_TEST_TF_CC_DIR).                                                  *)
(***************************************************************************)
ArtifactsMatchRun ==
    (pc = "success" /\ mode = "location") => art_libs = loc

(***************************************************************************)
(* FullSourceForCC: build_tensorflow_cc is only given a complete           *)
(* TensorFlow source tree in artifacts/tensorflow.                         *)
(***************************************************************************)
FullSourceForCC ==
    (pc = "cc" /\ tf_src_bound) => art_src = "full"

(***************************************************************************)
(* ArtifactsComplete: whatever an invocation takes from an existing        *)
(* artifacts/tensorflow is there: a location build that succeeds has that *)
(* location's libraries in it, and build_tensorflow_cc finds a complete    *)
(* source tree in it.                                                      *)
(***************************************************************************)
ArtifactsComplete == ArtifactsMatchRun /\ FullSourceForCC
====
