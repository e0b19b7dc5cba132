------------------------------ MODULE ModelTests ------------------------------
(***************************************************************************)
(* The model-level test framework test/model_level_tests/test_main.py     *)
(* run with --rewrite_test, over several invocations.                      *)
(*                                                                         *)
(* A model directory either names a repository in repo.txt, which is      *)
(* cloned into <model>/downloaded_model, or holds a graph file.  For a     *)
(* repository every enabled test folder test* is run by                    *)
(* apply_patch_and_test: find enable_ngraph.patch, git apply it, run       *)
(* core_rewrite_test.sh, then git reset --hard.  command_executor asserts  *)
(* that every command succeeds, and nothing catches the AssertionError:   *)
(* the invocation dies.  downloaded_model stays on disk and is reused by  *)
(* the next invocation: it is the state that survives a crash.  A         *)
(* checkout is abstracted to the set of test patches applied to it.       *)
(***************************************************************************)
EXTENDS Integers, Sequences, SequencesExt

CONSTANTS
    Models,      \* directories under models/
    HasRepo,     \* models whose directory holds a repo.txt
    ReadyScript, \* models with a getting_repo_ready.sh
    GoodGraph,   \* repo-less models whose directory passes the format asserts
    Folders,     \* Folders[m]: the enabled test folders (test*, not disabled)
    PatchAt,     \* PatchAt[t]: where enable_ngraph.patch of test t lies
    Overlap,     \* <<t, u>>: t's patch does not apply over u's (same lines)
    MaxRuns      \* bound on the number of invocations

ASSUME ModelAssumption ==
    /\ HasRepo \subseteq Models
    /\ ReadyScript \subseteq HasRepo
    /\ GoodGraph \subseteq Models \ HasRepo
    /\ Folders \in [Models -> SUBSET STRING]
    /\ \A m \in Models : IsFiniteSet(Folders[m])
    /\ \A m \in Models \ HasRepo : Folders[m] = {}
    /\ PatchAt \in [UNION {Folders[m] : m \in Models} -> {"test", "model", "none"}]
    /\ MaxRuns \in Nat

Tests == UNION {Folders[m] : m \in Models}

\* git apply of a patch onto a tree that already carries it fails, and
\* overlapping is symmetric.
ASSUME OverlapAssumption ==
    /\ Overlap \subseteq Tests \X Tests
    /\ \A t \in Tests : <<t, t>> \in Overlap
    /\ \A t, u \in Tests : <<t, u>> \in Overlap => <<u, t>> \in Overlap

\* The reasons an invocation dies, "none" while it has not.
Reasons == {"none", "nopatch", "apply", "script", "ready", "format"}

(***************************************************************************)
(* The patch file apply_patch_and_test settles on.  The model-folder path *)
(* is test_folder + '../enable_ngraph.patch', i.e. the file               *)
(* "<test>../enable_ngraph.patch", which no checkout has, so that         *)
(* os.path.isfile is False; and were it True, the branch picks the        *)
(* test-folder path anyway.  "test" is the test folder's patch, "none"    *)
(* stands for None.                                                       *)
(***************************************************************************)
ModelPathIsFile(t) == FALSE

PatchFile(t) ==
    CASE PatchAt[t] = "test" -> "test"
      [] ModelPathIsFile(t)  -> "test"
      [] OTHER               -> "none"

VARIABLES
    applied,     \* applied[m]: the test patches applied in m's downloaded_model
    runs,        \* invocations started so far
    pc,          \* where the current invocation is
    todo,        \* models of model_list still to test
    tests,       \* test folders of the current model still to run
    ran,         \* models this invocation has finished
    reason       \* why the invocation died

vars == <<applied, runs, pc, todo, tests, ran, reason>>

PCs == {"idle", "model", "download", "test", "apply", "script", "reset",
        "done", "aborted"}
-----------------------------------------------------------------------------
Init ==
    /\ applied = [m \in Models |-> {}]
    /\ runs = 0
    /\ pc = "idle"
    /\ todo = <<>>
    /\ tests = <<>>
    /\ ran = {}
    /\ reason = "none"

\* Mutation: the model list is not checked against models/ (no assert).
StartUnchecked ==
    /\ pc \in {"idle", "done", "aborted"}
    /\ runs < MaxRuns
    /\ \E ml \in SeqOf(Models \cup {"no_such_model"}, 2) \ {<<>>} : todo' = ml
    /\ runs' = runs + 1
    /\ pc' = "model"
    /\ ran' = {}
    /\ reason' = "none"
    /\ UNCHANGED <<applied, tests>>

\* python test_main.py --rewrite_test [--models m1,m2]: the model list is
\* every directory, or the given names, which the asserts require to exist.
Start ==
    /\ pc \in {"idle", "done", "aborted"}
    /\ runs < MaxRuns
    /\ \E ml \in SeqOf(Models, 2) \ {<<>>} : todo' = ml
    /\ runs' = runs + 1
    /\ pc' = "model"
    /\ ran' = {}
    /\ reason' = "none"
    /\ UNCHANGED <<applied, tests>>

\* rewrite_test of a model with repo.txt: download_repo clones into an
\* absent downloaded_model (no patch applied) and otherwise checks the
\* version out, which keeps uncommitted changes: applied is unchanged.
Download ==
    /\ pc = "model"
    /\ todo # <<>>
    /\ Head(todo) \in HasRepo
    /\ pc' = "download"
    /\ UNCHANGED <<applied, runs, todo, tests, ran, reason>>

\* ready_repo: getting_repo_ready.sh, if present, succeeds; then the loop
\* over the enabled test folders in os.listdir order.
Ready ==
    /\ pc = "download"
    /\ pc' = "test"
    /\ tests' = SetToSeq(Folders[Head(todo)])
    /\ UNCHANGED <<applied, runs, todo, ran, reason>>

\* getting_repo_ready.sh fails: command_executor's assert kills the run.
ReadyFails ==
    /\ pc = "download"
    /\ Head(todo) \in ReadyScript
    /\ pc' = "aborted"
    /\ reason' = "ready"
    /\ UNCHANGED <<applied, runs, todo, tests, ran>>

\* rewrite_test of a model without repo.txt: the asserts on its files,
\* then get_gdef; nothing is run with the graph.
Graph ==
    /\ pc = "model"
    /\ todo # <<>>
    /\ Head(todo) \in GoodGraph
    /\ todo' = Tail(todo)
    /\ ran' = ran \cup {Head(todo)}
    /\ UNCHANGED <<applied, runs, pc, tests, reason>>

\* More than two files, no README beside a second file, or an unknown
\* extension: an assert kills the run.
GraphRejected ==
    /\ pc = "model"
    /\ todo # <<>>
    /\ Head(todo) \notin HasRepo \cup GoodGraph
    /\ pc' = "aborted"
    /\ reason' = "format"
    /\ UNCHANGED <<applied, runs, todo, tests, ran>>

\* The folder loop of a model is over.
ModelDone ==
    /\ pc = "test"
    /\ tests = <<>>
    /\ pc' = "model"
    /\ todo' = Tail(todo)
    /\ ran' = ran \cup {Head(todo)}
    /\ UNCHANGED <<applied, runs, tests, reason>>

\* Every model of the list is done: the invocation ends normally.
Finish ==
    /\ pc = "model"
    /\ todo = <<>>
    /\ pc' = "done"
    /\ UNCHANGED <<applied, runs, todo, tests, ran, reason>>

\* apply_patch_and_test: the patch lookup finds a file.
FindPatch ==
    /\ pc = "test"
    /\ tests # <<>>
    /\ PatchFile(Head(tests)) # "none"
    /\ pc' = "apply"
    /\ UNCHANGED <<applied, runs, todo, tests, ran, reason>>

\* assert patch_file is not None: "Did not fine any patch file".
NoPatch ==
    /\ pc = "test"
    /\ tests # <<>>
    /\ PatchFile(Head(tests)) = "none"
    /\ pc' = "aborted"
    /\ reason' = "nopatch"
    /\ UNCHANGED <<applied, runs, todo, tests, ran>>

\* git apply succeeds when the chosen file exists and the tree carries no
\* patch that overlaps it (this one included).
Applies(t, m) == PatchAt[t] = "test" /\ \A u \in applied[m] : <<t, u>> \notin Overlap

\* git apply of the test's patch.
Apply ==
    /\ pc = "apply"
    /\ Applies(Head(tests), Head(todo))
    /\ applied' = [applied EXCEPT ![Head(todo)] = @ \cup {Head(tests)}]
    /\ pc' = "script"
    /\ UNCHANGED <<runs, todo, tests, ran, reason>>

\* git apply fails: the tree carries an overlapping patch (a leftover of
\* this test), or the chosen file does not exist.
ApplyFails ==
    /\ pc = "apply"
    /\ ~Applies(Head(tests), Head(todo))
    /\ pc' = "aborted"
    /\ reason' = "apply"
    /\ UNCHANGED <<applied, runs, todo, tests, ran>>

\* core_rewrite_test.sh passes, or fails and command_executor's assert
\* kills the run before the reset.
Script ==
    /\ pc = "script"
    /\ \/ pc' = "reset" /\ UNCHANGED reason
       \/ pc' = "aborted" /\ reason' = "script"
    /\ UNCHANGED <<applied, runs, todo, tests, ran>>

\* Mutation: the cleanup forgotten after a passing test.
ResetMissing ==
    /\ pc = "reset"
    /\ pc' = "test"
    /\ tests' = Tail(tests)
    /\ UNCHANGED <<applied, runs, todo, ran, reason>>

\* Mutation: the folder loop does not move on after a test.
ResetNoAdvance ==
    /\ pc = "reset"
    /\ applied' = [applied EXCEPT ![Head(todo)] = {}]
    /\ pc' = "test"
    /\ UNCHANGED <<runs, todo, tests, ran, reason>>

\* git reset --hard removes every applied patch (patches made with git
\* diff touch tracked files only), then return_to_cwd.
Reset ==
    /\ pc = "reset"
    /\ applied' = [applied EXCEPT ![Head(todo)] = {}]
    /\ pc' = "test"
    /\ tests' = Tail(tests)
    /\ UNCHANGED <<runs, todo, ran, reason>>

Next ==
    \/ Start \/ Download \/ Ready \/ ReadyFails \/ Graph \/ GraphRejected
    \/ ModelDone \/ Finish \/ FindPatch \/ NoPatch \/ Apply \/ ApplyFails
    \/ Script \/ Reset

\* An invocation is a sequential script; test scripts are assumed to end.
Fairness ==
    WF_vars(Download \/ Ready \/ ReadyFails \/ Graph \/ GraphRejected
            \/ ModelDone \/ Finish \/ FindPatch \/ NoPatch \/ Apply
            \/ ApplyFails \/ Script \/ Reset)

Spec == Init /\ [][Next]_vars

FairSpec == Spec /\ Fairness
-----------------------------------------------------------------------------
TypeOK ==
    /\ applied \in [Models -> SUBSET Tests]
    /\ runs \in 0..MaxRuns
    /\ pc \in PCs
    /\ todo \in Seq(Models)
    /\ tests \in Seq(Tests)
    /\ ran \subseteq Models
    /\ reason \in Reasons

(***************************************************************************)
(* CleanAfterRun: an invocation that completes leaves the downloaded       *)
(* repository of every model it tested without an applied patch, so the   *)
(* next invocation starts from the checkout (the git reset --hard after    *)
(* each test of apply_patch_and_test).                                     *)
(***************************************************************************)
CleanAfterRun ==
    pc = "done" => \A m \in ran \cap HasRepo : applied[m] = {}

(***************************************************************************)
(* ApplyNeverFails: git apply of a test's patch never fails: every test   *)
(* starts from a checkout its patch applies to, whatever earlier           *)
(* invocations did.                                                        *)
(***************************************************************************)
ApplyNeverFails == reason # "apply"

(***************************************************************************)
(* Termination: every invocation ends, normally or by an assertion, if    *)
(* every test script ends.                                                 *)
(***************************************************************************)
Termination ==
    (pc \notin {"idle", "done", "aborted"}) ~> (pc \in {"done", "aborted"})

====
