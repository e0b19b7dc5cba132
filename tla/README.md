# A TLA+ verification project for ngraph-bridge's Python tooling

The Python in `src/` is the test, build and conversion tooling that sits
around the nGraph TensorFlow bridge. It is not the bridge itself, which is C++
and lives elsewhere. Most of it is straight-line glue, but some pieces hold
state and control flow that a model checker can reach and unit tests rarely do:

| Part | Source | State and operations | Modelled by |
|---|---|---|---|
| Unit-test runner, per-test child loop | `src/test/python/tensorflow/tf_unittest_runner.py` (`run_test`, `run_singletest_in_new_child_process`, `func_utrunner_testcase_run`, `check_and_print_summary`) | parent loop position, child process, its Manager dict, its exit code, `succeeded`/`failures`, `result_str`, the verdict | `RunnerAbstract`, `UtRunner`, `UtRunnerProofs` |
| Unit-test runner, selection and modes | same file (`main`, `get_test_list`, `regex_walk`, `list_tests`, `read_tests_from_file`, `skip_tests_from_list`, the `--xml_report` path) | patterns, the test ids they expand to, the skip list, invalid patterns | `UtMain` (the `--xml_report` path is not modelled) |
| Model-level test framework | `src/test/model_level_tests/test_main.py` | the model repository on disk (cloned, patched, reset) across invocations, the test folders, the patch lookup | `ModelTests`, `ModelTestsProofs` |
| Bridge build | `src/build_ngtf.py` | TF acquisition mode, `artifacts/tensorflow`, which persists across runs, the variables each step reads | `BuildNgtf`, `BuildNgtfProofs` |
| Graph conversion | `src/tools/convert.py` | the command line, the step the tool is at, the formats `filter_dict` returned, the graph in memory, the file written | `ConvertAbstract`, `Convert`, `ConvertProofs` |
| Test helpers | `src/test/python/common.py` (`with_ngraph`, `without_ngraph`) | the bridge's enabled flag, `NGRAPH_TF_DISABLE_DEASSIGN_CLUSTERS`, the helper's saved value | `NgraphEnv` (the stateless helpers are not modelled) |
| TF build script | `src/build_tf.py` | none (straight-line calls) | not modelled; line 37 is a syntax error |
| Numerical test suites, CI validation, device demos | the other files in `src/test` and `src/experimental` | none of their own | not modelled: they compare the numbers of external libraries |

## How the parts interact

`tf_unittest_runner.py` is how the C++ bridge's Python tests are run in CI.
`main` picks a mode. `--list_tests` prints the ids that a pattern expands to.
`--run_test` runs those ids. `--run_tests_from_file` reads patterns from a
file. A skip list (`--skip_tests_from_file` in run_test mode, or the
`--tests_to_skip` argument) removes ids or patterns. `run_test` then runs each
id in a fresh child process, unless `--xml_report` is given, in which case all
ids run in-process. A failed summary makes `main` raise, which gives CI its
exit status.

`common.py`'s helpers run inside those tests and toggle global bridge state.
`test_main.py`, `build_ngtf.py` and `tools/convert.py` are separate
command-line tools; the first two keep state on disk across invocations.

## UtRunner: the child-process test loop

State: the VARIABLES of `UtRunner.tla`, one per local of `run_test` and of
`run_singletest_in_new_child_process` that the control depends on.

- `pos` is the index of the current test in `test_list`.
- `phase` marks where the parent is: at the loop head, blocked in `p.join()`,
  after the summary, or dead from an exception.
- `child` marks the child process as none, running or exited.
- `return_dict` is the entry the child stored under `aTest.id()`.
- `exitcode` is `p.exitcode`.
- `succeeded`, `failures` and `result_str` are the locals of `run_test`.
- `status` is what `check_and_print_summary` returns.
- `history` is auxiliary. It records what each test really did, so that the
  verdict can be judged.

A unittest `TestResult` is abstracted to the four facts the parent reads:
`wasSuccessful()`, and whether `failures`, `errors` and `skipped` are
non-empty. `RunResults(t)` lists the results unittest can produce. An
unexpected success (`wasSuccessful()` False, nothing in failures or errors,
since Python 3.4) is possible only for a test decorated
`@unittest.expectedFailure`, so the set of such tests is a constant.

| Action | Code |
|---|---|
| `StartChild` | new `Manager`, `p.start()` |
| `SpawnFails` | the fork raises; nothing catches it |
| `ChildReport` | `runner.run` in the child and the store into the dict |
| `ChildExit` | the child's target returns |
| `ChildCrash` | the child dies by exception or signal, before or after it stored |
| `Collect` | `p.join()`, the exit-code override, the classification in `run_test` and `print(result_str)`, which raises `UnboundLocalError` when no branch ever assigned it |
| `Summary` | `check_and_print_summary` |

### Runs

`MC_UtRunner.tla` fixes three tests and lists of up to three ids (`SeqOf`).
Repeated ids are included, as `list_tests` can produce them.

- **utrunner_child** (`UtRunner.cfg`, pass) checks five properties with no
  expected-failure tests:
  - `TypeOK`.
  - `VerdictSound`: if the runner reports success, every test it ran exited
    with 0 after storing a successful result.
  - `SucceededOnlyClean` (an action property): a step that appends to
    `succeeded` appends the current test, and only after its child exited
    with 0 having stored a successful result. A child that stored success and
    then segfaulted is never counted as passed.
  - `RunnerRefines`: the loop implements `RunnerAbstract` (below).
  - `Termination`, under the fairness below.

  Every crash position is explored: before the store, after the store, and
  with exit codes 1 and -11. About 480,000 distinct states.
- **utrunner_unexpected_success** (`UtRunner_unexpected.cfg`, violation)
  makes `t2` an expected-failure test. TLC finds this trace: `t1` passes,
  then `t2` unexpectedly succeeds. The classification in `run_test`
  (lines 352-368) takes none of its branches. `t2` is counted nowhere, the
  previous `result_str` is printed again, and the summary is green. Had `t2`
  been the first test, `print(result_str)` would raise `UnboundLocalError`.
  The runner's job is to make CI fail when a test misbehaves. This is recorded
  as a finding.

Three lists of up to three tests are enough for the hazards in question. A
stale `result_str` needs one test before the one that misbehaves. A crash
after a successful store needs one test. Repeats need two positions.

### The abstract runner (`RunnerAbstract.tla`)

`RunnerAbstract` is what CI relies on, with each test reduced to whether it
ran cleanly. Tests are run one at a time, each with an outcome (`RunTest`).
The runner then either reports a verdict that is True exactly when every
outcome is clean (`Report`), or dies without one (`Crash`).

`UtRunner` maps onto it as follows:
- `outcomes` is `Outcomes`, the cleanliness of each entry of `history`;
- `ended` is `Ended`, which is `"report"` after `Summary`, `"crash"` after an
  exception, and `"no"` otherwise;
- `verdict` is `status`.

Under this mapping, `Collect` is `RunTest`, `Summary` is `Report` and
`SpawnFails` is `Crash`. The child's steps and `StartChild` are stutters.
`RunnerRefines` is a stronger statement than `VerdictSound`, because it also
rules out a false failure: the summary may not report failure when every
test ran cleanly. With an expected-failure test, the refinement does not hold
(see utrunner_unexpected_success), so the run fixes `ExpectedFailure = {}`.

### Fairness

`Fairness` puts weak fairness on the parent's steps and on the child's steps.
The parent is a sequential loop, so each of its steps is taken when it is
enabled. The child is assumed to terminate. The code does not justify that
assumption, because `p.join()` has no timeout. That is why the hang appears
as a hazard that no property can hold for. `Termination` says that the loop
ends whenever every test process ends.

### Proofs (`UtRunnerProofs.tla`)

- `TypeCorrect`: `Spec => []TypeOK` for every set of tests and every bound.
  The inductive invariant `Inv` adds `PhaseInv` and `ChildInv`:
  - The parent is joining exactly when a child exists, and then `pos` indexes
    a test of the list.
  - A stored result is one of `RunResults` for that test.
  - A child that exited with 0 has stored a result.

  These are needed because `Collect` reads `test_list[pos]` and the stored
  record.
- `VerdictSoundness`: under `ExpectedFailure = {}`, `Spec => []VerdictSound`.
  The strengthening `VInv` adds two invariants:
  - `DirtyInv`: a test in `history` that did not run cleanly has put an entry
    in `failures`.
  - `DoneInv`: after the summary, `status` says whether `failures` is empty.

  The step that matters is `Collect`. When the child crashed, the override
  record has `failures` set. When it exited with 0, `ChildInv` gives a stored
  result of `RunResults`. Without expected failures, `StoredResultClassified`
  says such a result is a success, a failure or an error, so an unclean test
  lands in `failures`.

- `SucceededOnlyCleanProof`: `Spec => SucceededOnlyClean` for every set of
  tests. Lemma `CountedCleanStep` shows that every `[Next]_vars` step from a
  state of `Inv` satisfies the body of the action property. Only `Collect`
  changes `succeeded`, and it does so only when the result map is
  successful. That forces exit code 0, since the crash record is
  unsuccessful, and `ChildInv` then gives a stored successful result. PTL
  lifts the step to the behaviour.
- `RunnerRefinement`: under `ExpectedFailure = {}`, `Spec => RunnerRefines`,
  for every test list. `RInv` adds `FailInv` to `VInv`: an entry in
  `failures` comes from a test that did not run cleanly. With `DirtyInv`,
  this makes `failures` empty exactly when every finished test ran cleanly,
  which is why the summary is `Report`'s verdict.

  `CollectedClassified` shows two facts about the map the parent reads:
  - it is a success, a failure or an error, so `result_str` is always
    assigned and `Collect` returns to the loop head;
  - it is unsuccessful exactly when the test did not run cleanly.

  `OutcomesAppend` and `OutcomesType` relate `Outcomes` to `history`.
  `RefinementStep` gives one case per action. The proof assumes that no test
  id equals the unbound marker (`RunnerAssumption`). TLC checked `RInv` as an
  invariant of the small instance before it was proved.

Liveness (`Termination`) is model-checked only, since TLAPS does not handle
liveness under fairness.

## UtMain: test selection

`UtMain.tla` models `main` of `tf_unittest_runner.py` up to the call of
`run_test`, whose loop is `UtRunner`. Test ids and patterns are names. The
string matching is given by constants:
- `FileMatch[p]`: the module files whose name `fnmatch` accepts for `p`.
- `Wild`: the patterns that hold a `*`.
- `Sub[p]`: the ids that contain `p`'s text before the `*`.
- `Copies[m]`: the number of directories `os.walk` finds a module in.
- `Broken`: the modules whose import raises.

The operators follow the helpers one to one:
- `RegexWalk` is `regex_walk`.
- `Match` and `ListTests` are `list_tests`.
- `GetTestList` is `get_test_list`, including the `except Exception` that
  turns an import error into two empty lists.
- `FromKeys` is `list(dict.fromkeys(...))`.
- `SkipTests` is `skip_tests_from_list`, which uses `list.remove`.
- `AppendUnseen` is the inner loop of the from-file mode.

The actions are the three modes:
- `ListMode` and `RunMode`.
- `FileStart`, `FileStep` and `FileDone` for `--run_tests_from_file`.
- `WalkExit`, for the `sys.exit(1)` of `regex_walk` when no file matches.

`MC_UtMain.tla` has three modules (one found twice, one failing to import),
five ids and seven patterns. The patterns are an exact id, three wildcards of
one module, a wildcard of each other module, and a pattern that matches no
file. Files have up to two lines and the skip list up to two lines.

- **utmain_selection** (pass, about 22,000 states) checks `RunsAllSelected`:
  every id that a given, unskipped, loadable pattern denotes reaches
  `run_test`, in all three modes. `nn_test` is found in two directories in
  this run, so the property is also checked when `regex_walk` returns a
  module twice.
- **utmain_skip_wildcard** (violation of `SkippedNeverRun`): in from-file
  mode, the skip list is applied to the *patterns* of the file, so a skipped
  id still runs when a wildcard line selects it.
- **utmain_import_error** (violation of `PatternAccounted`): one module of a
  pattern that fails to import silently drops every test of the pattern. It
  is neither run nor reported invalid, and the run is green.

## ModelTests: the model-level test framework

`ModelTests.tla` models `test_main.py --rewrite_test` over several
invocations. `applied[m]` is the set of test patches applied in
`<model>/downloaded_model` (`{}` when the checkout is clean or absent). It is
the only state that outlives an invocation. Nothing catches the
`AssertionError` of `command_executor`, so a failing command ends the
invocation (`pc = "aborted"`).

`git apply` succeeds when none of its hunks clash with what the checkout
already carries. The constant `Overlap` says which test patches touch the
same lines. `Applies(t, m)` holds when `t`'s patch was found and overlaps no
patch in `applied[m]`. So a checkout left patched by a failed script still
takes the patch of another test of that model when the two do not overlap.

The actions follow the code in order:
- `Start` covers the model list and its asserts.
- `Download` is `download_repo`, which keeps local changes of an existing
  clone.
- `Ready` and `ReadyFails` cover `getting_repo_ready.sh`.
- `Graph` and `GraphRejected` cover models without a repository.
- `FindPatch` and `NoPatch` are the patch lookup. `PatchFile` reproduces the
  lookup, including the model-folder path without its `/`.
- `Apply` adds the test's patch to `applied[m]`. `ApplyFails` is a failing
  `git apply`.
- `Script` is `core_rewrite_test.sh`, which passes or fails.
- `Reset`, `ResetNoAdvance` and `ResetMissing` are `git reset --hard`, which
  empties `applied[m]`. They are followed by the next test or the end of the
  model.
- `ModelDone` and `Finish` end a model and the invocation.

`MC_ModelTests.tla` has five models: one with two tests, one with one test,
one whose test has no patch, a good graph model and a graph model that fails
the format asserts. It allows two invocations. In `MC_Overlap` each patch
overlaps only itself. The loop takes `test1` before `test2`. So when
`test2`'s script fails in the first invocation, the second invocation applies
`test1` over the leftover `test2` patch, and `test1`'s reset removes both.

- **modeltests_clean** (pass, with fairness, about 1,200 states) checks three
  properties:
  - `TypeOK`.
  - `CleanAfterRun`: a completed invocation leaves every tested repository
    unpatched. This includes patches left by an earlier invocation that
    aborted.
  - `Termination`.
- **modeltests_stale_patch** (violation of `ApplyNeverFails`): a test script
  fails after `git apply`. The reset is skipped and the clone keeps the
  patch. The next invocation's `git apply` of that same test fails, since
  `download_repo` does not clean an existing clone and a patch overlaps
  itself.
The model-folder fallback of the patch lookup (`PatchFile`, test_main.py
77-86) is modelled, but no run gives a test whose patch lies only in its model
folder; see the hazard list.

Fairness is weak fairness on every step after `Start`. An invocation is a
sequential script. `Termination` assumes every test script ends, because
`communicate()` has no timeout.

### Proofs (`ModelTestsProofs.tla`)

`ModelAssumption` requires every model's set of test folders to be finite.
`OverlapAssumption` requires `Overlap` to be a symmetric relation on the
tests in which every patch overlaps itself. Under these assumptions:
- `TypeCorrect` proves `Spec => []TypeOK`;
- `CleanSafety` proves `Spec => []CleanAfterRun`.

Both hold for every set of models, folders, patches and overlaps, and for
any number of invocations.

`CleanAfterRun` is not inductive, so the inductive invariant `Inv` adds three
conjuncts:
- `AppliedOwn`: a checkout only carries patches of its own model's tests.
  So a model without test folders is never patched.
- `RepoInv`: while the driver works inside a repository, the head of `todo`
  has one on disk. From `test` on, `tests` is a sequence of that model's
  folders. From `apply` on, it is non-empty. It is also non-empty at
  `test`/`apply` when the checkout carries a patch.
- `RanInv`: every model already run that has a repository is clean, unless
  the invocation aborted or is between `Script` and `Reset` of that model.

The argument turns on how a checkout left patched by an earlier invocation
can reach `done`. `RepoInv` says such a model still has a test ahead of it.
That test either aborts the invocation (its patch lookup or `git apply`
fails) or goes through `git reset --hard`, which removes every patch, the
leftover included. A model leaves the loop only after its last test's reset,
so it is clean when it joins `ran`.

The lemmas `SetToSeqType` and `SetToSeqNonEmpty` cover `SetToSeq`, which
turns the test folders into `tests`. They establish that it is a sequence of
the folders, with length equal to the set's cardinality, and non-empty when
the set is. Their proofs go through `FS_CardinalityType` and the bijection
that `SetToSeq` picks.

## BuildNgtf: the bridge build

`BuildNgtf.tla` models `main` of `build_ngtf.py` over several invocations in
one checkout. `art_dir`, `art_src`, `art_cc` and `art_libs` describe
`artifacts/tensorflow`, which outlives an invocation:
- whether the directory exists;
- whether a TF source clone in it is absent, partial or full;
- whether `libtensorflow_cc` was built there;
- which location's TF libraries were copied in.

The invocation's own state is:
- its TF mode (`--use_tensorflow_from_location`, `--use_prebuilt_tensorflow`,
  or a source build), and its location;
- whether gcc is 4.8;
- whether the local `tf_src_dir` has been assigned;
- its step `pc`, and `reason` when it died.

The steps of `build_utils`, a module that is not in this tree, succeed or end
the invocation. `Crash` stands for a failing command or an interrupt at any
step, which leaves on disk what was written.

Each action covers a block of the code:
- `Start`: the asserts (135-161).
- `Setup`: the directory and virtualenv setup.
- `LocInstall` and `LocCopy`: the location branch (208-240).
- `GccRejected` and `PreInstall`: the gcc check and the pip install of the
  prebuilt branch (242-259).
- `CloneBegin` and `CloneEnd`: the `download_repo` of the TF source, which is
  done only if the directory is missing (259-267).
- `BuildCC`: `build_tensorflow_cc`.
- `SrcBuild`: the source branch (272-281).
- `UnboundRead`: a read of an unassigned `tf_src_dir` (284, 367, 381-385).
- `NGraph`, `Bridge` and `CopyPy`: the rest.

`MC_BuildNgtf.tla` has two locations, one passing the asserts, and two
invocations. That is enough for one invocation to die and the next to meet
what it left.

- **buildngtf_modes** (pass, 261 states, all modes, interrupts anywhere)
  checks `PrebuiltHasCC`: a `--use_prebuilt_tensorflow` build that succeeds
  has built `libtensorflow_cc` from a complete TF source tree in
  `artifacts/tensorflow`. This holds even when that directory was left by an
  earlier invocation, such as a location build or an interrupted clone, and
  the download at line 259 was skipped. The bazel build fails on such a
  tree, which ends the invocation before it can report success. A build that
  treated an existing directory as already built, as the location branch
  does at line 232, would break it.
- **buildngtf_stale_artifacts** (violation of `ArtifactsComplete`, with the
  location and prebuilt modes): an invocation takes an existing
  `artifacts/tensorflow` as complete. `ArtifactsComplete` says that a
  location build that succeeds has that location's libraries there, and that
  `build_tensorflow_cc` finds a full TF source tree there. TLC's trace
  interrupts a location build between `os.mkdir` (235) and
  `copy_tf_to_artifacts`; the next, prebuilt, invocation sees the directory,
  skips the source download (259) and hands an empty tree to
  `build_tensorflow_cc`.

The source build, the script's default, never completes. `tf_src_dir` is
assigned only in the prebuilt branch (258), so the call at line 284 raises
`NameError` on the source path. The theorem `SourceBuildDies` below proves
that no source invocation gets past that point.

No liveness is claimed. The script may stop after its last invocation, so
deadlock checking is off.

### Proofs (`BuildNgtfProofs.tla`)

Three theorems are proved for every set of locations and every bound on the
invocations:
- `TypeCorrect`: `Spec => []TypeOK`.
- `PrebuiltSafety`: `Spec => []PrebuiltHasCC`.
- `SourceBuildDies`: `Spec => []SourceNeverCompletes`. A source invocation
  never reaches `ngraph`, `bridge`, `copy_py` or `success`. This is the bug
  at line 284, stated for every run.

They rest on one inductive invariant, `Inv`, which is `TypeOK`,
`SourceNeverCompletes` and two more conjuncts:
- `BindInv`: `tf_src_dir` is bound at every prebuilt step from `pre_clone`
  on, and never in a source invocation. Each branch's steps are reached only
  in its mode.
- `CCInv`: a prebuilt invocation at `ngraph`, `bridge` or `success` has
  `art_cc` and a full tree, and `copy_py` is never reached in prebuilt mode.

`PrebuiltHasCC` alone is not inductive. Success follows `Bridge`, which
follows `NGraph`, and `CCInv` carries the fact from `BuildCC` along that path.
Nothing on the path rewrites `artifacts/tensorflow`: `CloneBegin` runs only
at `pre_clone`, and `CopyPy` runs only outside prebuilt mode. Likewise,
`SourceNeverCompletes` needs `BindInv`, because `BuildCC` requires a bound
`tf_src_dir` and `Start` unbinds it. The step proof has one case per action.
`Start` and `BuildCC` are split on their `IF`, and the Boolean facts go to
Zenon.

## Convert: the graph conversion tool

`tools/convert.py` reads a graph (savedmodel or pbtxt), checks it, runs the
nGraph grappler pass on it and writes it (savedmodel, pbtxt or pb). A graph
is modelled as the set of its op names; reading, the rewrite and writing are
opaque, and a graph in memory records only its source and whether the pass
ran.

`ConvertAbstract` states what the tool promises, in one step. A command line
with exactly one input format, exactly one output format that the tool can
write, `--outnodes`, and a graph in `Accepted` ends with the rewritten graph
written in that format. Any other command line ends with nothing written.
`Accepted` and `Writable` are constants, so that the promise can be stated
both with the check the code makes and with the check its comment intends.

`Convert` follows `main` step by step:

| Action | Code |
|---|---|
| `ParseArgs` | `prepare_argparser`: two options of one mutually exclusive group are a usage error |
| `FilterInput`, `FilterOutput` | `filter_dict`: the assert that exactly one option of the direction is set |
| `SplitOutnodes` | `args.outnodes.split(',')`, an `AttributeError` without `--outnodes` |
| `Load` | `convert`'s format asserts, `get_input_gdef` and `assert check_graph_validity` |
| `Optimize` | `run_ngraph_grappler_optimizer` |
| `Save` | `save_model`; `save_gdef_to_savedmodel` raises "Implement me" |

`IsNot` models `i.op is not 'NGraphEncapsulate'`. This is an identity test
between a string read from the protobuf and a literal, so it is true for
every op name. The refinement mapping sends `req` to `request`, `out` to
`written`, and `done` to "`pc` is `done` or `aborted`". It is instantiated
twice: `A`, with `Accepted <- CodeAccepted` (the graphs
`check_graph_validity` lets through), and `I`, with
`Accepted <- IntendedAccepted` (no `NGraphEncapsulate` and no variable op).

`MC_Convert.tla` has three op names (`MatMul`, `VariableV2`,
`NGraphEncapsulate`), so every combination of an already converted graph, a
graph with variables and a plain graph occurs. Every command line over the
two input and three output formats occurs, with and without `--outnodes`.

- **convert_refines** (pass, 1,536 states): `ConvertRefines == A!Spec`.
  The tool implements the promise with the code's own check, and only the
  protobuf formats are writable. A savedmodel output is accepted by argparse
  and by the asserts, but fails after the pass ran, with nothing written.
- **convert_reprocess** (violation of `IntendedRefines == I!Spec`): a
  savedmodel whose graph holds `NGraphEncapsulate` is converted and written
  out again as pbtxt, which the comment of `check_graph_validity` says must
  not happen.

There is no fairness: the tool is one sequential run, and nothing in the
promise is about it ending.

### Proofs (`ConvertProofs.tla`)

`Refinement` (`Spec => ConvertRefines`) is proved for every set of op names.
It rests on `Invariance` (`Spec => []Inv`). `Inv` is `TypeOK` with what each
earlier step established:
- from `filter_out` on, `request.ins = {inp}`;
- from `split` on, `request.outs = {outp}`;
- from `load` on, `--outnodes` was given;
- at `optimize` and `save`, the graph passed `check_graph_validity` and is
  the one in memory;
- before the end, nothing is written.

`Save` needs all of these to show that a successful save is the abstract
`Succeed`. Every step that aborts is the abstract `Reject`, and every other
step is a stutter of the abstract state. The lemmas are:
- `FormatsFinite` and `FilterDictOne`: `filter_dict` on a direction with one
  option returns it;
- `SavedIsResult`: the file written is the abstract `Result`.

## NgraphEnv: the test helpers

`with_ngraph` and `without_ngraph` of `test/python/common.py` run a test body
`l(sess)` with the bridge enabled or disabled. Both save
`NGRAPH_TF_DISABLE_DEASSIGN_CLUSTERS` with `os.environ.pop` and put it back
after the body. `with_ngraph` also sets the variable to `'1'` for the body.
`NgraphEnv` models a pytest process that calls the helpers one after another.
The body either returns or raises; the failing assert of a test raises, and
nothing in the helper catches it.

| Action | Code |
|---|---|
| `WithNgraph` | lines 50-57: pop, set `'1'`, `enable()` |
| `WithoutNgraph` | lines 69-73: pop, `disable()` |
| `WithReturns` | lines 60-66: pop, restore if a value was saved |
| `WithoutReturns` | lines 76-80: restore if a value was saved (no pop) |
| `BodyRaises` | the body raises; the restore is skipped |

`MC_NgraphEnv.tla` lets the user start the process with the variable unset,
`"0"` or `"1"`, and allows three helper calls: one to fail and two to follow.

- **ngraphenv_raise** (violation of `CleanReturnRestores`): after a helper
  call returns normally, the variable should be what the user started with.
  TLC's trace starts with `"0"`. A `with_ngraph` body raises and leaves
  `'1'`. The next call, a second `with_ngraph` (state 4), saves that `'1'`
  as if it were the user's value and, when its body returns (state 5), puts
  `'1'` back. Every later test runs with the leaked value, although each of
  these calls returns cleanly. A `without_ngraph` in its place does the same.

## What is only model-checked, and what is not modelled

- Liveness (`Termination` in UtRunner and ModelTests) is checked by TLC only,
  since TLAPS does not handle fairness or ENABLED.
- `UtMain`'s `TypeOK` and `RunsAllSelected` are
  model-checked only. The test lists they speak about are built by
  `FoldLeft`, `FlattenSeq` and the recursive `AppendUnseen`. Proving what
  these compute for every input needs induction over sequences, and the
  library's induction theorems take an operator parameter that the installed
  provers cannot instantiate.
- `RunnerRefines` with an expected-failure test does not hold. That case is
  the violation run utrunner_unexpected_success.
- `NgraphEnv` has only a violation run, and no theorem: the property it
  checks does not hold of the code.
- Not modelled:
  - the `--xml_report` path of the runner;
  - the reading, rewriting and writing of graphs in `convert.py`, which
    are protobuf and grappler calls;
  - the stateless helpers of `common.py` (`generate_random_numbers`,
    `get_tensor`, `import_pbtxt`);
  - `build_tf.py`, which has no branching and does not parse (line 37);
  - the numerical suites and demos, which only compare library outputs.

## Plan

1. The `--xml_report` path of `UtMain`.
2. A run with a patch only in a model folder (`PatchFile`'s fallback).
3. An abstract specification for `BuildNgtf`'s persistent build tree. It can
   be stated only once `ArtifactsComplete` is repaired in the code.
4. Larger instances of `Convert`, with more op names.
