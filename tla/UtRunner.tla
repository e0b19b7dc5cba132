------------------------------- MODULE UtRunner -------------------------------
(***************************************************************************)
(* The test loop of test/python/tensorflow/tf_unittest_runner.py without   *)
(* --xml_report: run_test runs every test of test_list in a child process  *)
(* of its own (run_singletest_in_new_child_process), the child writes the  *)
(* unittest result into a fresh multiprocessing.Manager dict, the parent   *)
(* joins the child, classifies the result into succeeded or failures,      *)
(* prints result_str, and check_and_print_summary turns the lists into the *)
(* runner's verdict.                                                       *)
(*                                                                         *)
(* A result record abstracts unittest's TestResult to what the parent      *)
(* reads: wasSuccessful() and whether failures, errors, skipped are        *)
(* non-empty lists.                                                        *)
(***************************************************************************)
EXTENDS Integers, Sequences, SequencesExt

CONSTANTS
    Tests,            \* test ids, as produced by list_tests
    ExpectedFailure,  \* the tests decorated with @unittest.expectedFailure
    MaxTests,         \* bound on the length of test_list
    NoResult,         \* the key aTest.id() is absent from return_dict
    None              \* Python's None

\* Before the first result_str assignment the local name is unbound.
Unbound == "unbound"

\* Test ids are dotted unittest names (module.Class.test_x), never the
\* marker of an unbound result_str.
ASSUME RunnerAssumption ==
    /\ Unbound \notin Tests
    /\ ExpectedFailure \subseteq Tests
    /\ MaxTests \in Nat
    /\ NoResult \notin [wasSuccessful : BOOLEAN, failures : BOOLEAN,
                        errors : BOOLEAN, skipped : BOOLEAN]
    /\ None \notin BOOLEAN

ResultRec == [wasSuccessful : BOOLEAN, failures : BOOLEAN,
              errors : BOOLEAN, skipped : BOOLEAN]

Res(ws, f, e, s) == [wasSuccessful |-> ws, failures |-> f,
                     errors |-> e, skipped |-> s]

(***************************************************************************)
(* What runner.run(aTest) returns for test t (func_utrunner_testcase_run). *)
(* Since Python 3.4 wasSuccessful() is False when there is an unexpected   *)
(* success, which is then in neither failures nor errors; an expected      *)
(* failure counts as a success.  Only @expectedFailure tests produce them. *)
(***************************************************************************)
RunResults(t) ==
    { Res(TRUE,  FALSE, FALSE, FALSE),       \* passed or expected failure
      Res(TRUE,  FALSE, FALSE, TRUE),        \* skipped
      Res(FALSE, TRUE,  FALSE, FALSE),       \* assertion failure
      Res(FALSE, FALSE, TRUE,  FALSE),       \* error
      Res(FALSE, TRUE,  TRUE,  FALSE) }      \* failure, then error in tearDown
    \cup (IF t \in ExpectedFailure
            THEN { Res(FALSE, FALSE, FALSE, FALSE) }   \* unexpected success
            ELSE {})

\* Exit codes of a child that does not return normally: an uncaught
\* exception (1) or death by a signal, e.g. SIGSEGV in native code (-11).
CrashCodes == {1, -11}

\* The record the parent stores when p.exitcode != 0.
CrashResult == Res(FALSE, TRUE, TRUE, FALSE)

VARIABLES
    test_list,    \* the list run_test iterates over
    pos,          \* index in test_list of the test being run next / now
    phase,        \* "next" | "join" | "done" | "crashed"
    child,        \* the child process: "none" | "running" | "exited"
    return_dict,  \* the entry aTest.id() of the Manager dict, or NoResult
    exitcode,     \* p.exitcode once the child has exited
    succeeded,    \* ids appended to succeeded
    failures,     \* ids whose failure (or error) list was appended to failures
    result_str,   \* the test named by the last assigned result_str, or Unbound
    status,       \* value returned by check_and_print_summary
    history       \* auxiliary: <<test, exitcode, child's result>> per finished test

vars == <<test_list, pos, phase, child, return_dict, exitcode, succeeded,
          failures, result_str, status, history>>

Phases == {"next", "join", "done", "crashed"}
-----------------------------------------------------------------------------
Init ==
    /\ test_list \in SeqOf(Tests, MaxTests)
    /\ pos = 1
    /\ phase = "next"
    /\ child = "none"
    /\ return_dict = NoResult
    /\ exitcode = 0
    /\ succeeded = <<>>
    /\ failures = <<>>
    /\ result_str = Unbound
    /\ status = FALSE
    /\ history = <<>>

\* run_singletest_in_new_child_process: a new Manager with an empty dict,
\* then p.start().
StartChild ==
    /\ phase = "next"
    /\ pos <= Len(test_list)
    /\ phase' = "join"
    /\ child' = "running"
    /\ return_dict' = NoResult
    /\ UNCHANGED <<test_list, pos, exitcode, succeeded, failures, result_str,
                   status, history>>

\* Manager() or p.start() raises (no process can be forked): nothing
\* catches it and the runner dies without a summary.
SpawnFails ==
    /\ phase = "next"
    /\ pos <= Len(test_list)
    /\ phase' = "crashed"
    /\ UNCHANGED <<test_list, pos, child, return_dict, exitcode, succeeded,
                   failures, result_str, status, history>>

\* func_utrunner_testcase_run in the child: runner.run(aTest), then the
\* result is stored under aTest.id().
ChildReport ==
    /\ child = "running"
    /\ return_dict = NoResult
    /\ \E r \in RunResults(test_list[pos]) : return_dict' = r
    /\ UNCHANGED <<test_list, pos, phase, child, exitcode, succeeded,
                   failures, result_str, status, history>>

\* The child's target returned: the process exits with code 0.
ChildExit ==
    /\ child = "running"
    /\ return_dict # NoResult
    /\ child' = "exited"
    /\ exitcode' = 0
    /\ UNCHANGED <<test_list, pos, phase, return_dict, succeeded, failures,
                   result_str, status, history>>

\* The child dies before or after it stored its result.
ChildCrash ==
    /\ child = "running"
    /\ child' = "exited"
    /\ exitcode' \in CrashCodes
    /\ UNCHANGED <<test_list, pos, phase, return_dict, succeeded, failures,
                   result_str, status, history>>

\* Mutation: trust a result the child already stored, and use the crash
\* record only when the key is missing.
TestResultMapStoredFirst ==
    IF return_dict # NoResult THEN return_dict ELSE CrashResult

\* The result map the parent reads after p.join().
TestResultMap ==
    IF exitcode # 0 THEN CrashResult ELSE return_dict

\* The loop body of run_test once the child has returned: classify the
\* result map, then print result_str, which raises UnboundLocalError if no
\* branch has assigned it yet.
RecordResult ==
    LET m    == TestResultMap
        id   == test_list[pos]
        isOk == m.wasSuccessful
        isKo == ~m.wasSuccessful /\ (m.failures \/ m.errors)
        rs   == IF isOk \/ isKo THEN id ELSE result_str
    IN /\ succeeded' = IF isOk THEN Append(succeeded, id) ELSE succeeded
       /\ failures' = IF isKo THEN Append(failures, id) ELSE failures
       /\ result_str' = rs
       /\ phase' = IF rs = Unbound THEN "crashed" ELSE "next"
       /\ pos' = pos + 1
       /\ child' = "none"
       /\ history' = Append(history, <<id, exitcode, return_dict>>)
       /\ UNCHANGED <<test_list, return_dict, exitcode, status>>

\* Mutation: poll return_dict for the key instead of p.join().
CollectWithoutJoin ==
    /\ phase = "join"
    /\ return_dict # NoResult
    /\ RecordResult

\* p.join() returns once the child has exited.
Collect ==
    /\ phase = "join"
    /\ child = "exited"
    /\ RecordResult

\* Mutation: check_and_print_summary without its else branch falls off the
\* end and returns None when there are failures.
SummaryWithoutElse ==
    /\ phase = "next"
    /\ pos > Len(test_list)
    /\ phase' = "done"
    /\ status' = IF failures = <<>> THEN TRUE ELSE None
    /\ UNCHANGED <<test_list, pos, child, return_dict, exitcode, succeeded,
                   failures, result_str, history>>

\* Mutation: a run in which no test passed is reported as failed.
SummaryNeedsPass ==
    /\ phase = "next"
    /\ pos > Len(test_list)
    /\ phase' = "done"
    /\ status' = (failures = <<>> /\ succeeded # <<>>)
    /\ UNCHANGED <<test_list, pos, child, return_dict, exitcode, succeeded,
                   failures, result_str, history>>

\* check_and_print_summary: True iff FAILED is empty.
Summary ==
    /\ phase = "next"
    /\ pos > Len(test_list)
    /\ phase' = "done"
    /\ status' = (failures = <<>>)
    /\ UNCHANGED <<test_list, pos, child, return_dict, exitcode, succeeded,
                   failures, result_str, history>>

Next ==
    \/ StartChild
    \/ SpawnFails
    \/ ChildReport
    \/ ChildExit
    \/ ChildCrash
    \/ Collect
    \/ Summary

\* The parent is a sequential loop; the child is assumed to terminate
\* (p.join() has no timeout, so a hanging test blocks the runner forever).
Fairness ==
    /\ WF_vars(StartChild)
    /\ WF_vars(ChildReport \/ ChildExit \/ ChildCrash)
    /\ WF_vars(Collect)
    /\ WF_vars(Summary)

\* In phase "done" or "crashed" the process has exited: no step is enabled.
Spec == Init /\ [][Next]_vars

FairSpec == Spec /\ Fairness
-----------------------------------------------------------------------------
TypeOK ==
    /\ test_list \in Seq(Tests)
    /\ pos \in Nat \ {0}
    /\ phase \in Phases
    /\ child \in {"none", "running", "exited"}
    /\ return_dict \in ResultRec \cup {NoResult}
    /\ exitcode \in {0} \cup CrashCodes
    /\ succeeded \in Seq(Tests)
    /\ failures \in Seq(Tests)
    /\ result_str \in Tests \cup {Unbound}
    /\ status \in BOOLEAN
    /\ history \in Seq(Tests \X ({0} \cup CrashCodes) \X (ResultRec \cup {NoResult}))

\* A finished test ran cleanly: its child exited with 0 after storing a
\* successful result.
Clean(h) == h[2] = 0 /\ h[3] # NoResult /\ h[3].wasSuccessful

(***************************************************************************)
(* VerdictSound: when the runner reports success (check_and_print_summary *)
(* returns True, so main does not raise "Tests failed"), every test it ran *)
(* exited normally and unittest judged it successful.  This relies on the *)
(* exit-code check in run_singletest_in_new_child_process overriding a     *)
(* result a crashing child already stored, and on the classification in   *)
(* run_test counting every unsuccessful result as a failure.               *)
(***************************************************************************)
VerdictSound ==
    (phase = "done" /\ status) =>
        \A i \in 1..Len(history) : Clean(history[i])

(***************************************************************************)
(* SucceededOnlyClean: a step that adds a test to succeeded adds the test *)
(* whose child process exited with code 0 after storing a result unittest *)
(* judged successful; a child that stored "success" and then crashed      *)
(* (a segfault at teardown or at interpreter exit) is never counted as    *)
(* passed, which is what the exit-code check of                           *)
(* run_singletest_in_new_child_process is for.                            *)
(***************************************************************************)
SucceededOnlyClean ==
    [][succeeded' # succeeded =>
          /\ child = "exited" /\ exitcode = 0
          /\ return_dict # NoResult /\ return_dict.wasSuccessful
          /\ succeeded' = Append(succeeded, test_list[pos])]_vars

\* The abstract state: each finished test's cleanliness, the way the
\* runner ended, and its status.
Outcomes == [i \in 1..Len(history) |-> Clean(history[i])]

Ended == IF phase = "done" THEN "report"
         ELSE IF phase = "crashed" THEN "crash"
         ELSE "no"

R == INSTANCE RunnerAbstract
        WITH outcomes <- Outcomes, ended <- Ended, verdict <- status

(***************************************************************************)
(* RunnerRefines: the child-process loop implements the abstract runner:  *)
(* each collected child is one test with its outcome, and the summary of  *)
(* check_and_print_summary reports success exactly when every test ran    *)
(* cleanly (no false success and no false failure).                       *)
(***************************************************************************)
RunnerRefines == R!Spec

(***************************************************************************)
(* Termination: if every test process terminates, the runner ends, either *)
(* with the summary of check_and_print_summary or with an exception.      *)
(***************************************************************************)
Termination == <>(phase \in {"done", "crashed"})
=============================================================================
