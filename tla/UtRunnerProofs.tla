---------------------------- MODULE UtRunnerProofs ----------------------------
(***************************************************************************)
(* Proofs about UtRunner, the child-process test loop of                   *)
(* tf_unittest_runner.py, for every set of tests and every bound.          *)
(***************************************************************************)
EXTENDS UtRunner, TLAPS

(***************************************************************************)
(* The control invariant: the parent is in phase "join" exactly while a    *)
(* child process exists, and then pos indexes the test that child runs;    *)
(* a stored result is one unittest can produce for that test, and a child  *)
(* that exited with 0 has stored one.                                      *)
(***************************************************************************)
PhaseInv ==
    /\ (phase = "join") <=> (child \in {"running", "exited"})
    /\ phase = "join" => pos \in 1..Len(test_list)
    /\ pos \in 1..Len(test_list) + 1

ChildInv ==
    /\ (child # "none" /\ return_dict # NoResult)
           => return_dict \in RunResults(test_list[pos])
    /\ (child = "exited" /\ exitcode = 0) => return_dict # NoResult

Inv == TypeOK /\ PhaseInv /\ ChildInv

(***************************************************************************)
(* The strengthening of VerdictSound: a test that did not run cleanly has  *)
(* left an entry in failures, and a finished runner's status says whether *)
(* failures is empty.                                                      *)
(***************************************************************************)
Dirty == \E i \in 1..Len(history) : ~Clean(history[i])

DirtyInv == Dirty => failures # <<>>

DoneInv == phase = "done" => (status <=> failures = <<>>)

VInv == Inv /\ DirtyInv /\ DoneInv
-----------------------------------------------------------------------------
LEMMA SeqOfIsSeq ==
    ASSUME NEW S, NEW n \in Nat
    PROVE  SeqOf(S, n) \subseteq Seq(S)
BY DEF SeqOf

LEMMA RunResultsType ==
    ASSUME NEW t
    PROVE  RunResults(t) \subseteq ResultRec
<1>1. \A ws, f, e, sk \in BOOLEAN : Res(ws, f, e, sk) \in ResultRec
    BY DEF Res, ResultRec
<1>2. QED
    BY <1>1 DEF RunResults

LEMMA InitInv == Init => Inv
<1> SUFFICES ASSUME Init PROVE Inv
    OBVIOUS
<1>1. test_list \in Seq(Tests)
    BY SeqOfIsSeq, RunnerAssumption DEF Init
<1>2. TypeOK
    <2>1. history \in Seq(Tests \X ({0} \cup CrashCodes) \X (ResultRec \cup {NoResult}))
        BY DEF Init
    <2>2. /\ succeeded \in Seq(Tests) /\ failures \in Seq(Tests)
          /\ return_dict \in ResultRec \cup {NoResult}
          /\ exitcode \in {0} \cup CrashCodes
          /\ result_str \in Tests \cup {Unbound}
        BY DEF Init
    <2>3. pos \in Nat \ {0}
        BY DEF Init
    <2>4. phase \in Phases
        BY DEF Init, Phases
    <2>5. status \in BOOLEAN
        BY DEF Init
    <2>6. child \in {"none", "running", "exited"}
        BY DEF Init
    <2>7. QED
        BY <1>1, <2>1, <2>2, <2>3, <2>4, <2>5, <2>6 DEF TypeOK
<1>3. PhaseInv
    BY <1>1 DEF Init, PhaseInv
<1>4. ChildInv
    BY DEF Init, ChildInv
<1>5. QED
    BY <1>2, <1>3, <1>4 DEF Inv

LEMMA NextInv == Inv /\ [Next]_vars => Inv'
<1> SUFFICES ASSUME Inv, [Next]_vars PROVE Inv'
    OBVIOUS
<1> USE RunnerAssumption DEF Inv, TypeOK, PhaseInv, ChildInv, Phases
<1>1. CASE StartChild
    BY <1>1 DEF StartChild
<1>2. CASE SpawnFails
    BY <1>2 DEF SpawnFails
<1>3. CASE ChildReport
    BY <1>3, RunResultsType DEF ChildReport
<1>4. CASE ChildExit
    BY <1>4 DEF ChildExit
<1>5. CASE ChildCrash
    BY <1>5 DEF ChildCrash, CrashCodes
<1>6. CASE Collect
    <2>1. pos \in 1..Len(test_list) /\ test_list[pos] \in Tests
        BY <1>6 DEF Collect
    <2>2. TestResultMap \in ResultRec
        <3>1. CASE exitcode # 0
            BY <3>1 DEF TestResultMap, CrashResult, Res, ResultRec
        <3>2. CASE exitcode = 0
            BY <3>2, <1>6, RunResultsType DEF TestResultMap, Collect
        <3>3. QED
            BY <3>1, <3>2
    <2>3. QED
        BY <1>6, <2>1, <2>2 DEF Collect, RecordResult, ResultRec, Phases, CrashCodes
<1>7. CASE Summary
    BY <1>7 DEF Summary
<1>8. CASE UNCHANGED vars
    BY <1>8 DEF vars
<1>9. QED
    BY <1>1, <1>2, <1>3, <1>4, <1>5, <1>6, <1>7, <1>8 DEF Next

(***************************************************************************)
(* TypeCorrect: every reachable state of the test loop is well typed, for *)
(* every set of tests and every bound on the length of the test list.     *)
(***************************************************************************)
THEOREM TypeCorrect == Spec => []TypeOK
<1>1. Init => Inv
    BY InitInv
<1>2. Inv /\ [Next]_vars => Inv'
    BY NextInv
<1>3. Inv => TypeOK
    BY DEF Inv
<1>4. QED
    BY <1>1, <1>2, <1>3, PTL DEF Spec
-----------------------------------------------------------------------------
\* Without @expectedFailure tests, every result unittest can store is a
\* success, a failure or an error.
LEMMA StoredResultClassified ==
    ASSUME ExpectedFailure = {}, NEW t, NEW r \in RunResults(t)
    PROVE  r.wasSuccessful \/ r.failures \/ r.errors
BY DEF RunResults, Res

LEMMA VInvInit == Init => VInv
<1> SUFFICES ASSUME Init PROVE VInv
    OBVIOUS
<1>1. Inv
    BY InitInv
<1>2. ~Dirty
    BY DEF Init, Dirty
<1>3. QED
    BY <1>1, <1>2 DEF VInv, DirtyInv, DoneInv, Init

LEMMA VInvNext ==
    ASSUME ExpectedFailure = {}
    PROVE  VInv /\ [Next]_vars => VInv'
<1> SUFFICES ASSUME VInv, [Next]_vars PROVE VInv'
    OBVIOUS
<1>1. Inv'
    BY NextInv DEF VInv
<1> USE DEF VInv, Inv
<1>2. CASE Collect
    <2> DEFINE h == <<test_list[pos], exitcode, return_dict>>
               m == TestResultMap
    <2>1. /\ pos \in 1..Len(test_list)
          /\ child = "exited"
          /\ history \in Seq(Tests \X ({0} \cup CrashCodes) \X (ResultRec \cup {NoResult}))
          /\ failures \in Seq(Tests)
          /\ test_list \in Seq(Tests)
        BY <1>2 DEF Collect, PhaseInv, TypeOK
    <2>2. ~Clean(h) => ~m.wasSuccessful /\ (m.failures \/ m.errors)
        <3>1. CASE exitcode # 0
            BY <3>1 DEF TestResultMap, CrashResult, Res
        <3>2. CASE exitcode = 0
            <4>1. return_dict # NoResult
                BY <3>2, <2>1 DEF ChildInv
            <4>2. return_dict \in RunResults(test_list[pos])
                BY <4>1, <2>1 DEF ChildInv
            <4>3. Clean(h) <=> return_dict.wasSuccessful
                BY <3>2, <4>1 DEF Clean
            <4>4. m = return_dict
                BY <3>2 DEF TestResultMap
            <4>5. return_dict.wasSuccessful \/ return_dict.failures \/ return_dict.errors
                BY <4>2, StoredResultClassified
            <4>6. QED
                BY <4>3, <4>4, <4>5
        <3>3. QED
            BY <3>1, <3>2
    <2>3. history' = Append(history, h)
        BY <1>2 DEF Collect, RecordResult
    <2>4. (~m.wasSuccessful /\ (m.failures \/ m.errors))
              => failures' = Append(failures, test_list[pos])
        BY <1>2 DEF Collect, RecordResult
    <2>5. failures' = failures \/ failures' = Append(failures, test_list[pos])
        BY <1>2 DEF Collect, RecordResult
    <2>6. DirtyInv'
        <3>1. Dirty' => Dirty \/ ~Clean(h)
            <4>1. SUFFICES ASSUME NEW i \in 1..Len(history'), ~Clean(history'[i])
                           PROVE  Dirty \/ ~Clean(h)
                BY DEF Dirty
            <4>2. CASE i = Len(history) + 1
                BY <4>1, <4>2, <2>1, <2>3
            <4>3. CASE i \in 1..Len(history)
                BY <4>1, <4>3, <2>1, <2>3 DEF Dirty
            <4>4. QED
                BY <4>2, <4>3, <2>1, <2>3
        <3>2. ~Clean(h) => failures' # <<>>
            BY <2>1, <2>2, <2>4
        <3>3. Dirty => failures' # <<>>
            BY <2>1, <2>5 DEF DirtyInv
        <3>4. QED
            BY <3>1, <3>2, <3>3 DEF DirtyInv
    <2>7. DoneInv'
        BY <1>2 DEF Collect, RecordResult, DoneInv
    <2>8. QED
        BY <1>1, <2>6, <2>7
<1>3. CASE Summary
    BY <1>1, <1>3 DEF Summary, DirtyInv, DoneInv, Dirty
<1>4. CASE StartChild \/ SpawnFails \/ ChildReport \/ ChildExit \/ ChildCrash
    <2>1. UNCHANGED <<history, failures, status>>
        BY <1>4 DEF StartChild, SpawnFails, ChildReport, ChildExit, ChildCrash
    <2>2. phase' = "done" => phase = "done"
        BY <1>4 DEF StartChild, SpawnFails, ChildReport, ChildExit, ChildCrash
    <2>3. QED
        BY <1>1, <2>1, <2>2 DEF DirtyInv, DoneInv, Dirty
<1>5. CASE UNCHANGED vars
    BY <1>1, <1>5 DEF vars, DirtyInv, DoneInv, Dirty
<1>6. QED
    BY <1>2, <1>3, <1>4, <1>5 DEF Next

(***************************************************************************)
(* VerdictSoundness: when no test is decorated @unittest.expectedFailure, *)
(* a runner that reports success (check_and_print_summary returns True)   *)
(* ran every test of its list to a clean exit with a successful result,   *)
(* whatever the list and whichever children crashed, before or after they *)
(* stored their result.                                                    *)
(***************************************************************************)
THEOREM VerdictSoundness ==
    ASSUME ExpectedFailure = {}
    PROVE  Spec => []VerdictSound
<1>1. Init => VInv
    BY VInvInit
<1>2. VInv /\ [Next]_vars => VInv'
    BY VInvNext
<1>3. VInv => VerdictSound
    BY DEF VInv, DoneInv, DirtyInv, Dirty, VerdictSound
<1>4. QED
    BY <1>1, <1>2, <1>3, PTL DEF Spec
-----------------------------------------------------------------------------
\* The step of SucceededOnlyClean: what a step that grows succeeded saw.
CountedClean ==
    succeeded' # succeeded =>
        /\ child = "exited" /\ exitcode = 0
        /\ return_dict # NoResult /\ return_dict.wasSuccessful
        /\ succeeded' = Append(succeeded, test_list[pos])

\* Every step from a state of the invariant satisfies it.
LEMMA CountedCleanStep == Inv /\ [Next]_vars => CountedClean
<1> SUFFICES ASSUME Inv, [Next]_vars PROVE CountedClean
    OBVIOUS
<1>1. CASE Collect
    <2> SUFFICES ASSUME succeeded' # succeeded
                 PROVE  /\ child = "exited" /\ exitcode = 0
                        /\ return_dict # NoResult /\ return_dict.wasSuccessful
                        /\ succeeded' = Append(succeeded, test_list[pos])
        BY DEF CountedClean
    <2>1. TestResultMap.wasSuccessful
        BY <1>1 DEF Collect, RecordResult
    <2>2. exitcode = 0
        BY <2>1 DEF TestResultMap, CrashResult, Res
    <2>3. child = "exited" /\ return_dict # NoResult
        BY <1>1, <2>2 DEF Collect, Inv, ChildInv
    <2>4. return_dict.wasSuccessful
        BY <2>1, <2>2 DEF TestResultMap
    <2>5. succeeded' = Append(succeeded, test_list[pos])
        BY <1>1, <2>1 DEF Collect, RecordResult
    <2>6. QED
        BY <2>2, <2>3, <2>4, <2>5
<1>2. CASE ~Collect
    <2>1. succeeded' = succeeded
        BY <1>2 DEF Next, vars, StartChild, SpawnFails, ChildReport, ChildExit,
                    ChildCrash, Summary
    <2>2. QED
        BY <2>1 DEF CountedClean
<1>3. QED
    BY <1>1, <1>2

(***************************************************************************)
(* SucceededOnlyCleanProof: in every behaviour, for every set of tests, a *)
(* test is added to succeeded only after its child exited with code 0     *)
(* having stored a successful result (SucceededOnlyClean): the exit-code  *)
(* override of run_singletest_in_new_child_process is never bypassed.     *)
(***************************************************************************)
THEOREM SucceededOnlyCleanProof == Spec => SucceededOnlyClean
<1>1. Inv /\ [Next]_vars => [CountedClean]_vars
    BY CountedCleanStep
<1>2. QED
    BY <1>1, InitInv, NextInv, PTL DEF Spec, SucceededOnlyClean, CountedClean
-----------------------------------------------------------------------------
(***************************************************************************)
(* The converse of DirtyInv: failures only grows by the id of a test that *)
(* did not run cleanly, so failures is empty exactly while every finished *)
(* test ran cleanly.  RunnerRefinement needs both directions: the summary *)
(* must be neither a false success nor a false failure.                   *)
(***************************************************************************)
FailInv == failures # <<>> => Dirty

RInv == VInv /\ FailInv

\* Outcomes is the sequence of the cleanliness of the finished tests.
LEMMA OutcomesType ==
    ASSUME history \in Seq(Tests \X ({0} \cup CrashCodes) \X (ResultRec \cup {NoResult}))
    PROVE  /\ Outcomes \in Seq(BOOLEAN)
           /\ Len(Outcomes) = Len(history)
           /\ R!AllClean <=> ~Dirty
<1>1. Outcomes \in Seq(BOOLEAN) /\ Len(Outcomes) = Len(history)
    BY DEF Outcomes, Clean
<1>2. QED
    BY <1>1 DEF R!AllClean, Outcomes, Dirty

\* Finishing one more test appends its cleanliness to Outcomes.
LEMMA OutcomesAppend ==
    ASSUME NEW h,
           history \in Seq(Tests \X ({0} \cup CrashCodes) \X (ResultRec \cup {NoResult})),
           history' = Append(history, h)
    PROVE  Outcomes' = Append(Outcomes, Clean(h))
BY DEF Outcomes

\* Without expectedFailure tests, the result map the parent reads after
\* joining a child is either a success or a failure/error: result_str is
\* always assigned.
LEMMA CollectedClassified ==
    ASSUME ExpectedFailure = {}, Inv, phase = "join", child = "exited"
    PROVE  LET m == TestResultMap
           IN  /\ m.wasSuccessful \/ (m.failures \/ m.errors)
               /\ ~Clean(<<test_list[pos], exitcode, return_dict>>)
                      <=> ~m.wasSuccessful
<1>1. CASE exitcode # 0
    BY <1>1 DEF TestResultMap, CrashResult, Res, Clean
<1>2. CASE exitcode = 0
    <2>1. return_dict # NoResult /\ return_dict \in RunResults(test_list[pos])
        BY <1>2 DEF Inv, ChildInv
    <2>2. TestResultMap = return_dict
        BY <1>2 DEF TestResultMap
    <2>3. return_dict.wasSuccessful \/ return_dict.failures \/ return_dict.errors
        BY <2>1, StoredResultClassified
    <2>4. QED
        BY <1>2, <2>1, <2>2, <2>3 DEF Clean
<1>3. QED
    BY <1>1, <1>2

LEMMA RInvInit == Init => RInv
<1> SUFFICES ASSUME Init PROVE RInv
    OBVIOUS
<1>1. VInv
    BY VInvInit
<1>2. FailInv
    BY DEF Init, FailInv
<1>3. QED
    BY <1>1, <1>2 DEF RInv

LEMMA RInvNext ==
    ASSUME ExpectedFailure = {}
    PROVE  RInv /\ [Next]_vars => RInv'
<1> SUFFICES ASSUME RInv, [Next]_vars PROVE RInv'
    OBVIOUS
<1>1. VInv'
    BY VInvNext DEF RInv
<1>2. CASE Collect
    <2> DEFINE h == <<test_list[pos], exitcode, return_dict>>
    <2>1. /\ history \in Seq(Tests \X ({0} \cup CrashCodes) \X (ResultRec \cup {NoResult}))
          /\ history' = Append(history, h)
        BY <1>2 DEF Collect, RecordResult, RInv, VInv, Inv, TypeOK
    <2>2. failures' # failures => ~Clean(h)
        BY <1>2, CollectedClassified DEF Collect, RecordResult, RInv, VInv
    <2>3. ~Clean(h) => Dirty'
        BY <2>1 DEF Dirty
    <2>4. Dirty => Dirty'
        BY <2>1 DEF Dirty
    <2>5. QED
        BY <1>1, <2>2, <2>3, <2>4 DEF RInv, FailInv
<1>3. CASE ~Collect
    <2>1. UNCHANGED <<history, failures>>
        BY <1>3 DEF Next, vars, StartChild, SpawnFails, ChildReport, ChildExit,
                    ChildCrash, Summary
    <2>2. QED
        BY <1>1, <2>1 DEF RInv, FailInv, Dirty
<1>4. QED
    BY <1>2, <1>3

\* Every step of the loop is a step of the abstract runner or a stutter.
LEMMA RefinementStep ==
    ASSUME ExpectedFailure = {}
    PROVE  RInv /\ [Next]_vars => [R!Next]_<<Outcomes, Ended, status>>
<1> SUFFICES ASSUME RInv, [Next]_vars
             PROVE  [R!Next]_<<Outcomes, Ended, status>>
    OBVIOUS
<1> USE DEF RInv, VInv, Inv
<1>1. history \in Seq(Tests \X ({0} \cup CrashCodes) \X (ResultRec \cup {NoResult}))
    BY DEF TypeOK
<1>2. CASE Collect
    <2> DEFINE h == <<test_list[pos], exitcode, return_dict>>
    <2>1. history' = Append(history, h)
        BY <1>2 DEF Collect, RecordResult
    <2>2. Outcomes' = Append(Outcomes, Clean(h))
        BY <1>1, <2>1, OutcomesAppend
    <2>3. Ended = "no"
        BY <1>2 DEF Collect, Ended
    <2>4. pos \in 1..Len(test_list) /\ test_list \in Seq(Tests)
        BY <1>2 DEF Collect, PhaseInv, TypeOK
    <2>5. TestResultMap.wasSuccessful \/ TestResultMap.failures
              \/ TestResultMap.errors
        BY <1>2, CollectedClassified DEF Collect
    <2>6. phase' = "next"
        BY <1>2, <2>4, <2>5, RunnerAssumption DEF Collect, RecordResult
    <2>7. Ended' = "no" /\ status' = status
        BY <1>2, <2>6 DEF Collect, RecordResult, Ended
    <2>8. Clean(h) \in BOOLEAN
        BY DEF Clean
    <2>9. R!RunTest
        BY <2>2, <2>3, <2>7, <2>8 DEF R!RunTest
    <2>10. QED
        BY <2>9 DEF R!Next
<1>3. CASE Summary
    <2>1. Ended = "no" /\ Ended' = "report"
        BY <1>3 DEF Summary, Ended
    <2>2. UNCHANGED Outcomes
        BY <1>3 DEF Summary, Outcomes
    <2>3. status' <=> ~Dirty
        BY <1>3 DEF Summary, DirtyInv, FailInv
    <2>4. R!AllClean <=> ~Dirty
        BY <1>1, OutcomesType
    <2>5. status' \in BOOLEAN
        BY <1>3 DEF Summary
    <2>6. status' = R!AllClean
        BY <2>3, <2>4, <2>5 DEF R!AllClean
    <2>7. QED
        BY <2>1, <2>2, <2>6 DEF R!Next, R!Report
<1>4. CASE SpawnFails
    <2>1. Ended = "no" /\ Ended' = "crash"
        BY <1>4 DEF SpawnFails, Ended
    <2>2. UNCHANGED <<Outcomes, status>>
        BY <1>4 DEF SpawnFails, Outcomes
    <2>3. QED
        BY <2>1, <2>2 DEF R!Next, R!Crash
<1>5. CASE StartChild \/ ChildReport \/ ChildExit \/ ChildCrash
    <2>1. UNCHANGED <<history, status>>
        BY <1>5 DEF StartChild, ChildReport, ChildExit, ChildCrash
    <2>2. phase \in {"next", "join"} /\ phase' \in {"next", "join"}
        BY <1>5 DEF StartChild, ChildReport, ChildExit, ChildCrash, PhaseInv
    <2>3. Ended = "no" /\ Ended' = "no"
        BY <2>2 DEF Ended
    <2>4. QED
        BY <2>1, <2>3 DEF Outcomes
<1>6. CASE UNCHANGED vars
    BY <1>6 DEF vars, Outcomes, Ended
<1>7. QED
    BY <1>2, <1>3, <1>4, <1>5, <1>6 DEF Next

(***************************************************************************)
(* RunnerRefinement: when no test is decorated @unittest.expectedFailure, *)
(* the child-process loop of run_test implements RunnerAbstract under the *)
(* mapping Outcomes/Ended/status (RunnerRefines): each collected child is *)
(* one test run, a failed spawn ends the runner without a verdict, and    *)
(* check_and_print_summary returns True exactly when every test ran       *)
(* cleanly, so neither a false success nor a false failure is reported.   *)
(***************************************************************************)
THEOREM RunnerRefinement ==
    ASSUME ExpectedFailure = {}
    PROVE  Spec => RunnerRefines
<1>1. Init => R!Init
    <2> SUFFICES ASSUME Init PROVE R!Init
        OBVIOUS
    <2>1. Outcomes = <<>>
        BY DEF Init, Outcomes
    <2>2. QED
        BY <2>1 DEF Init, Ended, R!Init
<1>2. RInv /\ [Next]_vars => [R!Next]_<<Outcomes, Ended, status>>
    BY RefinementStep
<1>3. Init => RInv
    BY RInvInit
<1>4. RInv /\ [Next]_vars => RInv'
    BY RInvNext
<1>5. QED
    BY <1>1, <1>2, <1>3, <1>4, PTL DEF Spec, RunnerRefines, R!Spec

=============================================================================
