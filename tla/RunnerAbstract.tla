---------------------------- MODULE RunnerAbstract ----------------------------
(***************************************************************************)
(* What tf_unittest_runner.py's run_test promises CI, with the tests       *)
(* reduced to whether each ran cleanly: the tests are run one after the    *)
(* other, each with an outcome, and the runner either reports a verdict    *)
(* that is success exactly when every test ran cleanly, or dies without    *)
(* one.                                                                    *)
(***************************************************************************)
EXTENDS Naturals, Sequences

VARIABLES
    outcomes,  \* per test run so far: it ran cleanly
    ended,     \* "no", "report" (summary printed) or "crash" (no verdict)
    verdict    \* the reported status

AllClean == \A i \in 1..Len(outcomes) : outcomes[i]

Init ==
    /\ outcomes = <<>>
    /\ ended = "no"
    /\ verdict = FALSE

RunTest ==
    /\ ended = "no"
    /\ \E ok \in BOOLEAN : outcomes' = Append(outcomes, ok)
    /\ UNCHANGED <<ended, verdict>>

Report ==
    /\ ended = "no"
    /\ ended' = "report"
    /\ verdict' = AllClean
    /\ UNCHANGED outcomes

Crash ==
    /\ ended = "no"
    /\ ended' = "crash"
    /\ UNCHANGED <<outcomes, verdict>>

Next == RunTest \/ Report \/ Crash

Spec == Init /\ [][Next]_<<outcomes, ended, verdict>>
====
