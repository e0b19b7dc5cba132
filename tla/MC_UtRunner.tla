----------------------------- MODULE MC_UtRunner -----------------------------
(* Small instances of UtRunner for TLC. *)
EXTENDS UtRunner

\* Three test ids and lists of up to three of them (repetitions included:
\* list_tests returns a test twice when its module file is found twice).
MC_Tests == {"t1", "t2", "t3"}
MC_MaxTests == 3

\* No test is decorated with @unittest.expectedFailure.
MC_NoExpectedFailure == {}

\* One test is decorated with @unittest.expectedFailure.
MC_OneExpectedFailure == {"t2"}
=============================================================================
