------------------------------- MODULE MC_UtMain -------------------------------
(***************************************************************************)
(* A small TensorFlow tree for UtMain: three test modules, five test ids, *)
(* the pattern formats the runner documents (an exact id, 'module.C*',    *)
(* 'module.*'), a prefix no test has, a module that does not exist, and a *)
(* skip file naming an id, a pattern and a test of a module that can be  *)
(* found twice.                                                           *)
(***************************************************************************)
EXTENDS UtMain

MC_Modules == {"math_ops_test", "nn_test", "io_test"}

MC_Ids == {"math_ops_test.DivTest.testBasic", "math_ops_test.DivTest.testNan",
           "math_ops_test.AddTest.testBasic", "nn_test.ReluTest.testBasic",
           "io_test.ReadTest.testBasic"}

MC_ModOf == [t \in MC_Ids |->
                CASE t \in {"math_ops_test.DivTest.testBasic",
                            "math_ops_test.DivTest.testNan",
                            "math_ops_test.AddTest.testBasic"} -> "math_ops_test"
                  [] t = "nn_test.ReluTest.testBasic"        -> "nn_test"
                  [] OTHER                                   -> "io_test"]

MathIds == {"math_ops_test.DivTest.testBasic", "math_ops_test.DivTest.testNan",
            "math_ops_test.AddTest.testBasic"}

\* pattern -> <<modules fnmatch accepts, has '*', ids containing the prefix>>
PatternTable ==
    [p \in {"math_ops_test.DivTest.testBasic", "math_ops_test.D*",
            "math_ops_test.*", "math_ops_test.Mul*", "nn_test.*",
            "io_test.*", "missing_test.*"} |->
        CASE p = "math_ops_test.DivTest.testBasic" -> <<{"math_ops_test"}, FALSE, {}>>
          [] p = "math_ops_test.D*"   -> <<{"math_ops_test"}, TRUE,
                                           {"math_ops_test.DivTest.testBasic",
                                            "math_ops_test.DivTest.testNan"}>>
          [] p = "math_ops_test.*"    -> <<{"math_ops_test"}, TRUE, MathIds>>
          [] p = "math_ops_test.Mul*" -> <<{"math_ops_test"}, TRUE, {}>>
          [] p = "nn_test.*"          -> <<{"nn_test"}, TRUE, {"nn_test.ReluTest.testBasic"}>>
          [] p = "io_test.*"          -> <<{"io_test"}, TRUE, {"io_test.ReadTest.testBasic"}>>
          [] OTHER                    -> <<{}, TRUE, {}>>]

MC_Patterns == DOMAIN PatternTable
MC_FileMatch == [p \in MC_Patterns |-> PatternTable[p][1]]
MC_Wild == {p \in MC_Patterns : PatternTable[p][2]}
MC_Sub == [p \in MC_Patterns |-> PatternTable[p][3]]

MC_SkipLines == {"math_ops_test.DivTest.testBasic", "math_ops_test.D*",
                 "nn_test.ReluTest.testBasic"}

MC_CopiesOne == [m \in MC_Modules |-> 1]
\* nn_test.py exists in two directories of the tree
MC_CopiesDup == [m \in MC_Modules |-> IF m = "nn_test" THEN 2 ELSE 1]

MC_BrokenNone == {}
MC_BrokenIo == {"io_test"}

MC_ModesAll == {"list", "run", "file"}
MC_ModesRun == {"run"}
MC_ModesFile == {"file"}

MC_MaxLines == 2
====
