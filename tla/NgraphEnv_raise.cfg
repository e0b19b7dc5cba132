\* A test body that raises inside with_ngraph, then more tests.
CONSTANTS
    Values <- MC_Values
    MaxCalls <- MC_MaxCalls
SPECIFICATION Spec
INVARIANT CleanReturnRestores
\* The process ends after its last test.
CHECK_DEADLOCK FALSE
