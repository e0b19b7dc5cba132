\* All three TensorFlow modes over two invocations, with interrupts.
CONSTANTS
    Locations <- MC_Locations
    GoodLocations <- MC_GoodLocations
    Modes <- MC_ModesAll
    MaxRuns <- MC_MaxRuns
SPECIFICATION Spec
INVARIANT PrebuiltHasCC
\* The script ends after its last invocation.
CHECK_DEADLOCK FALSE
