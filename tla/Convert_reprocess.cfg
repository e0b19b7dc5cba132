\* Every command line and graph: the pipeline implements the one-step
\* conversion with the checks the code makes.
CONSTANTS
    Ops <- MC_Ops
    VariableOps <- MC_VariableOps
    Encapsulate = "NGraphEncapsulate"
    InFormats = {"savedmodel", "pbtxt"}
    OutFormats = {"savedmodel", "pbtxt", "pb"}
SPECIFICATION Spec
PROPERTY IntendedRefines
\* The tool ends after one conversion.
CHECK_DEADLOCK FALSE
