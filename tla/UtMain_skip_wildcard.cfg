CONSTANTS
    Modules <- MC_Modules
    Ids <- MC_Ids
    ModOf <- MC_ModOf
    Copies <- MC_CopiesOne
    Broken <- MC_BrokenNone
    Patterns <- MC_Patterns
    FileMatch <- MC_FileMatch
    Wild <- MC_Wild
    Sub <- MC_Sub
    SkipLines <- MC_SkipLines
    Modes <- MC_ModesFile
    MaxLines <- MC_MaxLines
SPECIFICATION Spec
INVARIANT SkippedNeverRun
CHECK_DEADLOCK FALSE
