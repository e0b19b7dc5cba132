CONSTANTS
    Modules <- MC_Modules
    Ids <- MC_Ids
    ModOf <- MC_ModOf
    Copies <- MC_CopiesOne
    Broken <- MC_BrokenIo
    Patterns <- MC_Patterns
    FileMatch <- MC_FileMatch
    Wild <- MC_Wild
    Sub <- MC_Sub
    SkipLines <- MC_SkipLines
    Modes <- MC_ModesRun
    MaxLines <- MC_MaxLines
SPECIFICATION Spec
INVARIANT PatternAccounted
CHECK_DEADLOCK FALSE
