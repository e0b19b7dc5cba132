CONSTANTS
    Models <- MC_Models
    HasRepo <- MC_HasRepo
    ReadyScript <- MC_ReadyScript
    GoodGraph <- MC_GoodGraph
    Folders <- MC_Folders
    PatchAt <- MC_PatchInTest
    Overlap <- MC_Overlap
    MaxRuns <- MC_MaxRuns
SPECIFICATION FairSpec
INVARIANT TypeOK
INVARIANT CleanAfterRun
PROPERTY Termination
CHECK_DEADLOCK FALSE
