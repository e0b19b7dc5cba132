CONSTANTS
    Models <- MC_Models
    HasRepo <- MC_HasRepo
    ReadyScript <- MC_ReadyScript
    GoodGraph <- MC_GoodGraph
    Folders <- MC_Folders
    PatchAt <- MC_PatchInTest
    Overlap <- MC_Overlap
    MaxRuns <- MC_MaxRuns
SPECIFICATION Spec
INVARIANT ApplyNeverFails
CHECK_DEADLOCK FALSE
