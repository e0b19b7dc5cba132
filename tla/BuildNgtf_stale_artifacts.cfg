CONSTANTS
    Locations <- MC_Locations
    GoodLocations <- MC_GoodLocations
    Modes <- MC_ModesNoSource
    MaxRuns <- MC_MaxRuns
SPECIFICATION Spec
INVARIANT ArtifactsComplete
CHECK_DEADLOCK FALSE
