CONSTANTS
    Tests <- MC_Tests
    ExpectedFailure <- MC_NoExpectedFailure
    MaxTests <- MC_MaxTests
    NoResult = NoResult
    None = None
SPECIFICATION FairSpec
INVARIANT TypeOK
INVARIANT VerdictSound
PROPERTY Termination
PROPERTY SucceededOnlyClean
PROPERTY RunnerRefines
CHECK_DEADLOCK FALSE
