CONSTANTS
    Tests <- MC_Tests
    ExpectedFailure <- MC_OneExpectedFailure
    MaxTests <- MC_MaxTests
    NoResult = NoResult
    None = None
SPECIFICATION FairSpec
INVARIANT VerdictSound
CHECK_DEADLOCK FALSE
