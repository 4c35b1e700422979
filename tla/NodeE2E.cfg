CONSTANTS
    Images = {i1, i2}
    AMIs = {a1, a2}
    Old = Old
    None = None
SPECIFICATION FairSpec
INVARIANTS
    TypeOK
    TestsAreIsolated
    StatusCoversEveryTest
    CleanUpPrecedesExit
PROPERTY RunEnds
