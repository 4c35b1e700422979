CONSTANT NumNodes = 2
SPECIFICATION Spec
INVARIANTS
    TypeOK
    UpOkMeansVerified
    PanicNeedsTwoFailures
    OrphanIsLast
    WorkersKnowControlPlane
    CleanRunLeavesNothing
    SurvivorsExplained
    NilRunnerLosesNothing
PROPERTY ImplementsLifecycle
