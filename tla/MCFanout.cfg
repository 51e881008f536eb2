CONSTANTS
    NumCoders = 2
    MaxParallel = 2
    Worker = {1, 2}
SPECIFICATION Spec
INVARIANTS
    TypeOK
    PermitConservation
    NoStaleStatus
    OutputsTracked
    JoinTruth
    CommitIsQuiescent
    IntegratedWasGated
    CommitsRecoverable
    
    EndLeavesNothing
PROPERTY ProtocolSpec
CHECK_DEADLOCK FALSE
