\* The process really stops at exit, after GracefulStop: no deadlock check.
CONSTANTS
    a = a
    b = b
    r1 = r1
    r2 = r2
    None = None
    Names <- MCNamesOne
    Reqs <- MCReqsSeq
    Sizes <- MCSizes
    Total <- MCTotal
    Reserved <- MCReserved
    MaxAttempts <- MCMaxAttempts
SPECIFICATION AgentSpec
CHECK_DEADLOCK FALSE
INVARIANT AgentTypeOK
PROPERTY Converges
PROPERTY OnlyLateAfterUnregister
